----------------------------- MODULE CompilerProofs ---------------------------
(***************************************************************************)
(* Two parts of the compiler.  Errors, for any number of errors, classes,  *)
(* functions and open regions: the references to error objects in every    *)
(* program; and in plain programs, those without the habits for which the  *)
(* emitted code is wrong, that the saved frames belong to the handlers and *)
(* finally bodies that control is in, and that finally bodies run once.    *)
(* The loading and checking of modules, for every tree of source files:    *)
(* every import is answered, and a module is checked after the modules it  *)
(* imports, import cycles apart.                                           *)
(***************************************************************************)
EXTENDS CompilerParts, FiniteSetTheorems, SequenceTheorems, NaturalsInduction,
        WellFoundedInduction, TLAPS

\* The frames that hold e
Frames(h, e) == {i \in 1..Len(h.handled) : h.handled[i] = e}

\* The two forms of the invariant of the exception state
Good(h) == h \in Heaps /\ Counted(h)

LEMMA FramesFinite ==
    ASSUME NEW h \in Heaps, NEW e
    PROVE  IsFiniteSet(Frames(h, e)) /\ Cardinality(Frames(h, e)) \in Nat
  <1>1. Len(h.handled) \in Nat
    BY DEF Heaps
  <1>2. IsFiniteSet(1..Len(h.handled)) /\ Frames(h, e) \subseteq 1..Len(h.handled)
    BY <1>1, FS_Interval DEF Frames
  <1>3. QED
    BY <1>2, FS_Subset, FS_CardinalityType

\* Counts depend on the frames and the pending slot only.
LEMMA OwnersAre ==
    ASSUME NEW h \in Heaps, NEW e
    PROVE  Owners(h, e) = Cardinality(Frames(h, e)) + IF h.pending = e THEN 1 ELSE 0
  BY DEF Owners, Frames

\* A new frame adds an owner of the error it holds and of no other.
LEMMA OneMore ==
    ASSUME NEW h \in Heaps, NEW x \in Errors \cup {None}, NEW e,
           NEW g \in Heaps, g.handled = Append(h.handled, x)
    PROVE  Cardinality(Frames(g, e)) = Cardinality(Frames(h, e)) + IF x = e THEN 1 ELSE 0
  <1> DEFINE n == Len(h.handled)  before == Frames(h, e)
  <1>1. n \in Nat /\ Len(g.handled) = n + 1 /\ g.handled[n + 1] = x
        /\ \A i \in 1..n : g.handled[i] = h.handled[i]
    BY DEF Heaps
  <1>2. IsFiniteSet(before) /\ n + 1 \notin before
    <2>1. IsFiniteSet(before)
      BY FramesFinite
    <2>2. n + 1 \notin before
      BY <1>1 DEF Frames
    <2>3. QED
      BY <2>1, <2>2
  <1>3. CASE x = e
    <2>1. Frames(g, e) = before \cup {n + 1}
      BY <1>1, <1>3 DEF Frames
    <2> HIDE DEF before
    <2>2. Cardinality(before \cup {n + 1}) = Cardinality(before) + 1
      BY <1>2, FS_AddElement
    <2>3. QED
      BY <2>1, <2>2, <1>3 DEF before
  <1>4. CASE x # e
    <2>1. Frames(g, e) = before
      BY <1>1, <1>4 DEF Frames
    <2>2. Cardinality(before) \in Nat
      BY FramesFinite
    <2>3. QED
      BY <2>1, <2>2, <1>4
  <1>5. QED
    BY <1>3, <1>4

\* Other counts for the same slots
LEMMA WithRefs ==
    ASSUME NEW h \in Heaps, NEW f \in [Errors -> Nat], NEW g, g = [h EXCEPT !.refs = f]
    PROVE  g \in Heaps /\ g.refs = f /\ g.handled = h.handled /\ g.pending = h.pending
  BY DEF Heaps

\* Releasing an error that has an owner takes one reference off.
LEMMA ReleasedIs ==
    ASSUME NEW h \in Heaps, NEW e \in Errors \cup {None}, e \in Errors => h.refs[e] >= 1
    PROVE  /\ Released(h, e) \in Heaps
           /\ Released(h, e).handled = h.handled /\ Released(h, e).pending = h.pending
           /\ \A x \in Errors : Released(h, e).refs[x] = h.refs[x] - IF e = x THEN 1 ELSE 0
  <1>1. None \notin Errors /\ h.refs \in [Errors -> Nat]
    BY ErrorsAssumption DEF Heaps
  <1>2. CASE e = None
    BY <1>1, <1>2 DEF Released
  <1>3. CASE e # None
    <2> DEFINE f == [h.refs EXCEPT ![e] = @ - 1]
    <2>1. e \in Errors /\ h.refs[e] - 1 \in Nat
      BY <1>1, <1>3
    <2>2. f \in [Errors -> Nat] /\ \A x \in Errors : f[x] = h.refs[x] - IF e = x THEN 1 ELSE 0
      BY <1>1, <2>1
    <2>3. Released(h, e) = [h EXCEPT !.refs = f]
      BY <1>3 DEF Released, Heaps
    <2> HIDE DEF f
    <2>4. Released(h, e) \in Heaps /\ Released(h, e).refs = f
          /\ Released(h, e).handled = h.handled /\ Released(h, e).pending = h.pending
      BY <2>2, <2>3, WithRefs
    <2>5. QED
      BY <2>2, <2>4
  <1>4. QED
    BY <1>2, <1>3

\* So does replacing the pending error.
LEMMA ReplacedIs ==
    ASSUME NEW h \in Heaps, NEW e \in Errors,
           h.pending \in Errors => h.refs[h.pending] >= 1
    PROVE  /\ Replaced(h, e) \in Heaps
           /\ Replaced(h, e).handled = h.handled /\ Replaced(h, e).pending = e
           /\ \A x \in Errors : Replaced(h, e).refs[x] = h.refs[x] - IF h.pending = x THEN 1 ELSE 0
  <1> DEFINE r == Released(h, h.pending)
  <1>1. h.pending \in Errors \cup {None}
    BY DEF Heaps
  <1>2. /\ r \in Heaps /\ r.handled = h.handled
        /\ \A x \in Errors : r.refs[x] = h.refs[x] - IF h.pending = x THEN 1 ELSE 0
    BY <1>1, ReleasedIs
  <1> HIDE DEF r
  <1>3. Replaced(h, e) = [[r EXCEPT !.pending = None] EXCEPT !.pending = e]
    BY DEF r, Cleared, Replaced
  <1>4. QED
    BY <1>2, <1>3 DEF Heaps

LEMMA RaisedGood ==
    ASSUME NEW h, Good(h), NEW e \in Unused(h)
    PROVE  Good(Raised(h, e))
  <1> DEFINE g == Raised(h, e)
  <1>1. h \in Heaps /\ Counted(h) /\ e \in Errors /\ h.refs[e] = 0 /\ None \notin Errors
    BY ErrorsAssumption DEF Good, Unused
  <1>3. h.pending # e
    <2>1. SUFFICES ASSUME h.pending = e PROVE FALSE
      OBVIOUS
    <2>2. Owners(h, e) = Cardinality(Frames(h, e)) + 1 /\ Cardinality(Frames(h, e)) \in Nat
      BY <1>1, <2>1, OwnersAre, FramesFinite
    <2>3. QED
      BY <1>1, <2>2 DEF Counted
  <1>4. \A x \in Errors : x = h.pending => h.refs[x] >= 1
    <2>1. SUFFICES ASSUME NEW x \in Errors, x = h.pending PROVE h.refs[x] >= 1
      OBVIOUS
    <2>2. Owners(h, x) = Cardinality(Frames(h, x)) + 1 /\ Cardinality(Frames(h, x)) \in Nat
      BY <1>1, <2>1, OwnersAre, FramesFinite
    <2>3. QED
      BY <1>1, <2>2 DEF Counted, Heaps
  <1> DEFINE k == [h EXCEPT !.refs[e] = 1]
  <1>2. /\ k \in Heaps /\ k.handled = h.handled /\ k.pending = h.pending
        /\ \A x \in Errors : k.refs[x] = IF x = e THEN 1 ELSE h.refs[x]
    <2> DEFINE f == [h.refs EXCEPT ![e] = 1]
    <2>1. h.refs \in [Errors -> Nat] /\ k = [h EXCEPT !.refs = f]
      BY <1>1 DEF Heaps
    <2>2. f \in [Errors -> Nat] /\ \A x \in Errors : f[x] = IF x = e THEN 1 ELSE h.refs[x]
      BY <1>1, <2>1
    <2> HIDE DEF f, k
    <2>3. k \in Heaps /\ k.refs = f /\ k.handled = h.handled /\ k.pending = h.pending
      BY <1>1, <2>1, <2>2, WithRefs
    <2>4. QED
      BY <2>2, <2>3
  <1> HIDE DEF k
  <1>5. /\ g \in Heaps /\ g.handled = h.handled /\ g.pending = e
        /\ \A x \in Errors : g.refs[x] = (IF x = e THEN 1 ELSE h.refs[x])
                                         - IF h.pending = x THEN 1 ELSE 0
    <2>1. g = Replaced(k, e)
      BY DEF k, Raised
    <2> HIDE DEF g
    <2>2. h.pending \in Errors => k.refs[h.pending] >= 1
      BY <1>2, <1>3, <1>4
    <2>3. k.pending \in Errors => k.refs[k.pending] >= 1
      BY <1>2, <2>2
    <2>4. /\ g \in Heaps /\ g.handled = k.handled /\ g.pending = e
          /\ \A x \in Errors : g.refs[x] = k.refs[x] - IF k.pending = x THEN 1 ELSE 0
      BY <1>1, <1>2, <2>1, <2>3, ReplacedIs
    <2>5. QED
      BY <1>2, <2>4
  <1>6. ASSUME NEW x \in Errors PROVE g.refs[x] = Owners(g, x)
    <2>1. Frames(g, x) = Frames(h, x)
      BY <1>5 DEF Frames
    <2>2. Owners(g, x) = Cardinality(Frames(h, x)) + IF x = e THEN 1 ELSE 0
      BY <2>1, <1>5, OwnersAre
    <2>3. h.refs[x] = Cardinality(Frames(h, x)) + IF h.pending = x THEN 1 ELSE 0
      BY <1>1, OwnersAre DEF Counted
    <2>4. Cardinality(Frames(h, x)) \in Nat
      BY <1>1, FramesFinite
    <2>5. QED
      BY <2>2, <2>3, <2>4, <1>1, <1>3, <1>5
  <1>7. QED
    BY <1>5, <1>6 DEF Good, Counted

LEMMA ReraisedGood ==
    ASSUME NEW h, Good(h), NEW e \in Errors, Innermost(h, e)
    PROVE  Good(Reraised(h, e))
  <1> DEFINE g == Reraised(h, e)
  <1>1. h \in Heaps /\ Counted(h) /\ None \notin Errors
    BY ErrorsAssumption DEF Good
  <1> DEFINE k == [h EXCEPT !.refs[e] = @ + 1]
  <1>2. /\ k \in Heaps /\ k.handled = h.handled /\ k.pending = h.pending
        /\ \A x \in Errors : k.refs[x] = h.refs[x] + IF x = e THEN 1 ELSE 0
    <2> DEFINE f == [h.refs EXCEPT ![e] = @ + 1]
    <2>1. h.refs \in [Errors -> Nat] /\ h.refs[e] + 1 \in Nat /\ k = [h EXCEPT !.refs = f]
      BY <1>1 DEF Heaps
    <2>2. f \in [Errors -> Nat] /\ \A x \in Errors : f[x] = h.refs[x] + IF x = e THEN 1 ELSE 0
      BY <1>1, <2>1
    <2> HIDE DEF f, k
    <2>3. k \in Heaps /\ k.refs = f /\ k.handled = h.handled /\ k.pending = h.pending
      BY <1>1, <2>1, <2>2, WithRefs
    <2>4. QED
      BY <2>2, <2>3
  <1> HIDE DEF k
  <1>3. \A x \in Errors : x = h.pending => h.refs[x] >= 1
    <2>1. SUFFICES ASSUME NEW x \in Errors, x = h.pending PROVE h.refs[x] >= 1
      OBVIOUS
    <2>2. Owners(h, x) = Cardinality(Frames(h, x)) + 1 /\ Cardinality(Frames(h, x)) \in Nat
      BY <1>1, <2>1, OwnersAre, FramesFinite
    <2>3. QED
      BY <1>1, <2>2 DEF Counted, Heaps
  <1>4. /\ g \in Heaps /\ g.handled = h.handled /\ g.pending = e
        /\ \A x \in Errors : g.refs[x] = h.refs[x] + (IF x = e THEN 1 ELSE 0)
                                         - (IF h.pending = x THEN 1 ELSE 0)
    <2>1. g = Replaced(k, e)
      BY DEF k, Reraised
    <2> HIDE DEF g
    <2>2. h.pending \in Errors => k.refs[h.pending] >= 1
      BY <1>1, <1>2, <1>3 DEF Heaps
    <2>3. k.pending \in Errors => k.refs[k.pending] >= 1
      BY <1>2, <2>2
    <2>4. /\ g \in Heaps /\ g.handled = k.handled /\ g.pending = e
          /\ \A x \in Errors : g.refs[x] = k.refs[x] - IF k.pending = x THEN 1 ELSE 0
      BY <1>1, <1>2, <2>1, <2>3, ReplacedIs
    <2>5. QED
      BY <1>1, <1>2, <2>4 DEF Heaps
  <1>5. ASSUME NEW x \in Errors PROVE g.refs[x] = Owners(g, x)
    <2>1. Frames(g, x) = Frames(h, x)
      BY <1>4 DEF Frames
    <2>2. Owners(g, x) = Cardinality(Frames(h, x)) + IF x = e THEN 1 ELSE 0
      BY <2>1, <1>4, OwnersAre
    <2>3. h.refs[x] = Cardinality(Frames(h, x)) + IF h.pending = x THEN 1 ELSE 0
      BY <1>1, OwnersAre DEF Counted
    <2>4. Cardinality(Frames(h, x)) \in Nat
      BY <1>1, FramesFinite
    <2>5. QED
      BY <2>2, <2>3, <2>4, <1>4 DEF Heaps
  <1>6. QED
    BY <1>4, <1>5 DEF Good, Counted

LEMMA EnteredGood ==
    ASSUME NEW h, Good(h)
    PROVE  Good(Entered(h))
  <1> DEFINE g == Entered(h)
  <1>1. h \in Heaps /\ Counted(h) /\ None \notin Errors
    BY ErrorsAssumption DEF Good
  <1>2. /\ g \in Heaps /\ g.handled = Append(h.handled, h.pending)
        /\ g.pending = None /\ g.refs = h.refs /\ h.pending \in Errors \cup {None}
    <2>1. h.handled \in Seq(Errors \cup {None}) /\ h.pending \in Errors \cup {None}
      BY <1>1 DEF Heaps
    <2>2. Append(h.handled, h.pending) \in Seq(Errors \cup {None})
      BY <2>1
    <2>3. g = [h EXCEPT !.handled = Append(h.handled, h.pending), !.pending = None]
      BY <1>1 DEF Entered, Heaps
    <2>4. QED
      BY <1>1, <2>1, <2>2, <2>3 DEF Heaps
  <1>3. ASSUME NEW x \in Errors PROVE g.refs[x] = Owners(g, x)
    <2>1. Cardinality(Frames(g, x)) = Cardinality(Frames(h, x)) + IF h.pending = x THEN 1 ELSE 0
      BY <1>1, <1>2, OneMore
    <2>2. Owners(g, x) = Cardinality(Frames(g, x)) + 0
      BY <1>1, <1>2, OwnersAre
    <2>3. h.refs[x] = Cardinality(Frames(h, x)) + IF h.pending = x THEN 1 ELSE 0
      BY <1>1, OwnersAre DEF Counted
    <2>4. Cardinality(Frames(h, x)) \in Nat
      BY <1>1, FramesFinite
    <2>5. QED
      BY <2>1, <2>2, <2>3, <2>4, <1>2
  <1>4. QED
    BY <1>2, <1>3 DEF Good, Counted

LEMMA LeftGood ==
    ASSUME NEW h, Good(h), NEW restore \in BOOLEAN
    PROVE  Good(Left(h, restore))
  <1>1. h \in Heaps /\ Counted(h) /\ None \notin Errors
    BY ErrorsAssumption DEF Good
  <1>2. CASE h.handled = <<>>
    BY <1>2 DEF Left
  <1>3. CASE h.handled # <<>>
    <2> DEFINE n == Len(h.handled)  e == h.handled[n]
               k == [h EXCEPT !.handled = SubSeq(@, 1, n - 1)]  g == Left(h, restore)
    <2>1. /\ n \in Nat /\ n >= 1 /\ e \in Errors \cup {None} /\ k \in Heaps
          /\ h.handled = Append(k.handled, e)
          /\ k.pending = h.pending /\ k.refs = h.refs
      <3>1. h.handled \in Seq(Errors \cup {None})
        BY <1>1 DEF Heaps
      <3>2. n \in Nat /\ n >= 1 /\ e \in Errors \cup {None}
        BY <1>3, <3>1
      <3>3. SubSeq(h.handled, 1, n - 1) \in Seq(Errors \cup {None})
            /\ h.handled = Append(SubSeq(h.handled, 1, n - 1), e)
        BY <3>1, <3>2
      <3>4. k = [h EXCEPT !.handled = SubSeq(h.handled, 1, n - 1)]
        BY <1>1 DEF Heaps
      <3> HIDE DEF e, k
      <3>5. QED
        BY <1>1, <3>2, <3>3, <3>4 DEF Heaps
    <2>2. g = LeftWith(k, e, restore)
      BY <1>3 DEF Left
    <2>3. ASSUME NEW x \in Errors
          PROVE  /\ h.refs[x] = Cardinality(Frames(k, x)) + (IF e = x THEN 1 ELSE 0)
                                + (IF h.pending = x THEN 1 ELSE 0)
                 /\ Cardinality(Frames(k, x)) \in Nat
      <3> HIDE DEF e, k
      <3>1. Cardinality(Frames(h, x)) = Cardinality(Frames(k, x)) + IF e = x THEN 1 ELSE 0
        BY <1>1, <2>1, OneMore
      <3>2. h.refs[x] = Cardinality(Frames(h, x)) + IF h.pending = x THEN 1 ELSE 0
        BY <1>1, OwnersAre DEF Counted
      <3>3. Cardinality(Frames(k, x)) \in Nat
        BY <2>1, FramesFinite
      <3>4. QED
        BY <3>1, <3>2, <3>3
    <2> HIDE DEF e, k, n
    <2>4. CASE restore /\ h.pending = None
      <3>1. g = [k EXCEPT !.pending = e]
        BY <2>1, <2>2, <2>4 DEF LeftWith
      <3>2. g \in Heaps /\ g.handled = k.handled /\ g.pending = e /\ g.refs = k.refs
        BY <2>1, <3>1 DEF Heaps
      <3>3. ASSUME NEW x \in Errors PROVE g.refs[x] = Owners(g, x)
        <4>1. Frames(g, x) = Frames(k, x)
          BY <3>2 DEF Frames
        <4>2. Owners(g, x) = Cardinality(Frames(k, x)) + IF e = x THEN 1 ELSE 0
          BY <3>2, <4>1, OwnersAre
        <4>3. QED
          <5>1. h.pending # x
            BY <1>1, <2>4
          <5>2. QED
            BY <2>1, <2>3, <3>2, <4>2, <5>1
      <3>4. QED
        BY <3>2, <3>3 DEF Good, Counted
    <2>5. CASE ~(restore /\ h.pending = None)
      <3>1. g = Released(k, e)
        BY <2>1, <2>2, <2>5 DEF LeftWith
      <3>2. e \in Errors => k.refs[e] >= 1
        BY <2>1, <2>3
      <3>3. /\ g \in Heaps /\ g.handled = k.handled /\ g.pending = k.pending
            /\ \A x \in Errors : g.refs[x] = h.refs[x] - IF e = x THEN 1 ELSE 0
        BY <2>1, <3>1, <3>2, ReleasedIs
      <3>4. ASSUME NEW x \in Errors PROVE g.refs[x] = Owners(g, x)
        <4>1. Frames(g, x) = Frames(k, x)
          BY <3>3 DEF Frames
        <4>2. Owners(g, x) = Cardinality(Frames(k, x)) + IF h.pending = x THEN 1 ELSE 0
          BY <2>1, <3>3, <4>1, OwnersAre
        <4>3. QED
          BY <2>3, <3>3, <4>2
      <3>5. QED
        BY <3>3, <3>4 DEF Good, Counted
    <2>6. QED
      BY <2>4, <2>5
  <1>4. QED
    BY <1>2, <1>3
-------------------------------------------------------------------------------
IInv == TypeOK /\ OwnersCounted

LEMMA IInvInit == Init => IInv
  <1> SUFFICES ASSUME Init PROVE IInv
    OBVIOUS
  <1>1. heap \in Heaps /\ heap.handled = <<>> /\ heap.pending = None /\ \A e \in Errors : heap.refs[e] = 0
    BY DEF Init, NoErrors, Heaps
  <1>2. ASSUME NEW e \in Errors PROVE heap.refs[e] = Owners(heap, e)
    <2>1. Frames(heap, e) = {}
      BY <1>1 DEF Frames
    <2>2. Cardinality(Frames(heap, e)) = 0
      BY <2>1, FS_EmptySet
    <2>3. e # None
      BY ErrorsAssumption
    <2>4. QED
      BY <1>1, <2>2, <2>3, OwnersAre
  <1>3. QED
    BY <1>1, <1>2 DEF Init, IInv, TypeOK, OwnersCounted, Counted

\* Every action of the program leaves the exception state as one function of the
\* runtime, or two of them one after the other, make it.
LEMMA HeapSteps ==
    ASSUME TypeOK, Next
    PROVE  \/ heap' = heap
           \/ \E e \in Unused(heap) : heap' = Raised(heap, e)
           \/ \E e \in Errors : Innermost(heap, e) /\ heap' = Reraised(heap, e)
           \/ heap' = Entered(heap)
           \/ \E restore \in BOOLEAN : heap' = Left(heap, restore)
           \/ heap' = Entered(Left(heap, FALSE))
  <1>1. ASSUME NEW t \in Types, Raise(t)
        PROVE  \E e \in Unused(heap) : heap' = Raised(heap, e)
    BY <1>1 DEF Raise
  <1>2. ASSUME Reraise
        PROVE  \E e \in Errors : Innermost(heap, e) /\ heap' = Reraised(heap, e)
    BY <1>2 DEF Reraise
  <1>3. ASSUME EnterHandler \/ PassBy \/ EndElse PROVE heap' = Entered(heap)
    BY <1>3 DEF EnterHandler, PassBy, EndElse, Finish
  <1>4. ASSUME EndHandler \/ HandlerFails PROVE heap' = Entered(Left(heap, FALSE))
    BY <1>4 DEF EndHandler, HandlerFails, Finish
  <1>5. ASSUME DropFrame \/ EndFinally \/ FinallyFails
        PROVE  \E restore \in BOOLEAN : heap' = Left(heap, restore)
    BY <1>5 DEF DropFrame, EndFinally, FinallyFails
  <1>6. ASSUME NEW catches, OpenTry(catches) PROVE heap' = heap
    BY <1>6 DEF OpenTry
  <1>7. ASSUME NEW checked, Call(checked) PROVE heap' = heap
    BY <1>7 DEF Call
  <1>8. ASSUME NEW exit, Break(exit) PROVE heap' = heap
    BY <1>8 DEF Break
  <1>9. ASSUME OpenLoop \/ LoopEnds \/ Defer \/ Resume \/ Yield \/ Return \/ FallOff \/ EndBody
        PROVE  heap' = heap
    BY <1>9 DEF OpenLoop, LoopEnds, Defer, Resume, Yield, Return, FallOff, EndBody
  <1>10. ASSUME InlineFinally \/ InlineEnds \/ Leaves \/ DeferredEnds \/ NoError \/ LeaveFunction \/ Over
         PROVE  heap' = heap
    BY <1>10 DEF InlineFinally, InlineEnds, Leaves, DeferredEnds, NoError, LeaveFunction, Over, vars
  <1>11. QED
    BY <1>1, <1>2, <1>3, <1>4, <1>5, <1>6, <1>7, <1>8, <1>9, <1>10 DEF Next

\* The mode stays one of the three, the habit is fixed.
LEMMA ModeSteps ==
    ASSUME TypeOK, Next
    PROVE  habit' = habit /\ habit' \in Habits /\ mode' \in {"run", "check", "over"}
  <1> USE DEF TypeOK
  <1>1. FunctionReturns => mode' \in {"run", "check", "over"}
    BY DEF FunctionReturns
  <1>2. ASSUME NEW catches, OpenTry(catches) PROVE habit' = habit /\ mode' = mode
    BY <1>2 DEF OpenTry
  <1>3. ASSUME NEW t, Raise(t) PROVE habit' = habit /\ mode' = "check"
    BY <1>3 DEF Raise
  <1>4. ASSUME NEW checked, Call(checked) PROVE habit' = habit /\ mode' = mode
    BY <1>4 DEF Call
  <1>5. ASSUME NEW exit, Break(exit) PROVE habit' = habit /\ mode' = mode
    BY <1>5 DEF Break
  <1>6. ASSUME OpenLoop \/ LoopEnds \/ Defer \/ Reraise \/ Resume \/ Yield \/ Return \/ FallOff
        PROVE  habit' = habit /\ mode' \in {mode, "check"}
    BY <1>6 DEF OpenLoop, LoopEnds, Defer, Reraise, Resume, Yield, Return, FallOff
  <1>7. ASSUME DropFrame \/ InlineFinally \/ InlineEnds \/ EndBody \/ FinallyFails \/ Over
        PROVE  habit' = habit /\ mode' = mode
    BY <1>7 DEF DropFrame, InlineFinally, InlineEnds, EndBody, FinallyFails, Over, vars
  <1>8. ASSUME EndElse \/ EndHandler \/ EndFinally \/ NoError \/ EnterHandler \/ PassBy \/ HandlerFails
        PROVE  habit' = habit /\ mode' \in {"run", "check"}
    BY <1>8 DEF EndElse, EndHandler, EndFinally, NoError, EnterHandler, PassBy, HandlerFails, Finish
  <1>9. ASSUME DeferredEnds \/ LeaveFunction
        PROVE  habit' = habit /\ mode' \in {"run", "check", "over"}
    BY <1>1, <1>9 DEF DeferredEnds, LeaveFunction
  <1>10. ASSUME Leaves PROVE habit' = habit /\ mode' \in {"run", "check", "over"}
    BY <1>1, <1>10 DEF Leaves
  <1>11. QED
    BY <1>2, <1>3, <1>4, <1>5, <1>6, <1>7, <1>8, <1>9, <1>10 DEF Next

LEMMA IInvNext == IInv /\ [Next]_vars => IInv'
  <1> SUFFICES ASSUME IInv, [Next]_vars PROVE IInv'
    OBVIOUS
  <1>1. Good(heap)
    BY DEF IInv, TypeOK, OwnersCounted, Good
  <1>2. CASE UNCHANGED vars
    BY <1>2 DEF vars, IInv, TypeOK, OwnersCounted
  <1>3. CASE Next
    <2>1. TypeOK
      BY DEF IInv
    <2>2. Good(heap')
      <3>1. \A restore \in BOOLEAN : Good(Left(heap, restore))
        BY <1>1, LeftGood
      <3>2. \A e \in Unused(heap) : Good(Raised(heap, e))
        BY <1>1, RaisedGood
      <3>3. \A e \in Errors : Innermost(heap, e) => Good(Reraised(heap, e))
        BY <1>1, ReraisedGood
      <3>4. Good(Entered(heap)) /\ Good(Entered(Left(heap, FALSE)))
        BY <1>1, <3>1, EnteredGood
      <3>5. QED
        BY <1>1, <1>3, <2>1, <3>1, <3>2, <3>3, <3>4, HeapSteps
    <2>3. habit' \in Habits /\ mode' \in {"run", "check", "over"}
      BY <1>3, <2>1, ModeSteps
    <2>4. QED
      BY <2>2, <2>3 DEF Good, IInv, TypeOK, OwnersCounted
  <1>4. QED
    BY <1>2, <1>3

\* The exception state is well-typed: no count of references falls below zero.
THEOREM TypeCorrect == Spec => []TypeOK
  <1>1. IInv => TypeOK
    BY DEF IInv
  <1>2. QED
    BY <1>1, IInvInit, IInvNext, PTL DEF Spec

\* No error object that can still be reached is freed and none is leaked, in
\* every program and for every number of errors: sere_rt.c:1083-1195 as
\* IRGenerator.cpp:7483-7712 uses it.
THEOREM OwnersAreCounted == Spec => []OwnersCounted
  <1>1. IInv => OwnersCounted
    BY DEF IInv
  <1>2. QED
    BY <1>1, IInvInit, IInvNext, PTL DEF Spec
-------------------------------------------------------------------------------
\* A set of numbers has a least one.
LEMMA LeastNatural ==
    ASSUME NEW B \in SUBSET Nat, B # {}
    PROVE  \E n \in B : \A m \in B : n <= m
  <1>1. PICK n \in B : \A m \in B : <<m, n>> \notin OpToRel(<, Nat)
    BY NatLessThanWellFounded, WFMin
  <1>2. \A m \in B : ~(m < n)
    BY <1>1 DEF OpToRel
  <1> QED
    BY <1>2
-------------------------------------------------------------------------------
(***************************************************************************)
(* The regions of one function, s, in a plain program.  A region's `up`    *)
(* leads from cleanup to cleanup outwards; what it goes past has been left *)
(* by a region between.                                                    *)
(***************************************************************************)
Regions == [at : Places, up : Nat, catches : SUBSET Types, exit : Exits, of : Nat,
            checked : {TRUE}, defers : BOOLEAN, err : Errors \cup {None}, ran : Nat]
IsEntry(r) == r.at \in Tries \cup {"handler"}
PassedTo(s, m, i) == \E j \in i + 1 .. m : GoesPast(s, j, i)

\* Between a loop, l, and the region j, control has gone to a finally body outside the
\* loop or to a deferred block.
Outside(s, l, j) == \E k \in l + 1 .. j : \/ s[k].at = "inline" /\ s[k].of <= l
                                          \/ s[k].at = "deferred"
\* A break stays inside its loop, l, until it ends it.
Ends(s, l, j) == /\ s[l].at = "loop" /\ \A k \in l + 1 .. j : s[k].at # "loop"
                 /\ ~Outside(s, l, j) /\ (s[j].at = "leaving" => s[j].up >= s[l].up)

\* The way out of the region j leads to an entry below it,
Leads(s, j) == /\ s[j].up < j /\ (s[j].up # 0 => IsEntry(s[s[j].up]))
               /\ s[j].at = "handler" => j > 1 /\ s[j].up = j - 1 /\ s[j - 1].at = "except"
\* never to one that a region between has gone past,
Uncrossed(s, j) == \A i \in 1 .. j - 1 : s[j].up >= i \/ s[j].up <= s[i].up
\* and it leaves out none of the others.
Complete(s, j) == \A i \in 1 .. j - 1 : IsEntry(s[i]) => i <= s[j].up \/ PassedTo(s, j, i)
\* It stays inside an enclosing loop or leads where that of the loop does.
Nested(s, j) == \A l \in 1 .. j - 1 :
    s[l].at = "loop" /\ s[j].at # "leaving" => s[j].up >= s[l].up \/ Outside(s, l, j)
Exiting(s, j) == s[j].at \in {"leaving", "inline"} =>
    IF s[j].exit = "return" THEN \A i \in 1 .. j : s[i].at # "deferred"
                            ELSE \E l \in 1 .. j - 1 : Ends(s, l, j)
Placed(s, j) == Leads(s, j) /\ Uncrossed(s, j) /\ Complete(s, j) /\ Nested(s, j) /\ Exiting(s, j)

\* A try statement is in its except clause as long as the handler's region is there;
\* nothing is opened while a region is left.
Ordered(s) == \A j \in 1 .. Len(s) :
    /\ s[j].at = "except" => j < Len(s) /\ s[j + 1].at = "handler"
    /\ s[j].at = "leaving" => j = Len(s)
\* The finally body of a try statement has been started, once, when it is or was left.
RanOnce(s) == \A i \in 1 .. Len(s) :
    /\ s[i].at = "finally" => s[i].ran = 1
    /\ s[i].at \in Tries \ {"finally"} => s[i].ran = IF Passed(s, i) THEN 1 ELSE 0
Well(s) == /\ s \in Seq(Regions) /\ s # <<>> /\ s[1].at \in {"function", "generator"}
           /\ \A j \in 1 .. Len(s) : Placed(s, j)
           /\ Ordered(s) /\ RanOnce(s)
-------------------------------------------------------------------------------
\* The regions up to m are those of s, but the last may be another part of the same try
\* statement.
Alike(s, t, m) == \A i \in 1 .. m :
    /\ t[i].up = s[i].up /\ t[i].of = s[i].of /\ t[i].exit = s[i].exit
    /\ t[i].at = s[i].at \/ (i = m /\ {s[i].at, t[i].at} \subseteq Tries)

\* Where the regions are depends on no others than those below.
LEMMA RegionFields ==
    ASSUME NEW s \in Seq(Regions), NEW i \in 1 .. Len(s)
    PROVE  /\ s[i] \in Regions /\ s[i].up \in Nat /\ s[i].of \in Nat /\ s[i].ran \in Nat
           /\ s[i].at \in Places
  <1>1. s[i] \in Regions
    OBVIOUS
  <1>2. QED
    BY <1>1 DEF Regions

LEMMA AlikeIsPlaced ==
    ASSUME NEW s \in Seq(Regions), NEW t \in Seq(Regions), NEW m \in 0 .. Len(s), m <= Len(t),
           Alike(s, t, m)
    PROVE  /\ \A i \in 1 .. m : IsEntry(t[i]) <=> IsEntry(s[i])
           /\ \A i, j \in 1 .. m : GoesPast(t, j, i) <=> GoesPast(s, j, i)
           /\ \A j \in 1 .. m : Placed(s, j) => Placed(t, j)
  <1>0. m \in Nat /\ \A i \in 1 .. m : s[i].up \in Nat /\ s[i].of \in Nat
    BY RegionFields
  <1>1. \A i \in 1 .. m : /\ IsEntry(t[i]) <=> IsEntry(s[i])
                          /\ t[i].up = s[i].up /\ t[i].of = s[i].of /\ t[i].exit = s[i].exit
                          /\ \A a \in {"loop", "leaving", "inline", "deferred", "handler"} :
                                 t[i].at = a <=> s[i].at = a
    BY DEF Alike, IsEntry, Tries, Places
  <1>2. \A i, j \in 1 .. m : GoesPast(t, j, i) <=> GoesPast(s, j, i)
    BY <1>1 DEF GoesPast
  <1>3. ASSUME NEW j \in 1 .. m, Placed(s, j) PROVE Placed(t, j)
    <2>1. \A i \in 1 .. j - 1 : PassedTo(t, j, i) <=> PassedTo(s, j, i)
      BY <1>0, <1>2 DEF PassedTo
    <2>2. \A l \in 1 .. j - 1 : Outside(t, l, j) <=> Outside(s, l, j)
      BY <1>0, <1>1, SMTT(30) DEF Outside
    <2>3. \A l \in 1 .. j - 1 : Ends(s, l, j) => Ends(t, l, j)
      BY <1>0, <1>1, <2>2, SMTT(30) DEF Ends
    <2>4. Leads(t, j)
      <3>1. Leads(s, j)
        BY <1>3 DEF Placed
      <3>2. s[j].up # 0 => s[j].up \in 1 .. m
        BY <1>0, <3>1 DEF Leads
      <3>3. t[j].at = "handler" => j > 1 /\ t[j].up = j - 1 /\ t[j - 1].at = "except"
        <4>1. t[j].at = "handler" => s[j].at = "handler"
          BY <1>1
        <4>2. s[j].at = "handler" => j > 1 /\ s[j].up = j - 1 /\ s[j - 1].at = "except"
          BY <3>1 DEF Leads
        <4>3. s[j - 1].at = "except" /\ j - 1 \in 1 .. m => t[j - 1].at = "except"
          BY <1>0 DEF Alike
        <4>4. s[j].at = "handler" => j - 1 \in 1 .. m
          BY <1>0, <4>2
        <4>5. QED
          BY <1>1, <4>1, <4>2, <4>3, <4>4
      <3>4. QED
        BY <1>1, <3>1, <3>2, <3>3 DEF Leads
    <2>5. Uncrossed(t, j) /\ Complete(t, j)
      BY <1>0, <1>1, <1>3, <2>1, SMTT(30) DEF Placed, Uncrossed, Complete
    <2>6. Nested(t, j)
      BY <1>0, <1>1, <1>3, <2>2, SMTT(30) DEF Placed, Nested
    <2>7. Exiting(t, j)
      <3>1. Exiting(s, j) /\ t[j].exit = s[j].exit
            /\ (t[j].at \in {"leaving", "inline"} <=> s[j].at \in {"leaving", "inline"})
        BY <1>1, <1>3 DEF Placed
      <3>2. (\A i \in 1 .. j : s[i].at # "deferred") => \A i \in 1 .. j : t[i].at # "deferred"
        BY <1>0, <1>1
      <3>3. (\E l \in 1 .. j - 1 : Ends(s, l, j)) => \E l \in 1 .. j - 1 : Ends(t, l, j)
        BY <2>3
      <3>4. QED
        BY <3>1, <3>2, <3>3 DEF Exiting
    <2>8. QED
      BY <2>4, <2>5, <2>6, <2>7 DEF Placed
  <1>4. QED
    BY <1>1, <1>2, <1>3
-------------------------------------------------------------------------------
\* What lies above the next cleanup has been gone past.
LEMMA PassedAbove ==
    ASSUME NEW s, Well(s), NEW i \in Inner(s) + 1 .. Len(s), IsEntry(s[i])
    PROVE  Passed(s, i)
  <1> DEFINE n == Len(s)
  <1>1. n \in Nat /\ n > 0 /\ Last(s) = s[n] /\ s \in Seq(Regions)
    BY DEF Well, Last
  <1>2. ~IsEntry(s[n]) /\ Inner(s) = s[n].up /\ s[n].up \in Nat
    BY <1>1, RegionFields DEF Inner, IsEntry
  <1>3. i \in 1 .. n - 1
    BY <1>1, <1>2
  <1>4. Complete(s, n)
    BY <1>1 DEF Well, Placed
  <1>5. QED
    BY <1>1, <1>2, <1>3, <1>4 DEF Complete, PassedTo, Passed

\* No region between goes past what is not above the next cleanup, deferred blocks apart.
LEMMA NotPassedBelow ==
    ASSUME NEW s, Well(s), NEW i \in 1 .. Inner(s), NEW j \in Inner(s) + 1 .. Len(s),
           GoesPast(s, j, i)
    PROVE  s[j].at = "deferred"
  <1> DEFINE n == Len(s)  e == Inner(s)
  <1>1. n \in Nat /\ n > 0 /\ Last(s) = s[n] /\ s \in Seq(Regions)
    BY DEF Well, Last
  <1>2. e = s[n].up /\ e \in Nat
    BY <1>1, RegionFields DEF Inner
  <1>3. j \in 1 .. n /\ s[j].up \in Nat /\ (j = n \/ j \in 1 .. n - 1)
    BY <1>1, <1>2, RegionFields
  <1>4. Uncrossed(s, n)
    BY <1>1 DEF Well, Placed
  <1>5. s[j].up >= e
    BY <1>2, <1>3, <1>4 DEF Uncrossed
  <1>6. QED
    BY <1>2, <1>3, <1>5 DEF GoesPast

\* The regions of a function are cut at m, where the last may go on to another part of its
\* try statement, when no region that goes has gone past one that stays.
LEMMA CutIsWell ==
    ASSUME NEW s, Well(s), NEW t \in Seq(Regions), NEW m \in 1 .. Len(s), Len(t) = m,
           Alike(s, t, m), t[m].at # "except",
           \A i \in 1 .. m - 1 : t[i].ran = s[i].ran,
           t[m].at = "finally" => t[m].ran = 1,
           t[m].at \in {"body", "else"} => t[m].ran = 0,
           \A i \in 1 .. m, j \in m + 1 .. Len(s) :
               IsEntry(s[i]) /\ GoesPast(s, j, i) => PassedTo(s, m, i)
    PROVE  /\ Well(t)
           /\ FramedIn(t) = {i \in FramedIn(s) : i < m}
                            \cup {i \in {m} : t[m].at \in {"handler", "finally"}}
  <1> DEFINE n == Len(s)
  <1>1. /\ n \in Nat /\ m \in Nat /\ s \in Seq(Regions) /\ m <= n
        /\ s[1].at \in {"function", "generator"}
        /\ (\A j \in 1 .. n : Placed(s, j)) /\ Ordered(s) /\ RanOnce(s)
    BY DEF Well
  <1>2. /\ \A i \in 1 .. m : IsEntry(t[i]) <=> IsEntry(s[i])
        /\ \A i, j \in 1 .. m : GoesPast(t, j, i) <=> GoesPast(s, j, i)
        /\ \A j \in 1 .. m : Placed(t, j)
    <2>1. m \in 0 .. Len(s) /\ m <= Len(t) /\ Alike(s, t, m)
      BY <1>1
    <2>2. /\ \A i \in 1 .. m : IsEntry(t[i]) <=> IsEntry(s[i])
          /\ \A i, j \in 1 .. m : GoesPast(t, j, i) <=> GoesPast(s, j, i)
          /\ \A j \in 1 .. m : Placed(s, j) => Placed(t, j)
      BY <1>1, <2>1, AlikeIsPlaced
    <2>3. \A j \in 1 .. m : j \in 1 .. n
      BY <1>1
    <2>4. QED
      BY <1>1, <2>2, <2>3
  <1>3. t[1].at \in {"function", "generator"}
    BY <1>1 DEF Alike, Tries
  <1>4. \A i \in 1 .. m : IsEntry(s[i]) => (Passed(t, i) <=> Passed(s, i))
    <2> SUFFICES ASSUME NEW i \in 1 .. m, IsEntry(s[i]) PROVE Passed(t, i) <=> Passed(s, i)
      OBVIOUS
    <2>1. Passed(t, i) => Passed(s, i)
      BY <1>1, <1>2 DEF Passed
    <2>2. PassedTo(s, m, i) => Passed(t, i)
      BY <1>1, <1>2 DEF Passed, PassedTo
    <2>3. ASSUME Passed(s, i) PROVE PassedTo(s, m, i)
      <3>1. PICK j \in i + 1 .. n : GoesPast(s, j, i)
        BY <2>3 DEF Passed
      <3>2. CASE j <= m
        BY <1>1, <3>1, <3>2 DEF PassedTo
      <3>3. CASE j > m
        <4>1. j \in m + 1 .. n
          BY <1>1, <3>3
        <4>2. QED
          BY <4>1, <3>1
      <3>4. QED
        BY <1>1, <3>2, <3>3
    <2>4. QED
      BY <2>1, <2>2, <2>3
  <1>5. ~Passed(t, m)
    BY <1>1 DEF Passed
  <1>6. Ordered(t)
    <2> SUFFICES ASSUME NEW j \in 1 .. m
                 PROVE  /\ t[j].at = "except" => j < m /\ t[j + 1].at = "handler"
                        /\ t[j].at = "leaving" => j = m
      BY DEF Ordered
    <2>1. CASE j = m
      BY <2>1
    <2>2. CASE j < m
      <3>1. t[j].at = s[j].at /\ s[j].at # "leaving"
        BY <1>1, <2>2 DEF Alike, Ordered
      <3>2. s[j].at = "except" => s[j + 1].at = "handler"
        BY <1>1 DEF Ordered
      <3>3. s[j + 1].at = "handler" => t[j + 1].at = "handler"
        BY <1>1, <2>2 DEF Alike, Tries
      <3>4. QED
        BY <2>2, <3>1, <3>2, <3>3
    <2>3. QED
      BY <1>1, <2>1, <2>2
  <1>7. RanOnce(t)
    <2> SUFFICES ASSUME NEW i \in 1 .. m
                 PROVE  /\ t[i].at = "finally" => t[i].ran = 1
                        /\ t[i].at \in Tries \ {"finally"} => t[i].ran = IF Passed(t, i) THEN 1 ELSE 0
      BY DEF RanOnce
    <2>1. CASE i = m
      BY <1>5, <2>1 DEF Tries
    <2>2. CASE i < m
      <3>1. t[i].at = s[i].at /\ t[i].ran = s[i].ran
        BY <1>1, <2>2 DEF Alike
      <3>2. s[i].at \in Tries => (Passed(t, i) <=> Passed(s, i))
        BY <1>4 DEF IsEntry
      <3>3. QED
        BY <1>1, <3>1, <3>2 DEF RanOnce, Tries
    <2>3. QED
      BY <1>1, <2>1, <2>2
  <1>8. Well(t)
    BY <1>2, <1>3, <1>6, <1>7 DEF Well
  <1>9. \A i \in 1 .. m : i \in FramedIn(t) <=>
            IF i = m THEN t[m].at \in {"handler", "finally"} ELSE i \in FramedIn(s)
    <2> SUFFICES ASSUME NEW i \in 1 .. m
                 PROVE  i \in FramedIn(t) <=>
                            IF i = m THEN t[m].at \in {"handler", "finally"} ELSE i \in FramedIn(s)
      OBVIOUS
    <2>1. CASE i = m
      BY <1>5, <2>1 DEF FramedIn
    <2>2. CASE i < m
      <3>1. t[i].at = s[i].at
        BY <1>1, <2>2 DEF Alike
      <3>2. s[i].at \in {"handler", "finally"} => (Passed(t, i) <=> Passed(s, i))
        BY <1>4 DEF IsEntry, Tries
      <3>3. QED
        BY <1>1, <2>2, <3>1, <3>2 DEF FramedIn
    <2>3. QED
      BY <1>1, <2>1, <2>2
  <1>10. QED
    BY <1>1, <1>8, <1>9 DEF FramedIn
\* A new region leads to the innermost cleanup.
LEMMA InnerFacts ==
    ASSUME NEW s, Well(s)
    PROVE  /\ Len(s) \in Nat /\ Len(s) > 0 /\ Inner(s) \in 0 .. Len(s)
           /\ Inner(s) # 0 => IsEntry(s[Inner(s)]) /\ Inner(s) # 1
           /\ \A i \in 1 .. Len(s) : Inner(s) >= i \/ Inner(s) <= s[i].up
           /\ \A l \in 1 .. Len(s) : s[l].at = "loop" /\ s[Len(s)].at # "leaving" =>
                  Inner(s) >= s[l].up \/ Outside(s, l, Len(s))
  <1> DEFINE n == Len(s)
  <1>1. /\ n \in Nat /\ n > 0 /\ s \in Seq(Regions) /\ Last(s) = s[n]
        /\ s[1].at \in {"function", "generator"}
    BY DEF Well, Last
  <1>2. \A i \in 1 .. n : s[i].up \in Nat /\ s[i].up < i
    BY <1>1, RegionFields DEF Well, Placed, Leads
  <1>3. CASE IsEntry(s[n])
    <2>1. Inner(s) = n
      BY <1>1, <1>3 DEF Inner, IsEntry
    <2>2. n # 1
      BY <1>1, <1>3 DEF IsEntry, Tries
    <2>3. QED
      BY <1>1, <1>2, <1>3, <2>1, <2>2
  <1>4. CASE ~IsEntry(s[n])
    <2>1. Inner(s) = s[n].up
      BY <1>1, <1>4 DEF Inner, IsEntry
    <2>2. Leads(s, n) /\ Uncrossed(s, n) /\ Nested(s, n)
      BY <1>1 DEF Well, Placed
    <2>3. Inner(s) # 0 => IsEntry(s[Inner(s)]) /\ Inner(s) # 1
      BY <1>1, <2>1, <2>2 DEF Leads, IsEntry, Tries
    <2>4. \A i \in 1 .. n : Inner(s) >= i \/ Inner(s) <= s[i].up
      BY <1>1, <1>2, <2>1, <2>2 DEF Uncrossed
    <2>5. \A l \in 1 .. n : s[l].at = "loop" /\ s[n].at # "leaving" =>
              Inner(s) >= s[l].up \/ Outside(s, l, n)
      BY <1>1, <1>2, <2>1, <2>2 DEF Nested
    <2>6. QED
      BY <1>1, <1>2, <2>1, <2>3, <2>4, <2>5
  <1>5. QED
    BY <1>3, <1>4

\* A statement that opens a region, or leaves one.
LEMMA PushIsWell ==
    ASSUME NEW s, Well(s), s[Len(s)].at # "leaving",
           NEW r \in Regions, r.up = Inner(s), r.at \in {"body", "loop", "leaving"}, r.ran = 0,
           r.at = "leaving" =>
              IF r.exit = "return" THEN \A i \in 1 .. Len(s) : s[i].at # "deferred"
              ELSE \E l \in 1 .. Len(s) : /\ s[l].at = "loop" /\ ~Outside(s, l, Len(s))
                                          /\ \A k \in l + 1 .. Len(s) : s[k].at # "loop",
           NEW t, t = Append(s, r)
    PROVE  Well(t) /\ FramedIn(t) = FramedIn(s)
  <1> DEFINE n == Len(s)  e == Inner(s)
  <1>1. /\ n \in Nat /\ n > 0 /\ s \in Seq(Regions)
        /\ s[1].at \in {"function", "generator"}
        /\ (\A j \in 1 .. n : Placed(s, j)) /\ Ordered(s) /\ RanOnce(s)
    BY DEF Well
  <1>2. /\ t \in Seq(Regions) /\ Len(t) = n + 1 /\ t[n + 1] = r
        /\ \A i \in 1 .. n : t[i] = s[i]
    BY <1>1
  <1>3. /\ Alike(s, t, n)
        /\ \A i \in 1 .. n : IsEntry(t[i]) <=> IsEntry(s[i])
        /\ \A i, j \in 1 .. n : GoesPast(t, j, i) <=> GoesPast(s, j, i)
        /\ \A j \in 1 .. n : Placed(t, j)
    <2>1. Alike(s, t, n)
      BY <1>2 DEF Alike
    <2>2. n \in 0 .. Len(s) /\ n <= Len(t)
      BY <1>1, <1>2
    <2> HIDE DEF n
    <2>3. QED
      BY <1>1, <1>2, <2>1, <2>2, AlikeIsPlaced
  <1>4. \A i \in 1 .. n : IsEntry(s[i]) => (Passed(t, i) <=> Passed(s, i))
    <2> SUFFICES ASSUME NEW i \in 1 .. n, IsEntry(s[i]) PROVE Passed(t, i) <=> Passed(s, i)
      OBVIOUS
    <2>1. Passed(s, i) => Passed(t, i)
      BY <1>1, <1>2, <1>3 DEF Passed
    <2>2. GoesPast(t, n + 1, i) => e < i
      BY <1>2 DEF GoesPast
    <2>3. e < i => Passed(s, i)
      BY <1>1, PassedAbove, InnerFacts
    <2>4. QED
      BY <1>1, <1>2, <1>3, <2>1, <2>2, <2>3 DEF Passed
  <1>5. ~Passed(t, n + 1)
    BY <1>1, <1>2 DEF Passed
  <1>6. Placed(t, n + 1)
    <2>1. \A l \in 1 .. n : Outside(s, l, n) => Outside(t, l, n + 1)
      BY <1>1, <1>2 DEF Outside
    <2>2. e \in 0 .. n /\ r.up = e
      BY InnerFacts
    <2>3. Leads(t, n + 1)
      BY <1>1, <1>2, <1>3, <2>2, InnerFacts DEF Leads
    <2>4. Uncrossed(t, n + 1)
      BY <1>1, <1>2, <2>2, InnerFacts DEF Uncrossed
    <2>5. Complete(t, n + 1)
      <3> SUFFICES ASSUME NEW i \in 1 .. n, IsEntry(s[i]), i > e PROVE PassedTo(t, n + 1, i)
        BY <1>1, <1>2, <1>3, <2>2 DEF Complete
      <3>1. Passed(s, i)
        BY <1>1, <2>2, PassedAbove
      <3>2. QED
        BY <1>2, <1>4, <3>1 DEF Passed, PassedTo
    <2>6. Nested(t, n + 1)
      BY <1>1, <1>2, <2>1, <2>2, InnerFacts DEF Nested
    <2>7. Exiting(t, n + 1)
      <3>1. CASE r.at # "leaving"
        BY <1>2, <3>1 DEF Exiting
      <3>2. CASE r.at = "leaving" /\ r.exit = "return"
        BY <1>1, <1>2, <3>2 DEF Exiting
      <3>3. CASE r.at = "leaving" /\ r.exit # "return"
        <4>1. PICK l \in 1 .. n : /\ s[l].at = "loop" /\ ~Outside(s, l, n)
                                  /\ \A k \in l + 1 .. n : s[k].at # "loop"
          BY <3>3
        <4>2. ~Outside(t, l, n + 1)
          BY <1>1, <1>2, <3>3, <4>1 DEF Outside
        <4>3. e >= s[l].up
          BY <4>1, InnerFacts
        <4>4. Ends(t, l, n + 1)
          BY <1>1, <1>2, <2>2, <3>3, <4>1, <4>2, <4>3 DEF Ends
        <4>5. QED
          BY <1>1, <1>2, <3>3, <4>4 DEF Exiting
      <3>4. QED
        BY <3>1, <3>2, <3>3
    <2>8. QED
      BY <2>3, <2>4, <2>5, <2>6, <2>7 DEF Placed
  <1>7. Ordered(t)
    BY <1>1, <1>2 DEF Ordered
  <1>8. RanOnce(t)
    BY <1>1, <1>2, <1>4, <1>5 DEF RanOnce, IsEntry, Tries
  <1>9. FramedIn(t) = FramedIn(s)
    BY <1>1, <1>2, <1>4 DEF FramedIn, IsEntry, Tries
  <1>10. QED
    BY <1>1, <1>2, <1>3, <1>6, <1>7, <1>8, <1>9 DEF Well
\* An except clause is entered: its handler's region is opened.
LEMMA CatchIsWell ==
    ASSUME NEW s, Well(s), s[Len(s)].at = "body",
           NEW t \in Seq(Regions), Len(t) = Len(s) + 1, \A i \in 1 .. Len(s) - 1 : t[i] = s[i],
           t[Len(s)].at = "except", t[Len(s)].up = s[Len(s)].up, t[Len(s)].of = s[Len(s)].of,
           t[Len(s)].exit = s[Len(s)].exit, t[Len(s)].ran = s[Len(s)].ran,
           t[Len(t)].at = "handler", t[Len(t)].up = Len(s)
    PROVE  Well(t) /\ FramedIn(t) = FramedIn(s) \cup {Len(t)} /\ Len(t) \notin FramedIn(s)
  <1> DEFINE n == Len(s)
  <1>1. /\ n \in Nat /\ n > 0 /\ s \in Seq(Regions)
        /\ s[1].at \in {"function", "generator"}
        /\ (\A j \in 1 .. n : Placed(s, j)) /\ Ordered(s) /\ RanOnce(s)
    BY DEF Well
  <1>2. n > 1 /\ t[1].at = s[1].at
    BY <1>1
  <1>3. Alike(s, t, n)
    BY <1>1 DEF Alike, Tries
  <1>4. n \in 0 .. Len(s) /\ n <= Len(t) /\ Len(t) = n + 1 /\ n + 1 \in Nat
    BY <1>1
  <1>5. /\ \A i \in 1 .. n : IsEntry(t[i]) <=> IsEntry(s[i])
        /\ \A i, j \in 1 .. n : GoesPast(t, j, i) <=> GoesPast(s, j, i)
        /\ \A j \in 1 .. n : Placed(t, j)
    <2> HIDE DEF n
    <2>1. QED
      BY <1>1, <1>3, <1>4, AlikeIsPlaced
  <1>6. \A i \in 1 .. n : Passed(t, i) <=> Passed(s, i)
    <2>1. \A i \in 1 .. n : ~GoesPast(t, n + 1, i)
      BY <1>1, <1>4 DEF GoesPast
    <2>2. QED
      BY <1>1, <1>4, <1>5, <2>1 DEF Passed
  <1>7. ~Passed(t, n + 1) /\ ~Passed(s, n)
    BY <1>1, <1>4 DEF Passed
  <1>8. Placed(t, n + 1)
    <2>1. \A i \in 1 .. n : s[i].up \in Nat /\ s[i].up < i
      BY <1>1, RegionFields DEF Placed, Leads
    <2>2. \A l \in 1 .. n - 1 : t[l].up = s[l].up
      BY <1>1
    <2>3. Leads(t, n + 1)
      BY <1>1, <1>2, <1>4, <1>5 DEF Leads, IsEntry, Tries
    <2>4. Uncrossed(t, n + 1) /\ Complete(t, n + 1)
      BY <1>1, <1>4 DEF Uncrossed, Complete
    <2>5. Nested(t, n + 1)
      BY <1>1, <1>4, <2>1, <2>2 DEF Nested
    <2>6. Exiting(t, n + 1)
      BY <1>1, <1>4 DEF Exiting
    <2>7. QED
      BY <2>3, <2>4, <2>5, <2>6 DEF Placed
  <1>9. Ordered(t)
    BY <1>1, <1>4 DEF Ordered
  <1>10. RanOnce(t)
    BY <1>1, <1>4, <1>6, <1>7 DEF RanOnce, Tries
  <1>11. FramedIn(t) = FramedIn(s) \cup {n + 1} /\ n + 1 \notin FramedIn(s)
    BY <1>1, <1>4, <1>6, <1>7 DEF FramedIn
  <1>12. QED
    BY <1>1, <1>2, <1>4, <1>5, <1>8, <1>9, <1>10, <1>11 DEF Well

\* The region on top goes on to leave another cleanup, to run its finally body or a
\* deferred block.
LEMMA TurnIsWell ==
    ASSUME NEW s, Well(s), s[Len(s)].at \in {"leaving", "inline"},
           NEW t \in Seq(Regions), Len(t) = Len(s),
           \A i \in 1 .. Len(s) - 1 : /\ t[i].at = s[i].at /\ t[i].up = s[i].up
                                      /\ t[i].of = s[i].of /\ t[i].exit = s[i].exit,
           t[Len(s)].at \in {"leaving", "inline", "deferred"},
           Placed(t, Len(s)), RanOnce(t)
    PROVE  Well(t)
  <1> DEFINE n == Len(s)  m == n - 1
  <1>1. /\ n \in Nat /\ n > 0 /\ s \in Seq(Regions)
        /\ s[1].at \in {"function", "generator"}
        /\ (\A j \in 1 .. n : Placed(s, j)) /\ Ordered(s)
    BY DEF Well
  <1>2. n > 1 /\ t[1].at = s[1].at
    BY <1>1
  <1>3. m \in 0 .. Len(s) /\ m <= Len(t) /\ Alike(s, t, m)
    BY <1>1 DEF Alike
  <1>4. \A j \in 1 .. m : Placed(t, j)
    <2>1. \A j \in 1 .. m : Placed(s, j)
      BY <1>1
    <2> HIDE DEF m, n
    <2>2. QED
      BY <1>1, <1>3, <2>1, AlikeIsPlaced
  <1>5. \A j \in 1 .. n : Placed(t, j)
    BY <1>1, <1>4
  <1>6. Ordered(t)
    <2> SUFFICES ASSUME NEW j \in 1 .. n
                 PROVE  /\ t[j].at = "except" => j < n /\ t[j + 1].at = "handler"
                        /\ t[j].at = "leaving" => j = n
      BY DEF Ordered
    <2>1. CASE j = n
      BY <2>1
    <2>2. CASE j < n
      <3>1. t[j].at = s[j].at /\ s[j].at # "leaving" /\ (s[j].at = "except" => s[j + 1].at = "handler")
        BY <1>1, <2>2 DEF Ordered
      <3>2. s[j + 1].at = "handler" => j + 1 < n
        BY <1>1, <2>2
      <3>3. QED
        BY <1>1, <2>2, <3>1, <3>2
    <2>3. QED
      BY <1>1, <2>1, <2>2
  <1>7. QED
    BY <1>1, <1>2, <1>5, <1>6 DEF Well

\* A region that leaves goes past its next cleanup, e, and no other.
LEMMA PassesOne ==
    ASSUME NEW s, Well(s), s[Len(s)].at = "leaving", NEW e, e = s[Len(s)].up, e # 0,
           \A j \in e + 1 .. Len(s) : s[j].at # "deferred",
           NEW t, Len(t) = Len(s),
           \A i \in 1 .. Len(s) - 1 : t[i].at = s[i].at /\ t[i].up = s[i].up,
           t[Len(s)].at \in {"leaving", "inline"}, t[Len(s)].up = s[e].up
    PROVE  /\ e \in 1 .. Len(s) - 1 /\ IsEntry(s[e]) /\ e # 1 /\ ~Passed(s, e)
           /\ \A i \in 1 .. Len(s) : IsEntry(s[i]) => (Passed(t, i) <=> Passed(s, i) \/ i = e)
  <1> DEFINE n == Len(s)
  <1>1. /\ n \in Nat /\ n > 0 /\ s \in Seq(Regions) /\ Last(s) = s[n] /\ e \in Nat
        /\ Leads(s, n)
    BY RegionFields DEF Well, Placed, Last
  <1>2. e \in 1 .. n - 1 /\ Inner(s) = e /\ IsEntry(s[e]) /\ e # 1
    <2>1. Inner(s) = e
      BY <1>1 DEF Inner, Tries
    <2>2. QED
      BY <1>1, <2>1, InnerFacts DEF Leads
  <1>3. s[e].up \in Nat /\ s[e].up < e /\ Complete(s, e)
    BY <1>1, <1>2, RegionFields DEF Well, Placed, Leads
  <1>4. ~Passed(s, e)
    BY <1>1, <1>2, NotPassedBelow DEF Passed
  <1>5. ASSUME NEW i \in 1 .. n, NEW j \in 1 .. n - 1 PROVE GoesPast(t, j, i) <=> GoesPast(s, j, i)
    BY <1>1 DEF GoesPast
  <1>6. ASSUME NEW i \in 1 .. n, IsEntry(s[i]) PROVE Passed(t, i) <=> Passed(s, i) \/ i = e
    <2>1. Passed(s, i) => Passed(t, i)
      <3> SUFFICES ASSUME NEW j \in i + 1 .. n, GoesPast(s, j, i) PROVE Passed(t, i)
        BY DEF Passed
      <3>1. CASE j < n
        <4>1. j \in 1 .. n - 1
          BY <1>1, <3>1
        <4>2. QED
          BY <1>5, <4>1 DEF Passed
      <3>2. CASE j = n
        BY <1>1, <1>2, <1>3, <3>2 DEF GoesPast, Passed
      <3>3. QED
        BY <1>1, <3>1, <3>2
    <2>2. i = e => Passed(t, i)
      BY <1>1, <1>2, <1>3 DEF Passed, GoesPast
    <2>3. ASSUME Passed(t, i), i # e PROVE Passed(s, i)
      <3>1. PICK j \in i + 1 .. n : GoesPast(t, j, i)
        BY <1>1, <2>3 DEF Passed
      <3>2. CASE j < n
        <4>1. j \in 1 .. n - 1
          BY <1>1, <3>2
        <4>2. QED
          BY <1>5, <3>1, <4>1 DEF Passed
      <3>3. CASE j = n /\ i > e
        BY <1>1, <3>3 DEF Passed, GoesPast
      <3>4. CASE j = n /\ i < e
        <4>1. s[e].up < i
          BY <1>1, <3>1, <3>4 DEF GoesPast
        <4>2. PassedTo(s, e, i)
          BY <1>1, <1>2, <1>3, <2>3, <1>6, <3>4, <4>1 DEF Complete
        <4>3. QED
          BY <1>1, <1>2, <4>2 DEF PassedTo, Passed
      <3>5. QED
        BY <1>1, <1>2, <2>3, <3>2, <3>3, <3>4
    <2>4. QED
      BY <2>1, <2>2, <2>3
  <1>7. QED
    BY <1>2, <1>4, <1>6
-------------------------------------------------------------------------------
\* The regions above m go, which went past nothing that had not been passed before.
LEMMA ShortIsWell ==
    ASSUME NEW s, Well(s), NEW m \in 1 .. Len(s), s[m].at # "except",
           \A i \in 1 .. m, j \in m + 1 .. Len(s) :
               IsEntry(s[i]) /\ GoesPast(s, j, i) => PassedTo(s, m, i)
    PROVE  Well(SubSeq(s, 1, m)) /\ FramedIn(SubSeq(s, 1, m)) = {i \in FramedIn(s) : i <= m}
  <1> DEFINE n == Len(s)  t == SubSeq(s, 1, m)
  <1>1. n \in Nat /\ s \in Seq(Regions) /\ RanOnce(s) /\ m \in Nat /\ m <= n
    BY DEF Well
  <1>2. t \in Seq(Regions) /\ Len(t) = m /\ \A i \in 1 .. m : t[i] = s[i]
    BY <1>1
  <1>3. IsEntry(s[m]) => ~Passed(s, m)
    <2> SUFFICES ASSUME IsEntry(s[m]), NEW j \in m + 1 .. n, GoesPast(s, j, m) PROVE FALSE
      BY <1>1 DEF Passed
    <2>1. PassedTo(s, m, m)
      BY <1>1
    <2>2. QED
      BY <1>1, <2>1 DEF PassedTo
  <1>4. /\ s[m].at = "finally" => s[m].ran = 1
        /\ s[m].at \in {"body", "else"} => s[m].ran = 0
    BY <1>1, <1>3 DEF RanOnce, IsEntry, Tries
  <1>5. Alike(s, t, m)
    BY <1>2 DEF Alike
  <1>6. /\ Well(t)
        /\ FramedIn(t) = {i \in FramedIn(s) : i < m}
                            \cup {i \in {m} : t[m].at \in {"handler", "finally"}}
    <2>1. t[m] = s[m] /\ \A i \in 1 .. m - 1 : t[i].ran = s[i].ran
      BY <1>1, <1>2
    <2> HIDE DEF t
    <2>2. QED
      BY <1>2, <1>4, <1>5, <2>1, CutIsWell
  <1>7. m \in FramedIn(s) <=> t[m].at \in {"handler", "finally"}
    BY <1>1, <1>2, <1>3 DEF FramedIn, IsEntry, Tries
  <1>8. FramedIn(s) \subseteq 1 .. n
    BY <1>1 DEF FramedIn
  <1>9. QED
    BY <1>1, <1>6, <1>7, <1>8

\* Control comes back to the next cleanup, or goes below it: nothing that stays has been
\* gone past, and the try statements that go have been left.
LEMMA BackAtInner ==
    ASSUME NEW s, Well(s), \A j \in Inner(s) + 1 .. Len(s) : s[j].at # "deferred"
    PROVE  /\ \A i \in 1 .. Inner(s), j \in Inner(s) + 1 .. Len(s) : ~GoesPast(s, j, i)
           /\ Inner(s) # 0 => ~Passed(s, Inner(s))
           /\ \A i \in Inner(s) + 1 .. Len(s) :
                i \notin FramedIn(s) /\ (s[i].at \in Tries => s[i].ran = 1)
  <1>1. /\ Len(s) \in Nat /\ Inner(s) \in 0 .. Len(s) /\ RanOnce(s)
    BY InnerFacts DEF Well
  <1>2. ASSUME NEW i \in Inner(s) + 1 .. Len(s), IsEntry(s[i]) PROVE Passed(s, i)
    BY <1>2, PassedAbove
  <1>3. \A i \in Inner(s) + 1 .. Len(s) :
                i \notin FramedIn(s) /\ (s[i].at \in Tries => s[i].ran = 1)
    BY <1>1, <1>2 DEF FramedIn, RanOnce, IsEntry, Tries
  <1>4. \A i \in 1 .. Inner(s), j \in Inner(s) + 1 .. Len(s) : ~GoesPast(s, j, i)
    BY NotPassedBelow
  <1>5. Inner(s) # 0 => ~Passed(s, Inner(s))
    BY <1>1, <1>4 DEF Passed
  <1>6. QED
    BY <1>3, <1>4, <1>5

\* The try statement at k, which control is in or whose handler it is in, goes on to its
\* finally body.
Finished(s, k, x) ==
    [SubSeq(s, 1, k) EXCEPT ![k] = [s[k] EXCEPT !.at = "finally", !.catches = {}, !.err = x, !.ran = @ + 1]]
Ending(s, k) == \/ Inner(s) = k /\ s[k].at \in {"body", "else"}
                \/ Inner(s) = k + 1 /\ s[k + 1].at = "handler"
LEMMA FinishIsWell ==
    ASSUME NEW s, Well(s), NEW k \in 1 .. Len(s), Ending(s, k), NEW x \in Errors \cup {None},
           \A j \in Inner(s) + 1 .. Len(s) : s[j].at # "deferred"
    PROVE  /\ Well(Finished(s, k, x)) /\ Len(Finished(s, k, x)) = k
           /\ Finished(s, k, x)[k].at = "finally" /\ Finished(s, k, x)[k].err = x
           /\ \A i \in 1 .. k - 1 : Finished(s, k, x)[i] = s[i]
           /\ FramedIn(Finished(s, k, x)) = {i \in FramedIn(s) : i < k} \cup {k}
           /\ s[Inner(s)].at # "handler" => \A i \in FramedIn(s) : i < k
           /\ s[Inner(s)].at = "handler" => /\ k + 1 \in FramedIn(s)
                                            /\ \A i \in FramedIn(s) : i < k \/ i = k + 1
           /\ \A i \in k + 1 .. Len(s) : s[i].at \in Tries => s[i].ran = 1
  <1> DEFINE n == Len(s)  t == Finished(s, k, x)
  <1>1. /\ n \in Nat /\ s \in Seq(Regions) /\ RanOnce(s) /\ k \in Nat /\ k <= n /\ k > 0
        /\ Inner(s) \in 0 .. n
    BY InnerFacts DEF Well
  <1>2. s[k].at \in Tries \ {"finally"} /\ k <= Inner(s)
    <2>1. s[k + 1].at = "handler" /\ k + 1 \in 1 .. n => s[k].at = "except"
      BY <1>1 DEF Well, Placed, Leads
    <2>2. QED
      BY <1>1, <2>1 DEF Ending, Tries
  <1>3. /\ \A i \in 1 .. Inner(s), j \in Inner(s) + 1 .. Len(s) : ~GoesPast(s, j, i)
        /\ \A i \in Inner(s) + 1 .. Len(s) :
                i \notin FramedIn(s) /\ (s[i].at \in Tries => s[i].ran = 1)
        /\ ~Passed(s, Inner(s))
    BY <1>1, <1>2, BackAtInner
  <1>4. ASSUME NEW i \in 1 .. k, NEW j \in k + 1 .. n PROVE ~GoesPast(s, j, i)
    <2>1. CASE j > Inner(s)
      BY <1>1, <1>2, <1>3, <2>1
    <2>2. CASE j <= Inner(s)
      BY <1>1, <2>2 DEF Ending, GoesPast
    <2>3. QED
      BY <1>1, <2>1, <2>2
  <1>5. ~Passed(s, k)
    BY <1>1, <1>4 DEF Passed
  <1>6. s[k].ran = 0
    BY <1>1, <1>2, <1>5 DEF RanOnce
  <1>7. s[k] \in Regions
    BY <1>1
  <1>8. [s[k] EXCEPT !.at = "finally", !.catches = {}, !.err = x, !.ran = @ + 1] \in Regions
    <2>1. "finally" \in Places /\ {} \in SUBSET Types /\ s[k].ran + 1 \in Nat
      BY <1>6 DEF Places, Tries
    <2>2. QED
      BY <1>7, <2>1 DEF Regions
  <1>9. /\ t \in Seq(Regions) /\ Len(t) = k
        /\ t[k] = [s[k] EXCEPT !.at = "finally", !.catches = {}, !.err = x, !.ran = @ + 1]
        /\ \A i \in 1 .. k - 1 : t[i] = s[i]
    <2>1. SubSeq(s, 1, k) \in Seq(Regions) /\ Len(SubSeq(s, 1, k)) = k
          /\ \A i \in 1 .. k : SubSeq(s, 1, k)[i] = s[i]
      BY <1>1
    <2>2. t = [SubSeq(s, 1, k) EXCEPT
                  ![k] = [s[k] EXCEPT !.at = "finally", !.catches = {}, !.err = x, !.ran = @ + 1]]
      BY DEF Finished
    <2> DEFINE u == SubSeq(s, 1, k)
               r == [s[k] EXCEPT !.at = "finally", !.catches = {}, !.err = x, !.ran = @ + 1]
    <2>3. u \in Seq(Regions) /\ Len(u) = k /\ r \in Regions /\ t = [u EXCEPT ![k] = r]
          /\ \A i \in 1 .. k : u[i] = s[i]
      BY <1>8, <2>1, <2>2
    <2> HIDE DEF u, r, t
    <2>4. t \in Seq(Regions) /\ Len(t) = k /\ t[k] = r /\ \A i \in 1 .. k - 1 : t[i] = s[i]
      BY <1>1, <2>3
    <2>5. QED
      BY <2>4 DEF r
  <1>10. /\ t[k].at = "finally" /\ t[k].ran = 1 /\ t[k].err = x
         /\ t[k].up = s[k].up /\ t[k].of = s[k].of /\ t[k].exit = s[k].exit
    BY <1>6, <1>7, <1>9 DEF Regions
  <1>11. Alike(s, t, k)
    <2> HIDE DEF t
    <2>1. {s[k].at, t[k].at} \subseteq Tries
      BY <1>2, <1>10 DEF Tries
    <2>2. \A i \in 1 .. k : i = k \/ (i \in 1 .. k - 1 /\ t[i] = s[i])
      BY <1>1, <1>9
    <2>3. QED
      BY <1>10, <2>1, <2>2 DEF Alike
  <1>12. /\ Well(t)
         /\ FramedIn(t) = {i \in FramedIn(s) : i < k}
                             \cup {i \in {k} : t[k].at \in {"handler", "finally"}}
    <2> HIDE DEF t
    <2>1. \A i \in 1 .. k - 1 : t[i].ran = s[i].ran
      BY <1>9
    <2>2. \A i \in 1 .. k, j \in k + 1 .. Len(s) :
              IsEntry(s[i]) /\ GoesPast(s, j, i) => PassedTo(s, k, i)
      BY <1>4
    <2>3. t[k].at # "except" /\ t[k].at \notin {"body", "else"}
      BY <1>10
    <2>4. t \in Seq(Regions) /\ Len(t) = k /\ k \in 1 .. Len(s)
      BY <1>9
    <2>5. t[k].at = "finally" => t[k].ran = 1
      BY <1>10
    <2>6. QED
      BY <1>11, <2>1, <2>2, <2>3, <2>4, <2>5, CutIsWell
  <1>13. FramedIn(s) \subseteq 1 .. n /\ k \notin FramedIn(s)
    BY <1>1, <1>2 DEF FramedIn, Tries
  <1>14. ASSUME s[Inner(s)].at # "handler" PROVE \A i \in FramedIn(s) : i < k
    <2>1. Inner(s) = k
      BY <1>14 DEF Ending
    <2>2. \A i \in k + 1 .. n : i \notin FramedIn(s)
      BY <1>3, <2>1
    <2>3. QED
      BY <1>1, <1>13, <2>2
  <1>15. ASSUME s[Inner(s)].at = "handler"
         PROVE  k + 1 \in FramedIn(s) /\ \A i \in FramedIn(s) : i < k \/ i = k + 1
    <2>1. Inner(s) = k + 1 /\ k + 1 \in 1 .. n
      BY <1>1, <1>15 DEF Ending
    <2>2. k + 1 \in FramedIn(s)
      BY <1>1, <1>3, <1>15, <2>1 DEF FramedIn
    <2>3. \A i \in (k + 1) + 1 .. n : i \notin FramedIn(s)
      BY <1>3, <2>1
    <2>4. QED
      BY <1>1, <1>13, <2>2, <2>3
  <1>16. \A i \in k + 1 .. n : s[i].at \in Tries => s[i].ran = 1
    <2> SUFFICES ASSUME NEW i \in k + 1 .. n, s[i].at \in Tries PROVE s[i].ran = 1
      OBVIOUS
    <2>1. CASE i > Inner(s)
      <3>1. i \in Inner(s) + 1 .. n
        BY <1>1, <2>1
      <3>2. QED
        BY <1>3, <3>1
    <2>2. CASE i <= Inner(s)
      BY <1>1, <2>2 DEF Ending, Tries
    <2>3. QED
      BY <1>1, <2>1, <2>2
  <1>17. QED
    BY <1>9, <1>10, <1>12, <1>14, <1>15, <1>16

\* The next cleanup is a finally body, which ends or fails, and control goes below it.
LEMMA FinallyGoes ==
    ASSUME NEW s, Well(s), NEW e, e = Inner(s), e # 0, s[e].at = "finally",
           \A j \in e + 1 .. Len(s) : s[j].at # "deferred"
    PROVE  /\ e - 1 \in 1 .. Len(s) /\ Well(SubSeq(s, 1, e - 1)) /\ s[e - 1].at # "leaving"
           /\ e \in FramedIn(s) /\ \A i \in FramedIn(s) : i <= e
           /\ FramedIn(SubSeq(s, 1, e - 1)) = FramedIn(s) \ {e}
           /\ \A i \in e .. Len(s) : s[i].at \in Tries => s[i].ran = 1
  <1> DEFINE n == Len(s)  m == e - 1
  <1>1. /\ n \in Nat /\ s \in Seq(Regions) /\ RanOnce(s) /\ Ordered(s)
        /\ e \in 2 .. n
    BY InnerFacts DEF Well
  <1>2. /\ \A i \in 1 .. e, j \in e + 1 .. n : ~GoesPast(s, j, i)
        /\ \A i \in e + 1 .. n : i \notin FramedIn(s) /\ (s[i].at \in Tries => s[i].ran = 1)
        /\ ~Passed(s, e)
    <2>1. \A j \in Inner(s) + 1 .. Len(s) : s[j].at # "deferred"
      OBVIOUS
    <2>2. /\ \A i \in 1 .. Inner(s), j \in Inner(s) + 1 .. Len(s) : ~GoesPast(s, j, i)
          /\ \A i \in Inner(s) + 1 .. Len(s) :
                i \notin FramedIn(s) /\ (s[i].at \in Tries => s[i].ran = 1)
          /\ ~Passed(s, Inner(s))
      BY <2>1, BackAtInner
    <2>3. QED
      BY <2>2
  <1>3. m \in 1 .. n /\ m + 1 = e /\ s[m].at # "except" /\ s[m].at # "leaving"
    BY <1>1 DEF Ordered
  <1>4. ASSUME NEW i \in 1 .. m, NEW j \in e .. n PROVE ~GoesPast(s, j, i)
    BY <1>1, <1>2 DEF GoesPast
  <1>5. Well(SubSeq(s, 1, m)) /\ FramedIn(SubSeq(s, 1, m)) = {i \in FramedIn(s) : i <= m}
    <2> HIDE DEF m
    <2>1. QED
      BY <1>3, <1>4, ShortIsWell
  <1>6. e \in FramedIn(s) /\ FramedIn(s) \subseteq 1 .. n
    BY <1>1, <1>2 DEF FramedIn
  <1>7. QED
    BY <1>1, <1>2, <1>3, <1>5, <1>6 DEF RanOnce

\* The next cleanup is the body of a try statement with a clause for the error, x.
Catching(s, k, x) ==
    Append([SubSeq(s, 1, k) EXCEPT ![k] = [s[k] EXCEPT !.at = "except", !.catches = {}]],
           [Region("handler", k) EXCEPT !.err = x])
LEMMA HandlerIsWell ==
    ASSUME NEW s, Well(s), NEW k, k = Inner(s), k # 0, s[k].at = "body",
           NEW x \in Errors \cup {None},
           \A j \in k + 1 .. Len(s) : s[j].at # "deferred"
    PROVE  /\ Well(Catching(s, k, x)) /\ Len(Catching(s, k, x)) = k + 1
           /\ Catching(s, k, x)[k].at = "except"
           /\ Catching(s, k, x)[k + 1].at = "handler" /\ Catching(s, k, x)[k + 1].err = x
           /\ \A i \in 1 .. k - 1 : Catching(s, k, x)[i] = s[i]
           /\ FramedIn(Catching(s, k, x)) = FramedIn(s) \cup {k + 1}
           /\ \A i \in FramedIn(s) : i < k
           /\ \A i \in k + 1 .. Len(s) : s[i].at \in Tries => s[i].ran = 1
  <1> DEFINE n == Len(s)  t == Catching(s, k, x)  u == SubSeq(s, 1, k)
             r == [s[k] EXCEPT !.at = "except", !.catches = {}]
             h == [Region("handler", k) EXCEPT !.err = x]
             v == [u EXCEPT ![k] = r]
  <1>1. /\ n \in Nat /\ s \in Seq(Regions) /\ RanOnce(s) /\ k \in Nat /\ k <= n /\ k > 1
    BY InnerFacts DEF Well
  <1>2. /\ \A i \in 1 .. k, j \in k + 1 .. n : ~GoesPast(s, j, i)
        /\ \A i \in k + 1 .. n : i \notin FramedIn(s) /\ (s[i].at \in Tries => s[i].ran = 1)
        /\ ~Passed(s, k)
    BY <1>1, BackAtInner
  <1>3. Well(u) /\ FramedIn(u) = {i \in FramedIn(s) : i <= k}
    <2>1. k \in 1 .. Len(s) /\ s[k].at # "except"
      BY <1>1
    <2>2. QED
      BY <1>2, <2>1, ShortIsWell
  <1>4. /\ u \in Seq(Regions) /\ Len(u) = k /\ \A i \in 1 .. k : u[i] = s[i]
    BY <1>1
  <1>5. r \in Regions /\ r.at = "except" /\ r.up = s[k].up /\ r.of = s[k].of
        /\ r.exit = s[k].exit /\ r.ran = s[k].ran
    <2>1. s[k] \in Regions /\ "except" \in Places /\ {} \in SUBSET Types
      BY <1>1 DEF Places, Tries
    <2>2. QED
      BY <2>1 DEF Regions
  <1>6. h \in Regions /\ h.at = "handler" /\ h.up = k /\ h.err = x
    <2>1. "handler" \in Places /\ {} \in SUBSET Types /\ "return" \in Exits
      BY DEF Places, Exits
    <2>2. QED
      BY <1>1, <2>1 DEF Regions, Region
  <1>7. t = Append(v, h)
    BY DEF Catching
  <1> HIDE DEF u, r, h, t
  <1>8. v \in Seq(Regions) /\ Len(v) = k /\ v[k] = r /\ \A i \in 1 .. k - 1 : v[i] = u[i]
    BY <1>1, <1>4, <1>5
  <1> HIDE DEF v
  <1>9. /\ t \in Seq(Regions) /\ Len(t) = k + 1 /\ t[k + 1] = h /\ t[k] = r
        /\ \A i \in 1 .. k - 1 : t[i] = u[i]
    BY <1>1, <1>6, <1>7, <1>8
  <1>10. Well(t) /\ FramedIn(t) = FramedIn(u) \cup {k + 1}
    <2>1. u[k].at = "body" /\ u[k] = s[k]
      BY <1>1, <1>4
    <2>2. /\ u[Len(u)].at = "body" /\ Len(t) = Len(u) + 1
          /\ \A i \in 1 .. Len(u) - 1 : t[i] = u[i]
          /\ t[Len(u)].at = "except" /\ t[Len(u)].up = u[Len(u)].up
          /\ t[Len(u)].of = u[Len(u)].of /\ t[Len(u)].exit = u[Len(u)].exit
          /\ t[Len(u)].ran = u[Len(u)].ran
      BY <1>4, <1>5, <1>9, <2>1
    <2>3. t[Len(t)].at = "handler" /\ t[Len(t)].up = Len(u)
      BY <1>4, <1>6, <1>9
    <2>4. Well(t) /\ FramedIn(t) = FramedIn(u) \cup {Len(t)}
      BY <1>3, <1>9, <2>2, <2>3, CatchIsWell
    <2>5. QED
      BY <1>9, <2>4
  <1>11. FramedIn(s) \subseteq 1 .. n /\ k \notin FramedIn(s)
    BY DEF FramedIn
  <1>12. FramedIn(s) = FramedIn(u) /\ \A i \in FramedIn(s) : i < k
    BY <1>1, <1>2, <1>3, <1>11
  <1>13. QED
    BY <1>1, <1>2, <1>4, <1>5, <1>6, <1>9, <1>10, <1>12 DEF t

\* A loop ends, by itself or by a break; a continue starts it again.
LEMMA LoopGoes ==
    ASSUME NEW s, Well(s), NEW l \in 1 .. Len(s), s[l].at = "loop", ~Outside(s, l, Len(s)),
           s[Len(s)].at = "leaving" => s[Len(s)].up >= s[l].up /\ s[Len(s)].up <= l,
           s[Len(s)].at # "leaving" => l = Len(s),
           NEW m \in {l - 1, l}
    PROVE  /\ m \in 1 .. Len(s) /\ Well(SubSeq(s, 1, m))
           /\ s[m].at # "leaving" \/ l = Len(s)
           /\ FramedIn(SubSeq(s, 1, m)) = FramedIn(s)
           /\ \A i \in m + 1 .. Len(s) : s[i].at \in Tries => s[i].ran = 1
  <1> DEFINE n == Len(s)
  <1>1. /\ n \in Nat /\ s \in Seq(Regions) /\ RanOnce(s) /\ Ordered(s) /\ l \in Nat /\ l <= n
        /\ s[1].at \in {"function", "generator"} /\ \A j \in 1 .. n : Placed(s, j)
    BY DEF Well
  <1>2. l > 1 /\ m \in 1 .. n /\ s[m].at # "except" /\ (l < n => s[m].at # "leaving")
        /\ (s[m].at = "leaving" => l = n)
    BY <1>1 DEF Ordered
  <1>3. \A i \in 1 .. n : s[i].up \in Nat
    BY <1>1, RegionFields
  <1>4. ASSUME NEW i \in 1 .. l, NEW j \in l .. n, IsEntry(s[i]), GoesPast(s, j, i)
        PROVE  PassedTo(s, m, i)
    <2>1. i < l /\ j > l
      BY <1>1, <1>4 DEF IsEntry, Tries, GoesPast
    <2>2. s[j].at # "deferred" /\ s[j].up < i
      BY <1>1, <1>4, <2>1 DEF GoesPast, Outside
    <2>3. s[j].up >= s[l].up
      <3>1. CASE s[j].at = "leaving"
        BY <1>1, <3>1 DEF Ordered
      <3>2. CASE s[j].at # "leaving"
        <4>1. Nested(s, j) /\ j \in 1 .. n /\ l \in 1 .. j - 1
          BY <1>1, <2>1 DEF Placed
        <4>2. ~Outside(s, l, j)
          BY <1>1, <4>1 DEF Outside
        <4>3. QED
          BY <3>2, <4>1, <4>2 DEF Nested
      <3>3. QED
        BY <3>1, <3>2
    <2>4. Complete(s, l)
      BY <1>1 DEF Placed
    <2>5. PassedTo(s, l, i)
      BY <1>1, <1>3, <1>4, <2>1, <2>2, <2>3, <2>4 DEF Complete
    <2>6. ~GoesPast(s, l, i)
      BY DEF GoesPast
    <2>7. QED
      BY <1>1, <2>5, <2>6 DEF PassedTo
  <1>5. Well(SubSeq(s, 1, m)) /\ FramedIn(SubSeq(s, 1, m)) = {i \in FramedIn(s) : i <= m}
    <2>1. \A i \in 1 .. m, j \in m + 1 .. n : IsEntry(s[i]) /\ GoesPast(s, j, i) => PassedTo(s, m, i)
      BY <1>1, <1>4
    <2>2. QED
      BY <1>2, <2>1, ShortIsWell
  <1>6. ASSUME NEW i \in l + 1 .. n, IsEntry(s[i]) PROVE Passed(s, i)
    <2>1. s[n].at = "leaving" /\ s[n].up <= l /\ i \in 1 .. n - 1
      BY <1>1, <1>6 DEF IsEntry, Tries
    <2>2. Complete(s, n)
      BY <1>1 DEF Placed
    <2>3. QED
      BY <1>1, <1>3, <1>6, <2>1, <2>2 DEF Complete, Passed, PassedTo
  <1>7. \A i \in m + 1 .. n : i = l \/ i \in l + 1 .. n
    BY <1>1
  <1>8. \A i \in m + 1 .. n : i \notin FramedIn(s) /\ (s[i].at \in Tries => s[i].ran = 1)
    BY <1>1, <1>6, <1>7 DEF FramedIn, RanOnce, IsEntry, Tries
  <1>9. FramedIn(s) = {i \in FramedIn(s) : i <= m}
    <2>1. FramedIn(s) \subseteq 1 .. n
      BY DEF FramedIn
    <2>2. QED
      BY <1>1, <1>8, <2>1
  <1>10. QED
    BY <1>2, <1>5, <1>8, <1>9

\* Nothing on top has been gone past.
LEMMA TopIsWell ==
    ASSUME NEW s, Well(s), NEW t \in Seq(Regions), Len(t) = Len(s), Alike(s, t, Len(s)),
           t[Len(s)].at # "except",
           \A i \in 1 .. Len(s) - 1 : t[i].ran = s[i].ran,
           t[Len(s)].at = "finally" => t[Len(s)].ran = 1,
           t[Len(s)].at \in {"body", "else"} => t[Len(s)].ran = 0,
           s[Len(s)].at \notin {"handler", "finally"}
    PROVE  /\ Well(t)
           /\ FramedIn(t) = FramedIn(s) \cup {i \in {Len(s)} : t[Len(s)].at = "finally"}
           /\ \A i \in FramedIn(s) : i < Len(s)
  <1> DEFINE n == Len(s)
  <1>1. n \in Nat /\ n > 0 /\ s \in Seq(Regions)
    BY DEF Well
  <1>2. FramedIn(s) \subseteq 1 .. n /\ n \notin FramedIn(s)
    BY <1>1 DEF FramedIn
  <1>3. \A i \in FramedIn(s) : i < n
    BY <1>1, <1>2
  <1>4. t[n].at # "handler"
    BY <1>1 DEF Alike, Tries
  <1>5. n \in 1 .. Len(s) /\ \A i \in 1 .. n, j \in n + 1 .. Len(s) :
               IsEntry(s[i]) /\ GoesPast(s, j, i) => PassedTo(s, n, i)
    BY <1>1
  <1> HIDE DEF n
  <1>6. /\ Well(t)
        /\ FramedIn(t) = {i \in FramedIn(s) : i < n}
                            \cup {i \in {n} : t[n].at \in {"handler", "finally"}}
    BY <1>5, CutIsWell DEF n
  <1>7. QED
    BY <1>3, <1>4, <1>6 DEF n

\* The innermost loop
LEMMA LoopIs ==
    ASSUME NEW s \in Seq(Regions), NEW l \in 1 .. Len(s), s[l].at = "loop",
           \A k \in l + 1 .. Len(s) : s[k].at # "loop"
    PROVE  LoopOf(s) = l
  <1> DEFINE S == Loops(s) \cup {0}
  <1>1. l \in S /\ S \subseteq Nat /\ \A y \in S : l >= y
    BY DEF Loops
  <1>2. Max(S) \in S /\ \A y \in S : Max(S) >= y
    BY <1>1 DEF Max
  <1>3. LoopOf(s) = Max(S)
    BY DEF LoopOf
  <1> HIDE DEF S
  <1>4. Max(S) \in Nat /\ Max(S) >= l /\ l >= Max(S)
    BY <1>1, <1>2
  <1>5. QED
    BY <1>3, <1>4

LEMMA LoopOfIs ==
    ASSUME NEW s \in Seq(Regions), LoopOf(s) # 0
    PROVE  /\ LoopOf(s) \in 1 .. Len(s) /\ s[LoopOf(s)].at = "loop"
           /\ \A k \in LoopOf(s) + 1 .. Len(s) : s[k].at # "loop"
  <1> DEFINE n == Len(s)  B == {n - i : i \in Loops(s)}
  <1>1. n \in Nat /\ Loops(s) \subseteq 1 .. n
    BY DEF Loops
  <1>2. Loops(s) # {}
    <2> SUFFICES ASSUME Loops(s) = {} PROVE FALSE
      OBVIOUS
    <2>1. LoopOf(s) = Max({0})
      BY DEF LoopOf
    <2>2. Max({0}) = 0
      BY DEF Max
    <2>3. QED
      BY <2>1, <2>2
  <1>3. PICK b \in B : \A m \in B : b <= m
    <2>1. B \in SUBSET Nat /\ B # {}
      BY <1>1, <1>2
    <2> HIDE DEF B
    <2>2. QED
      BY <2>1, LeastNatural
  <1>4. PICK l \in Loops(s) : b = n - l
    BY <1>3
  <1>5. \A i \in Loops(s) : l >= i
    <2> SUFFICES ASSUME NEW i \in Loops(s) PROVE l >= i
      OBVIOUS
    <2>1. b <= n - i
      BY <1>3
    <2>2. QED
      BY <1>1, <1>4, <2>1
  <1>6. l \in 1 .. n /\ s[l].at = "loop" /\ \A k \in l + 1 .. n : s[k].at # "loop"
    BY <1>1, <1>5 DEF Loops
  <1>7. LoopOf(s) = l
    BY <1>6, LoopIs
  <1>8. QED
    BY <1>6, <1>7

\* A region that leaves by break or continue stays in its loop as long as a cleanup is due,
\* and nothing between is a deferred block.
LEMMA DueFacts ==
    ASSUME NEW s, Well(s), s[Len(s)].at = "leaving", NEW e, e = s[Len(s)].up, e # 0,
           s[Len(s)].exit # "return" => LoopOf(s) < e
    PROVE  /\ e \in 2 .. Len(s) - 1 /\ IsEntry(s[e]) /\ s[e].up \in Nat /\ s[e].up < e
           /\ s[e].up # 0 => IsEntry(s[s[e].up])
           /\ \A j \in e + 1 .. Len(s) : s[j].at # "deferred"
           /\ s[Len(s)].exit = "return" => \A j \in 1 .. Len(s) : s[j].at # "deferred"
           /\ s[Len(s)].exit # "return" =>
                  \E l \in 1 .. e - 1 : Ends(s, l, Len(s)) /\ s[e].up >= s[l].up
           /\ \A i \in 1 .. Len(s) - 1 : s[e].up >= i \/ s[e].up <= s[i].up
  <1> DEFINE n == Len(s)
  <1>1. /\ n \in Nat /\ n > 0 /\ s \in Seq(Regions) /\ Last(s) = s[n] /\ Ordered(s)
        /\ \A j \in 1 .. n : Placed(s, j)
    BY DEF Well, Last
  <1>2. e = Inner(s)
    BY <1>1 DEF Inner, Tries
  <1>3. Leads(s, n) /\ Exiting(s, n) /\ Uncrossed(s, n)
    BY <1>1 DEF Placed
  <1>4. e \in 2 .. n - 1 /\ IsEntry(s[e])
    BY <1>1, <1>2, <1>3, InnerFacts DEF Leads
  <1>5. Leads(s, e) /\ Uncrossed(s, e) /\ Nested(s, e) /\ s[e].at # "leaving"
    BY <1>1, <1>4 DEF Placed, Ordered
  <1>6. \A i \in 1 .. n : s[i].up \in Nat
    BY <1>1, RegionFields
  <1>7. s[e].up \in Nat /\ s[e].up < e /\ (s[e].up # 0 => IsEntry(s[s[e].up]))
    BY <1>4, <1>5, <1>6 DEF Leads
  <1>8. \A i \in 1 .. n - 1 : s[e].up >= i \/ s[e].up <= s[i].up
    BY <1>1, <1>3, <1>4, <1>5, <1>6, <1>7, SMTT(30) DEF Uncrossed
  <1>9. CASE s[n].exit = "return"
    BY <1>1, <1>3, <1>4, <1>7, <1>8, <1>9 DEF Exiting
  <1>10. CASE s[n].exit # "return"
    <2>1. PICK l \in 1 .. n - 1 : Ends(s, l, n)
      BY <1>3, <1>10 DEF Exiting
    <2>2. LoopOf(s) = l
      BY <1>1, <2>1, LoopIs DEF Ends
    <2>3. l \in 1 .. e - 1
      BY <1>4, <1>10, <2>1, <2>2
    <2>4. (\A j \in e + 1 .. n : s[j].at # "deferred") /\ ~Outside(s, l, e)
      BY <1>1, <1>4, <2>1, <2>3 DEF Ends, Outside
    <2>5. s[e].up >= s[l].up
      BY <1>5, <2>1, <2>3, <2>4 DEF Nested, Ends
    <2>6. QED
      BY <1>4, <1>7, <1>8, <1>10, <2>1, <2>3, <2>4, <2>5
  <1>11. QED
    BY <1>9, <1>10

\* A region that leaves s drops in t the frame of its next cleanup, e, or runs its
\* finally body.
LeavesPast(s, t, e) ==
    /\ s[Len(s)].at = "leaving" /\ e = s[Len(s)].up /\ e # 0
    /\ s[Len(s)].exit # "return" => LoopOf(s) < e
    /\ Len(t) = Len(s)
    /\ \A i \in 1 .. Len(s) - 1 :
           /\ t[i].at = s[i].at /\ t[i].up = s[i].up /\ t[i].of = s[i].of /\ t[i].exit = s[i].exit
           /\ t[i].ran = IF i = e /\ s[e].at \in Tries \ {"finally"} THEN s[i].ran + 1 ELSE s[i].ran
    /\ t[Len(s)].at = IF s[e].at \in Tries \ {"finally"} THEN "inline" ELSE "leaving"
    /\ t[Len(s)].at = "inline" => t[Len(s)].of = e
    /\ t[Len(s)].up = s[e].up /\ t[Len(s)].exit = s[Len(s)].exit

LEMMA LeavesOne ==
    ASSUME NEW s, Well(s), NEW e, NEW t \in Seq(Regions), LeavesPast(s, t, e)
    PROVE  /\ Well(t) /\ FramedIn(t) = FramedIn(s) \ {e}
           /\ s[e].at \in {"handler", "finally"} => e \in FramedIn(s)
           /\ \A i \in FramedIn(s) : i <= e
  <1> DEFINE n == Len(s)
  <1>1. n \in Nat /\ n > 0 /\ s \in Seq(Regions) /\ RanOnce(s) /\ Last(s) = s[n]
    BY DEF Well, Last
  <1>2. \A j \in 1 .. n : Placed(s, j)
    BY DEF Well
  <1>3. /\ s[n].at = "leaving" /\ e = s[n].up /\ e # 0 /\ Len(t) = n
        /\ t[n].at \in {"leaving", "inline"} /\ t[n].up = s[e].up /\ t[n].exit = s[n].exit
        /\ t[n].at = "inline" => t[n].of = e
        /\ s[n].exit # "return" => LoopOf(s) < e
    BY DEF LeavesPast
  <1>4. \A i \in 1 .. n - 1 : /\ t[i].at = s[i].at /\ t[i].up = s[i].up
                              /\ t[i].of = s[i].of /\ t[i].exit = s[i].exit
    BY DEF LeavesPast
  <1>5. /\ e \in 2 .. n - 1 /\ IsEntry(s[e]) /\ s[e].up \in Nat /\ s[e].up < e
        /\ s[e].up # 0 => IsEntry(s[s[e].up])
        /\ \A j \in e + 1 .. n : s[j].at # "deferred"
        /\ s[n].exit = "return" => \A j \in 1 .. n : s[j].at # "deferred"
        /\ s[n].exit # "return" => \E l \in 1 .. e - 1 : Ends(s, l, n) /\ s[e].up >= s[l].up
        /\ \A i \in 1 .. n - 1 : s[e].up >= i \/ s[e].up <= s[i].up
    BY <1>3, DueFacts
  <1>6. e \in 2 .. n - 1 /\ IsEntry(s[e]) /\ s[e].up \in Nat /\ s[e].up < e
    BY <1>5
  <1>7. \A j \in e + 1 .. n : s[j].at # "deferred"
    BY <1>5
  <1>8. /\ ~Passed(s, e)
        /\ \A i \in 1 .. n : IsEntry(s[i]) => (Passed(t, i) <=> Passed(s, i) \/ i = e)
    <2>1. /\ s[Len(s)].at = "leaving" /\ e = s[Len(s)].up /\ e # 0 /\ Len(t) = Len(s)
          /\ \A j \in e + 1 .. Len(s) : s[j].at # "deferred"
          /\ \A i \in 1 .. Len(s) - 1 : t[i].at = s[i].at /\ t[i].up = s[i].up
          /\ t[Len(s)].at \in {"leaving", "inline"} /\ t[Len(s)].up = s[e].up
      BY <1>3, <1>4, <1>7
    <2> HIDE DEF n
    <2>2. /\ e \in 1 .. Len(s) - 1 /\ IsEntry(s[e]) /\ e # 1 /\ ~Passed(s, e)
          /\ \A i \in 1 .. Len(s) : IsEntry(s[i]) => (Passed(t, i) <=> Passed(s, i) \/ i = e)
      BY <2>1, PassesOne
    <2>3. QED
      BY <2>2 DEF n
  <1> HIDE DEF n
  <1>9. \A l \in 1 .. n - 1, k \in 1 .. n - 1 : Outside(s, l, k) => Outside(t, l, n)
    <2> SUFFICES ASSUME NEW l \in 1 .. n - 1, NEW k \in 1 .. n - 1, Outside(s, l, k)
                 PROVE  Outside(t, l, n)
      OBVIOUS
    <2>1. PICK x \in l + 1 .. k : (s[x].at = "inline" /\ s[x].of <= l) \/ s[x].at = "deferred"
      BY DEF Outside
    <2>2. x \in 1 .. n - 1 /\ x \in l + 1 .. n
      BY <1>1
    <2>3. QED
      BY <1>4, <2>1, <2>2 DEF Outside
  <1>10. Leads(t, n)
    <2>1. s[e].up # 0 => s[e].up \in 1 .. n - 1 /\ IsEntry(s[s[e].up])
      BY <1>1, <1>5
    <2>2. s[e].up # 0 => IsEntry(t[s[e].up])
      BY <1>4, <2>1 DEF IsEntry
    <2>3. s[e].up < n
      BY <1>1, <1>6
    <2>4. QED
      BY <1>3, <2>2, <2>3 DEF Leads
  <1>11. Uncrossed(t, n)
    <2>1. \A i \in 1 .. n - 1 : s[e].up >= i \/ s[e].up <= s[i].up
      BY <1>5
    <2>2. QED
      BY <1>3, <1>4, <2>1 DEF Uncrossed
  <1>12. Complete(t, n)
    <2> SUFFICES ASSUME NEW i \in 1 .. n - 1, ~(i <= s[e].up)
                 PROVE  PassedTo(t, n, i)
      BY <1>3 DEF Complete
    <2>1. GoesPast(t, n, i) /\ n \in i + 1 .. n
      BY <1>1, <1>3, <1>6 DEF GoesPast
    <2>2. QED
      BY <2>1 DEF PassedTo
  <1>13. Nested(t, n)
    <2> SUFFICES ASSUME NEW l \in 1 .. n - 1, s[l].at = "loop", t[n].at = "inline"
                 PROVE  t[n].up >= s[l].up \/ Outside(t, l, n)
      BY <1>3, <1>4 DEF Nested
    <2>1. CASE l >= e
      <3>1. n \in l + 1 .. n /\ t[n].of <= l
        BY <1>1, <1>3, <1>6, <2>1
      <3>2. QED
        BY <3>1 DEF Outside
    <2>2. CASE l < e
      <3>1. Nested(s, e)
        BY <1>2, <1>6, <1>1 DEF Placed
      <3>2. l \in 1 .. e - 1 /\ s[e].at # "leaving"
        BY <1>1, <1>6, <2>2 DEF IsEntry, Tries
      <3>3. s[e].up >= s[l].up \/ Outside(s, l, e)
        BY <3>1, <3>2 DEF Nested
      <3>4. e \in 1 .. n - 1
        BY <1>1, <1>6
      <3>5. QED
        BY <1>3, <1>9, <3>3, <3>4
    <2>3. QED
      BY <1>1, <1>6, <2>1, <2>2
  <1>14. Exiting(t, n)
    <2>1. CASE s[n].exit = "return"
      <3>1. \A j \in 1 .. n : s[j].at # "deferred"
        BY <1>5, <2>1
      <3>2. \A j \in 1 .. n : j = n \/ j \in 1 .. n - 1
        BY <1>1
      <3>3. \A j \in 1 .. n : t[j].at # "deferred"
        BY <1>3, <1>4, <3>1, <3>2
      <3>4. QED
        BY <1>3, <2>1, <3>3 DEF Exiting
    <2>2. CASE s[n].exit # "return"
      <3>1. PICK l \in 1 .. e - 1 : Ends(s, l, n) /\ s[e].up >= s[l].up
        BY <1>5, <2>2
      <3>2. l \in 1 .. n - 1 /\ \A k \in l + 1 .. n : k = n \/ k \in 1 .. n - 1
        BY <1>1, <1>6
      <3>3. t[l].at = "loop" /\ t[l].up = s[l].up /\ \A k \in l + 1 .. n : t[k].at # "loop"
        <4>1. s[l].at = "loop" /\ \A k \in l + 1 .. n : s[k].at # "loop"
          BY <3>1 DEF Ends
        <4>2. QED
          BY <1>3, <1>4, <3>2, <4>1
      <3>4. ~Outside(t, l, n)
        <4>1. \A k \in l + 1 .. n : ~(s[k].at = "inline" /\ s[k].of <= l) /\ s[k].at # "deferred"
          BY <3>1 DEF Ends, Outside
        <4>2. t[n].at # "deferred" /\ ~(t[n].at = "inline" /\ t[n].of <= l)
          BY <1>3, <1>6
        <4>3. QED
          BY <1>4, <3>2, <4>1, <4>2 DEF Outside
      <3>5. Ends(t, l, n)
        BY <1>3, <3>1, <3>3, <3>4 DEF Ends
      <3>6. QED
        BY <1>3, <2>2, <3>2, <3>5 DEF Exiting
    <2>3. QED
      BY <2>1, <2>2
  <1>15. RanOnce(t)
    <2> SUFFICES ASSUME NEW i \in 1 .. n
                 PROVE  /\ t[i].at = "finally" => t[i].ran = 1
                        /\ t[i].at \in Tries \ {"finally"} => t[i].ran = IF Passed(t, i) THEN 1 ELSE 0
      BY <1>3 DEF RanOnce
    <2>1. CASE i = n
      BY <1>3, <2>1 DEF Tries
    <2>2. /\ s[i].at = "finally" => s[i].ran = 1
          /\ s[i].at \in Tries \ {"finally"} => s[i].ran = IF Passed(s, i) THEN 1 ELSE 0
      BY <1>1 DEF RanOnce, n
    <2>3. CASE i = e
      <3>1. Passed(t, e) /\ ~Passed(s, e) /\ e \in 1 .. n - 1
        BY <1>1, <1>6, <1>8
      <3>2. t[e].ran = IF s[e].at \in Tries \ {"finally"} THEN s[e].ran + 1 ELSE s[e].ran
        BY <3>1 DEF LeavesPast, n
      <3>3. QED
        BY <1>4, <2>2, <2>3, <3>1, <3>2
    <2>4. CASE i # n /\ i # e
      <3>1. i \in 1 .. n - 1
        BY <1>1, <2>4
      <3>2. t[i].ran = s[i].ran
        BY <2>4, <3>1 DEF LeavesPast, n
      <3>3. s[i].at \in Tries => IsEntry(s[i])
        BY DEF IsEntry
      <3>4. QED
        BY <1>4, <1>8, <2>2, <2>4, <3>1, <3>2, <3>3
    <2>5. QED
      BY <2>1, <2>3, <2>4
  <1>16. Well(t)
    <2>1. Placed(t, n)
      BY <1>10, <1>11, <1>12, <1>13, <1>14 DEF Placed
    <2>2. QED
      BY <1>3, <1>4, <1>15, <2>1, TurnIsWell DEF n
  <1>17. FramedIn(t) = FramedIn(s) \ {e}
    <2>1. DOMAIN s = 1 .. n /\ DOMAIN t = 1 .. n /\ \A i \in 1 .. n : i = n \/ i \in 1 .. n - 1
      BY <1>1, <1>3 DEF n
    <2>2. \A i \in 1 .. n : s[i].at \in {"handler", "finally"} <=> t[i].at \in {"handler", "finally"}
      BY <1>3, <1>4, <2>1
    <2>3. \A i \in 1 .. n : s[i].at \in {"handler", "finally"} => IsEntry(s[i])
      BY DEF IsEntry, Tries
    <2>4. QED
      BY <1>8, <2>1, <2>2, <2>3 DEF FramedIn
  <1>18. s[e].at \in {"handler", "finally"} => e \in FramedIn(s)
    <2>1. e \in DOMAIN s
      BY <1>1, <1>6 DEF n
    <2>2. QED
      BY <1>8, <2>1 DEF FramedIn
  <1>19. \A i \in FramedIn(s) : i <= e
    <2> SUFFICES ASSUME NEW i \in FramedIn(s), i > e PROVE FALSE
      BY <1>1, <1>6 DEF FramedIn, n
    <2>1. Inner(s) = e
      BY <1>1, <1>3 DEF Inner, Tries
    <2>2. i \in 1 .. n /\ ~Passed(s, i) /\ s[i].at \in {"handler", "finally"}
      BY <1>1 DEF FramedIn, n
    <2>3. i \in Inner(s) + 1 .. Len(s) /\ IsEntry(s[i])
      BY <1>1, <1>6, <2>1, <2>2 DEF IsEntry, Tries, n
    <2>4. QED
      BY <2>2, <2>3, PassedAbove
  <1>20. QED
    BY <1>16, <1>17, <1>18, <1>19

\* The finally body that was inlined ends.
LEMMA InlineEndsWell ==
    ASSUME NEW s, Well(s), s[Len(s)].at = "inline",
           NEW t \in Seq(Regions), Len(t) = Len(s), \A i \in 1 .. Len(s) - 1 : t[i] = s[i],
           t[Len(s)].at = "leaving", t[Len(s)].up = s[Len(s)].up, t[Len(s)].exit = s[Len(s)].exit
    PROVE  Well(t) /\ FramedIn(t) = FramedIn(s)
  <1> DEFINE n == Len(s)
  <1>1. /\ n \in Nat /\ n > 0 /\ s \in Seq(Regions) /\ RanOnce(s)
        /\ Placed(s, n)
    BY DEF Well
  <1>2. \A i \in 1 .. n : Passed(t, i) <=> Passed(s, i)
    BY <1>1 DEF Passed, GoesPast
  <1>3. \A i \in 1 .. n - 1 : PassedTo(t, n, i) <=> PassedTo(s, n, i)
    BY <1>2 DEF Passed, PassedTo
  <1>4. s[n].up \in Nat /\ s[n].up < n
    BY <1>1, RegionFields DEF Placed, Leads
  <1>5. Leads(t, n) /\ Uncrossed(t, n) /\ Complete(t, n) /\ Nested(t, n)
    BY <1>1, <1>3, <1>4 DEF Placed, Leads, Uncrossed, Complete, Nested
  <1>6. Exiting(t, n)
    <2>1. CASE s[n].exit = "return"
      <3>1. \A j \in 1 .. n : t[j].at # "deferred"
        BY <1>1, <2>1 DEF Placed, Exiting
      <3>2. QED
        BY <2>1, <3>1 DEF Exiting
    <2>2. CASE s[n].exit # "return"
      <3>1. PICK l \in 1 .. n - 1 : Ends(s, l, n)
        BY <1>1, <2>2 DEF Placed, Exiting
      <3>2. s[n].up >= s[l].up
        BY <1>1, <3>1 DEF Placed, Nested, Ends
      <3>3. ~Outside(t, l, n)
        BY <1>1, <3>1 DEF Ends, Outside
      <3>4. Ends(t, l, n)
        BY <1>1, <3>1, <3>2, <3>3 DEF Ends
      <3>5. QED
        BY <2>2, <3>4 DEF Exiting
    <2>3. QED
      BY <2>1, <2>2
  <1>7. RanOnce(t)
    BY <1>1, <1>2 DEF RanOnce, Tries
  <1>8. Well(t)
    <2>1. Placed(t, n)
      BY <1>5, <1>6 DEF Placed
    <2>2. QED
      BY <1>7, <2>1, TurnIsWell
  <1>9. FramedIn(t) = FramedIn(s)
    BY <1>1, <1>2 DEF FramedIn
  <1>10. QED
    BY <1>8, <1>9

\* All cleanups have been left, and the deferred block starts.
LEMMA DeferredIsWell ==
    ASSUME NEW s, Well(s), s[Len(s)].at = "leaving", s[Len(s)].up = 0, s[Len(s)].exit = "return",
           NEW t \in Seq(Regions), Len(t) = Len(s), \A i \in 1 .. Len(s) - 1 : t[i] = s[i],
           t[Len(s)].at = "deferred", t[Len(s)].up = Inner(Front(s))
    PROVE  Well(t) /\ FramedIn(t) = FramedIn(s) /\ \A i \in 1 .. Len(s) : s[i].at # "deferred"
  <1> DEFINE n == Len(s)
  <1>1. /\ n \in Nat /\ n > 1 /\ s \in Seq(Regions) /\ RanOnce(s) /\ Ordered(s)
        /\ \A j \in 1 .. n : Placed(s, j)
    BY DEF Well
  <1>2. \A i \in 1 .. n : s[i].at # "deferred"
    <2>1. Exiting(s, n)
      BY <1>1 DEF Placed
    <2>2. QED
      BY <2>1 DEF Exiting
  <1>3. \A i \in 1 .. n : IsEntry(s[i]) => Passed(s, i) /\ Passed(t, i)
    BY <1>1 DEF Passed, GoesPast, IsEntry, Tries
  <1>4. Front(s) \in Seq(Regions) /\ Len(Front(s)) = n - 1 /\ Last(Front(s)) = s[n - 1]
    BY <1>1 DEF Front, Last
  <1>5. t[n].up = IF IsEntry(s[n - 1]) THEN n - 1 ELSE s[n - 1].up
    BY <1>1, <1>4 DEF Inner, IsEntry
  <1>6. \A i \in 1 .. n : s[i].up \in Nat /\ s[i].up < i
    BY <1>1, RegionFields DEF Placed, Leads
  <1>7. Leads(s, n - 1) /\ Uncrossed(s, n - 1)
    BY <1>1 DEF Placed
  <1>8. Leads(t, n)
    BY <1>1, <1>5, <1>6, <1>7, SMTT(30) DEF Leads
  <1>9. Uncrossed(t, n)
    <2> SUFFICES ASSUME NEW i \in 1 .. n - 1 PROVE t[n].up >= i \/ t[n].up <= s[i].up
      BY DEF Uncrossed
    <2>1. CASE IsEntry(s[n - 1])
      BY <1>1, <1>5, <2>1
    <2>2. CASE ~IsEntry(s[n - 1]) /\ i < n - 1
      BY <1>1, <1>5, <1>6, <1>7, <2>2 DEF Uncrossed
    <2>3. CASE ~IsEntry(s[n - 1]) /\ i = n - 1
      BY <1>1, <1>5, <1>6, <2>3
    <2>4. QED
      BY <1>1, <2>1, <2>2, <2>3
  <1>10. Complete(t, n) /\ Nested(t, n) /\ Exiting(t, n)
    BY <1>1 DEF Complete, PassedTo, GoesPast, Nested, Outside, Exiting
  <1>11. RanOnce(t)
    BY <1>1, <1>3 DEF RanOnce, IsEntry, Tries
  <1>12. Well(t)
    <2>1. Placed(t, n)
      BY <1>8, <1>9, <1>10 DEF Placed
    <2>2. QED
      BY <1>11, <2>1, TurnIsWell
  <1>13. FramedIn(t) = FramedIn(s)
    BY <1>1, <1>3 DEF FramedIn, IsEntry, Tries
  <1>14. QED
    BY <1>2, <1>12, <1>13
-------------------------------------------------------------------------------
(***************************************************************************)
(* The frames of the runtime and the regions they belong to                *)
(***************************************************************************)
Below(q, p) == q[1] < p[1] \/ (q[1] = p[1] /\ q[2] < p[2])
ErrOf(cs, p) == cs[p[1]][p[2]].err

\* A region's place among the frames
LEMMA Positions ==
    ASSUME NEW F \in SUBSET (Nat \X Nat), IsFiniteSet(F), NEW p \in F
    PROVE  Cardinality(F) \in Nat /\ Cardinality(Upto(F, p)) \in 1 .. Cardinality(F)
  <1>1. p \in Upto(F, p) /\ Upto(F, p) \subseteq F
    BY DEF Upto
  <1>2. IsFiniteSet(Upto(F, p)) /\ Cardinality(Upto(F, p)) <= Cardinality(F)
    BY <1>1, FS_Subset
  <1>3. Cardinality(Upto(F, p)) \in Nat /\ Cardinality(F) \in Nat /\ Cardinality(Upto(F, p)) # 0
    BY <1>1, <1>2, FS_CardinalityType, FS_EmptySet
  <1>4. QED
    BY <1>2, <1>3

LEMMA MatchPush ==
    ASSUME NEW frames \in Seq(Errors \cup {None}), NEW F \in SUBSET (Nat \X Nat), IsFiniteSet(F),
           NEW cs, Matches(frames, F, cs),
           NEW p \in Nat \X Nat, \A q \in F : Below(q, p),
           NEW ds, \A q \in F : ErrOf(ds, q) = ErrOf(cs, q),
           NEW x \in Errors \cup {None}, x = ErrOf(ds, p)
    PROVE  IsFiniteSet(F \cup {p}) /\ Matches(Append(frames, x), F \cup {p}, ds)
  <1> DEFINE n == Len(frames)  G == F \cup {p}  after == Append(frames, x)
  <1>1. n \in Nat /\ n = Cardinality(F)
    BY DEF Matches
  <1>2. p \notin F
    BY DEF Below
  <1>3. IsFiniteSet(G) /\ Cardinality(G) = n + 1
    BY <1>1, <1>2, FS_AddElement
  <1>4. Len(after) = n + 1 /\ after[n + 1] = x /\ \A i \in 1 .. n : after[i] = frames[i]
    BY <1>1
  <1> HIDE DEF after, n
  <1>5. Upto(G, p) = G
    BY DEF Upto, Below
  <1>6. ASSUME NEW q \in F PROVE after[Cardinality(Upto(G, q))] = ErrOf(ds, q)
    <2>1. Upto(G, q) = Upto(F, q)
      BY DEF Upto, Below
    <2>2. Cardinality(Upto(F, q)) \in 1 .. n
      BY <1>1, Positions
    <2>3. frames[Cardinality(Upto(F, q))] = ErrOf(cs, q)
      BY DEF Matches, ErrOf
    <2>4. QED
      BY <1>4, <2>1, <2>2, <2>3
  <1>7. \A q \in G : after[Cardinality(Upto(G, q))] = ErrOf(ds, q)
    BY <1>3, <1>4, <1>5, <1>6
  <1>8. Len(after) = Cardinality(G)
    BY <1>3, <1>4
  <1>9. Matches(after, G, ds)
    BY <1>7, <1>8 DEF Matches, ErrOf
  <1>10. QED
    BY <1>3, <1>9 DEF after

LEMMA MatchPop ==
    ASSUME NEW frames \in Seq(Errors \cup {None}), NEW F \in SUBSET (Nat \X Nat), IsFiniteSet(F),
           NEW cs, Matches(frames, F, cs),
           NEW p \in F, \A q \in F : q = p \/ Below(q, p),
           NEW ds, \A q \in F \ {p} : ErrOf(ds, q) = ErrOf(cs, q)
    PROVE  /\ frames # << >> /\ frames[Len(frames)] = ErrOf(cs, p)
           /\ IsFiniteSet(F \ {p}) /\ Matches(SubSeq(frames, 1, Len(frames) - 1), F \ {p}, ds)
  <1> DEFINE n == Len(frames)  G == F \ {p}  after == SubSeq(frames, 1, n - 1)
  <1>1. n \in Nat /\ n = Cardinality(F)
    BY DEF Matches
  <1>2. IsFiniteSet(G) /\ Cardinality(G) = n - 1
    BY <1>1, FS_RemoveElement
  <1>3. n >= 1
    BY <1>1, Positions
  <1>4. Upto(F, p) = F
    BY DEF Upto, Below
  <1>5. frames[n] = ErrOf(cs, p)
    BY <1>1, <1>4 DEF Matches, ErrOf
  <1>6. Len(after) = n - 1 /\ \A i \in 1 .. n - 1 : after[i] = frames[i]
    BY <1>1, <1>3
  <1> HIDE DEF after, n
  <1>7. ASSUME NEW q \in G PROVE after[Cardinality(Upto(G, q))] = ErrOf(ds, q)
    <2>1. Upto(G, q) = Upto(F, q)
      BY DEF Upto, Below
    <2>2. Cardinality(Upto(G, q)) \in 1 .. Cardinality(G)
      BY <1>2, Positions
    <2>3. frames[Cardinality(Upto(F, q))] = ErrOf(cs, q)
      BY DEF Matches, ErrOf
    <2>4. QED
      BY <1>2, <1>6, <2>1, <2>2, <2>3
  <1>8. Len(after) = Cardinality(G)
    BY <1>2, <1>6
  <1>9. Matches(after, G, ds)
    BY <1>7, <1>8 DEF Matches, ErrOf
  <1>10. QED
    BY <1>1, <1>2, <1>3, <1>5, <1>9 DEF after, n

\* What is framed, function by function
LEMMA FramedIs ==
    ASSUME NEW cs \in Seq(Seq(Regions))
    PROVE  /\ Framed(cs) \in SUBSET (Nat \X Nat)
           /\ \A p : p \in Framed(cs) <=>
                 \E c \in 1 .. Len(cs) : \E i \in FramedIn(cs[c]) : p = <<c, i>>
  <1>1. \A c \in 1 .. Len(cs) : FramedIn(cs[c]) \subseteq Nat
    BY DEF FramedIn
  <1>2. \A p : p \in Framed(cs) <=> \E c \in 1 .. Len(cs) : \E i \in FramedIn(cs[c]) : p = <<c, i>>
    BY DEF Framed
  <1>3. QED
    BY <1>1, <1>2

\* When the innermost function changes, only its frames do.
Follows(A, B, F, G, n) ==
    /\ B = A => G = F
    /\ \A k : B = A \cup {k} => G = F \cup {<<n, k>>}
    /\ \A k : B = A \ {k} => G = F \ {<<n, k>>}
    /\ \A e, k : B = (A \ {e}) \cup {k} => G = (F \ {<<n, e>>}) \cup {<<n, k>>}
LEMMA FramedStack ==
    ASSUME NEW cs \in Seq(Seq(Regions)), cs # << >>, NEW t \in Seq(Regions),
           NEW ds, ds = [cs EXCEPT ![Len(cs)] = t]
    PROVE  /\ ds \in Seq(Seq(Regions)) /\ Len(ds) = Len(cs) /\ ds[Len(cs)] = t
           /\ \A c \in 1 .. Len(cs) - 1 : ds[c] = cs[c]
           /\ Follows(FramedIn(cs[Len(cs)]), FramedIn(t), Framed(cs), Framed(ds), Len(cs))
  <1> DEFINE n == Len(cs)
  <1>1. n \in Nat /\ n > 0
    OBVIOUS
  <1>2. /\ ds \in Seq(Seq(Regions)) /\ Len(ds) = n /\ ds[n] = t
        /\ \A c \in 1 .. n - 1 : ds[c] = cs[c]
    BY <1>1
  <1>3. \A c \in 1 .. n : c = n \/ c \in 1 .. n - 1
    BY <1>1
  <1> DEFINE A == UNION {{c} \X FramedIn(cs[c]) : c \in 1 .. n - 1}
             Pairs(X) == {<<n, i>> : i \in X}
  <1>a. 1 .. n = (1 .. n - 1) \cup {n}
    BY <1>1
  <1>4. Framed(cs) = A \cup Pairs(FramedIn(cs[n]))
    <2>1. DOMAIN cs = 1 .. n
      BY LenProperties
    <2>2. DOMAIN cs = (1 .. n - 1) \cup {n}
      BY <1>a, <2>1
    <2> HIDE DEF n
    <2>3. QED
      BY <2>2 DEF Framed
  <1>5. Framed(ds) = A \cup Pairs(FramedIn(t))
    <2>1. DOMAIN ds = 1 .. n
      BY <1>2, LenProperties
    <2>2. DOMAIN ds = (1 .. n - 1) \cup {n}
      BY <1>a, <2>1
    <2> HIDE DEF n
    <2>3. QED
      BY <1>2, <2>2 DEF Framed
  <1>6. \A i : <<n, i>> \notin A
    BY <1>1
  <1> HIDE DEF n, A
  <1>7. FramedIn(t) = FramedIn(cs[n]) => Framed(ds) = Framed(cs)
    BY <1>4, <1>5
  <1>8. ASSUME NEW k, FramedIn(t) = FramedIn(cs[n]) \cup {k}
        PROVE  Framed(ds) = Framed(cs) \cup {<<n, k>>}
    BY <1>4, <1>5, <1>8
  <1>9. ASSUME NEW k, FramedIn(t) = FramedIn(cs[n]) \ {k}
        PROVE  Framed(ds) = Framed(cs) \ {<<n, k>>}
    BY <1>4, <1>5, <1>6, <1>9, ZenonT(60)
  <1>10. ASSUME NEW e, NEW k, FramedIn(t) = (FramedIn(cs[n]) \ {e}) \cup {k}
        PROVE  Framed(ds) = (Framed(cs) \ {<<n, e>>}) \cup {<<n, k>>}
    <2>1. Pairs(FramedIn(t)) = (Pairs(FramedIn(cs[n])) \ {<<n, e>>}) \cup {<<n, k>>}
      BY <1>10
    <2> HIDE DEF Pairs
    <2>2. QED
      BY <1>4, <1>5, <1>6, <2>1
  <1>11. Follows(FramedIn(cs[n]), FramedIn(t), Framed(cs), Framed(ds), n)
    BY <1>7, <1>8, <1>9, <1>10 DEF Follows
  <1>12. QED
    BY <1>2, <1>11 DEF n

Fit(frames, cs) == IsFiniteSet(Framed(cs)) /\ Matches(frames, Framed(cs), cs)
Moves(s, t, frames, ds) ==
    /\ FramedIn(t) = FramedIn(s) /\ (\A i \in FramedIn(s) : t[i].err = s[i].err) => Fit(frames, ds)
    /\ \A k \in Nat, x \in Errors \cup {None} :
           /\ FramedIn(t) = FramedIn(s) \cup {k} /\ t[k].err = x
           /\ \A i \in FramedIn(s) : i < k /\ t[i].err = s[i].err
           => Fit(Append(frames, x), ds)
    /\ \A e \in FramedIn(s) : (\A i \in FramedIn(s) : i <= e) =>
           /\ frames # << >> /\ frames[Len(frames)] = s[e].err
           /\ FramedIn(t) = FramedIn(s) \ {e} /\ (\A i \in FramedIn(s) \ {e} : t[i].err = s[i].err)
              => Fit(SubSeq(frames, 1, Len(frames) - 1), ds)
           /\ \A k \in Nat, x \in Errors \cup {None} :
                 /\ FramedIn(t) = (FramedIn(s) \ {e}) \cup {k} /\ t[k].err = x
                 /\ \A i \in FramedIn(s) \ {e} : i < k /\ t[i].err = s[i].err
                 => Fit(Append(SubSeq(frames, 1, Len(frames) - 1), x), ds)

\* The frames follow the innermost function when it keeps its framed regions, opens one,
\* leaves the last or replaces it.
LEMMA MatchStack ==
    ASSUME NEW cs \in Seq(Seq(Regions)), cs # << >>, NEW t \in Seq(Regions),
           NEW frames \in Seq(Errors \cup {None}),
           IsFiniteSet(Framed(cs)), Matches(frames, Framed(cs), cs),
           NEW s, s = cs[Len(cs)], NEW ds, ds = [cs EXCEPT ![Len(cs)] = t]
    PROVE  Moves(s, t, frames, ds)
  <1> DEFINE n == Len(cs)
  <1>1. n \in Nat /\ n > 0
    OBVIOUS
  <1>2. /\ ds \in Seq(Seq(Regions)) /\ Len(ds) = n /\ ds[n] = t
        /\ \A c \in 1 .. n - 1 : ds[c] = cs[c]
    BY <1>1
  <1>3. Framed(cs) \in SUBSET (Nat \X Nat) /\ \A q \in Framed(cs) : q = <<q[1], q[2]>>
    BY FramedIs
  <1>4. \A q \in Framed(cs) : \/ q[1] < n /\ ErrOf(ds, q) = ErrOf(cs, q)
                              \/ q[1] = n /\ q[2] \in FramedIn(s)
    <2> SUFFICES ASSUME NEW q \in Framed(cs)
                 PROVE  \/ q[1] < n /\ ErrOf(ds, q) = ErrOf(cs, q)
                        \/ q[1] = n /\ q[2] \in FramedIn(s)
      OBVIOUS
    <2>1. PICK c \in 1 .. n : \E i \in FramedIn(cs[c]) : q = <<c, i>>
      BY FramedIs
    <2>2. PICK i \in FramedIn(cs[c]) : q = <<c, i>>
      BY <2>1
    <2>3. q[1] = c /\ q[2] = i
      BY <2>2
    <2>4. CASE c = n
      BY <2>2, <2>3, <2>4
    <2>5. CASE c \in 1 .. n - 1
      <3>1. ds[c] = cs[c] /\ c < n
        <4> HIDE DEF n
        <4>1. ds[c] = cs[c]
          BY <1>2, <2>5
        <4>2. QED
          BY <1>1, <2>5, <4>1
      <3>2. QED
        BY <2>3, <3>1 DEF ErrOf
    <2>6. QED
      BY <1>1, <2>4, <2>5
  <1>5. \A q \in Framed(cs) : q[1] = n => ErrOf(ds, q) = t[q[2]].err /\ ErrOf(cs, q) = s[q[2]].err
    BY <1>2 DEF ErrOf
  <1>6. \A k \in Nat : /\ <<n, k>> \in Nat \X Nat /\ ErrOf(ds, <<n, k>>) = t[k].err
                       /\ ErrOf(cs, <<n, k>>) = s[k].err
                       /\ (k \in FramedIn(s) => <<n, k>> \in Framed(cs))
    <2> SUFFICES ASSUME NEW k \in Nat
                 PROVE  /\ <<n, k>> \in Nat \X Nat /\ ErrOf(ds, <<n, k>>) = t[k].err
                        /\ ErrOf(cs, <<n, k>>) = s[k].err
                        /\ (k \in FramedIn(s) => <<n, k>> \in Framed(cs))
      OBVIOUS
    <2>1. k \in FramedIn(s) => <<n, k>> \in Framed(cs)
      <3>1. n \in 1 .. Len(cs) /\ s = cs[n]
        BY <1>1
      <3> HIDE DEF n
      <3>2. QED
        BY <3>1, FramedIs
    <2>2. QED
      BY <1>1, <1>2, <2>1 DEF ErrOf
  <1>7. FramedIn(s) \in SUBSET Nat
    BY DEF FramedIn
  <1>f. /\ FramedIn(t) = FramedIn(s) => Framed(ds) = Framed(cs)
        /\ \A k : FramedIn(t) = FramedIn(s) \cup {k} => Framed(ds) = Framed(cs) \cup {<<n, k>>}
        /\ \A k : FramedIn(t) = FramedIn(s) \ {k} => Framed(ds) = Framed(cs) \ {<<n, k>>}
        /\ \A e, k : FramedIn(t) = (FramedIn(s) \ {e}) \cup {k} =>
                        Framed(ds) = (Framed(cs) \ {<<n, e>>}) \cup {<<n, k>>}
    <2>1. Follows(FramedIn(cs[Len(cs)]), FramedIn(t), Framed(cs), Framed(ds), Len(cs))
      BY FramedStack
    <2>2. Follows(FramedIn(s), FramedIn(t), Framed(cs), Framed(ds), n)
      BY <2>1
    <2> HIDE DEF n
    <2>3. QED
      BY <2>2 DEF Follows
  <1> HIDE DEF n
  <1>8. ASSUME FramedIn(t) = FramedIn(s), \A i \in FramedIn(s) : t[i].err = s[i].err
        PROVE  IsFiniteSet(Framed(ds)) /\ Matches(frames, Framed(ds), ds)
    <2>1. Framed(ds) = Framed(cs)
      BY <1>8, <1>f
    <2>2. \A q \in Framed(cs) : ErrOf(ds, q) = ErrOf(cs, q)
      BY <1>4, <1>5, <1>8
    <2>3. QED
      BY <2>1, <2>2 DEF Matches, ErrOf
  <1>9. ASSUME NEW k \in Nat, NEW x \in Errors \cup {None},
               FramedIn(t) = FramedIn(s) \cup {k}, t[k].err = x,
               \A i \in FramedIn(s) : i < k /\ t[i].err = s[i].err
        PROVE  IsFiniteSet(Framed(ds)) /\ Matches(Append(frames, x), Framed(ds), ds)
    <2>1. Framed(ds) = Framed(cs) \cup {<<n, k>>}
      BY <1>9, <1>f
    <2>2. \A q \in Framed(cs) : Below(q, <<n, k>>) /\ ErrOf(ds, q) = ErrOf(cs, q)
      BY <1>4, <1>5, <1>9 DEF Below
    <2>3. <<n, k>> \in Nat \X Nat /\ x = ErrOf(ds, <<n, k>>) /\ Framed(cs) \in SUBSET (Nat \X Nat)
      BY <1>3, <1>6, <1>9
    <2>4. /\ IsFiniteSet(Framed(cs) \cup {<<n, k>>})
          /\ Matches(Append(frames, x), Framed(cs) \cup {<<n, k>>}, ds)
      BY <2>2, <2>3, MatchPush
    <2>5. QED
      BY <2>1, <2>4
  <1>10. ASSUME NEW e, e \in FramedIn(s), \A i \in FramedIn(s) : i <= e
         PROVE  <<n, e>> \in Framed(cs) /\ \A q \in Framed(cs) : q = <<n, e>> \/ Below(q, <<n, e>>)
    <2>1. e \in Nat /\ <<n, e>> \in Framed(cs)
      BY <1>6, <1>7, <1>10
    <2>2. ASSUME NEW q \in Framed(cs) PROVE q = <<n, e>> \/ Below(q, <<n, e>>)
      <3>1. CASE q[1] < n
        BY <3>1 DEF Below
      <3>2. CASE q[1] = n /\ q[2] \in FramedIn(s)
        <4>1. q[2] \in Nat /\ q[2] <= e
          BY <1>7, <1>10, <3>2
        <4>2. q[2] = e \/ q[2] < e
          BY <2>1, <4>1
        <4>3. QED
          BY <1>3, <3>2, <4>2 DEF Below
      <3>3. QED
        BY <1>4, <3>1, <3>2
    <2>3. QED
      BY <2>1, <2>2
  <1>11. ASSUME NEW e, e \in FramedIn(s), \A i \in FramedIn(s) : i <= e
         PROVE  /\ frames # << >> /\ frames[Len(frames)] = s[e].err
                /\ IsFiniteSet(Framed(cs) \ {<<n, e>>})
                /\ Matches(SubSeq(frames, 1, Len(frames) - 1), Framed(cs) \ {<<n, e>>}, cs)
    <2>1. ErrOf(cs, <<n, e>>) = s[e].err
      BY <1>6, <1>7, <1>11
    <2>2. QED
      <3>1. <<n, e>> \in Framed(cs) /\ \A q \in Framed(cs) : q = <<n, e>> \/ Below(q, <<n, e>>)
        BY <1>10, <1>11
      <3>2. Framed(cs) \in SUBSET (Nat \X Nat)
        BY <1>3
      <3>3. /\ frames # << >> /\ frames[Len(frames)] = ErrOf(cs, <<n, e>>)
            /\ IsFiniteSet(Framed(cs) \ {<<n, e>>})
            /\ Matches(SubSeq(frames, 1, Len(frames) - 1), Framed(cs) \ {<<n, e>>}, cs)
        BY <3>1, <3>2, MatchPop
      <3>4. QED
        BY <2>1, <3>3
  <1>12. ASSUME NEW e, e \in FramedIn(s), \A i \in FramedIn(s) : i <= e,
                FramedIn(t) = FramedIn(s) \ {e}, \A i \in FramedIn(s) \ {e} : t[i].err = s[i].err
         PROVE  /\ IsFiniteSet(Framed(ds))
                /\ Matches(SubSeq(frames, 1, Len(frames) - 1), Framed(ds), ds)
    <2>1. Framed(ds) = Framed(cs) \ {<<n, e>>}
      BY <1>12, <1>f
    <2>2. \A q \in Framed(cs) \ {<<n, e>>} : ErrOf(ds, q) = ErrOf(cs, q)
      BY <1>3, <1>4, <1>5, <1>12, ZenonT(60)
    <2>3. QED
      <3>1. /\ IsFiniteSet(Framed(cs) \ {<<n, e>>})
            /\ Matches(SubSeq(frames, 1, Len(frames) - 1), Framed(cs) \ {<<n, e>>}, cs)
        BY <1>11, <1>12
      <3>2. QED
        BY <2>1, <2>2, <3>1 DEF Matches, ErrOf
  <1>13. ASSUME NEW e, e \in FramedIn(s), \A i \in FramedIn(s) : i <= e,
                NEW k \in Nat, NEW x \in Errors \cup {None},
                FramedIn(t) = (FramedIn(s) \ {e}) \cup {k}, t[k].err = x,
                \A i \in FramedIn(s) \ {e} : i < k /\ t[i].err = s[i].err
         PROVE  /\ IsFiniteSet(Framed(ds))
                /\ Matches(Append(SubSeq(frames, 1, Len(frames) - 1), x), Framed(ds), ds)
    <2> DEFINE F == Framed(cs) \ {<<n, e>>}  short == SubSeq(frames, 1, Len(frames) - 1)
    <2>1. Framed(ds) = F \cup {<<n, k>>}
      BY <1>13, <1>f
    <2>2. \A q \in F : Below(q, <<n, k>>) /\ ErrOf(ds, q) = ErrOf(cs, q)
      BY <1>3, <1>4, <1>5, <1>13, ZenonT(60) DEF Below
    <2>3. short \in Seq(Errors \cup {None})
      BY <1>11, <1>13
    <2>4. IsFiniteSet(F) /\ Matches(short, F, cs) /\ F \in SUBSET (Nat \X Nat)
      BY <1>3, <1>11, <1>13
    <2> HIDE DEF F, short
    <2>5. IsFiniteSet(F \cup {<<n, k>>}) /\ Matches(Append(short, x), F \cup {<<n, k>>}, ds)
      <3>1. <<n, k>> \in Nat \X Nat /\ x = ErrOf(ds, <<n, k>>)
        BY <1>6, <1>13
      <3>2. QED
        BY <2>2, <2>3, <2>4, <3>1, MatchPush
    <2>6. QED
      BY <2>1, <2>5 DEF short
  <1>14. QED
    BY <1>8, <1>9, <1>11, <1>12, <1>13 DEF Moves, Fit
-------------------------------------------------------------------------------
(***************************************************************************)
(* The invariant of a plain program.  In a deferred block whose function   *)
(* was returning from inside a try statement no error is pending, none is  *)
(* handled and none suspended.                                             *)
(***************************************************************************)
Deferring(s) == \E i \in 1 .. Len(s) : s[i].at = "deferred" /\ s[i].up # 0
Untroubled(s) == \A j \in 1 .. Len(s) : s[j].at = "deferred" /\ s[j].up # 0 =>
    \A i \in j + 1 .. Len(s) : /\ s[i].at # "handler"
                               /\ s[i].at = "finally" => s[i].err = None
Waiting(s) == Well(s) /\ ~Deferring(s) /\ s[Len(s)].at # "leaving"
Suspended(s) == /\ Well(s) /\ s[Len(s)].at # "leaving"
                /\ \A i \in 1 .. Len(s) : s[i].at \notin {"handler", "finally", "inline"}

\* The functions below the innermost, and the generator; the innermost function, s; and
\* the frames
Others(cs, idler) ==
    /\ cs \in Seq(Seq(Regions)) /\ cs # << >> /\ cs[1][1].at = "function"
    /\ \A c \in 1 .. Len(cs) - 1 : Waiting(cs[c])
    /\ idler # << >> => Suspended(idler)
Innermore(h, s, m) ==
    /\ Well(s) /\ Untroubled(s) /\ (Deferring(s) => h.pending = None)
    /\ m = "run" => h.pending = None
    /\ m = "check" => s[Len(s)].at # "leaving"
Matched(h, cs) == IsFiniteSet(Framed(cs)) /\ Matches(h.handled, Framed(cs), cs)
Plain(h, cs, idler, m) == Others(cs, idler) /\ Innermore(h, cs[Len(cs)], m) /\ Matched(h, cs)

\* A try statement that is gone has run its finally body.
LeftOnce(cs, ds, idler) ==
    \A c \in DOMAIN cs : \A i \in DOMAIN cs[c] :
        /\ cs[c][i].at \in Tries
        /\ \/ c \notin DOMAIN ds /\ idler # cs[c]
           \/ c \in DOMAIN ds /\ i \notin DOMAIN ds[c]
        => cs[c][i].ran = 1
Kept == Plain(heap', calls', idle', mode') /\ LeftOnce(calls, calls', idle')

LEMMA UntroubledKept ==
    ASSUME NEW s \in Seq(Regions), NEW t \in Seq(Regions), Untroubled(s),
           \A i \in 1 .. Len(t) :
               /\ t[i].at \in {"deferred", "handler"} =>
                     i <= Len(s) /\ s[i].at = t[i].at /\ s[i].up = t[i].up
               /\ t[i].at = "finally" =>
                     t[i].err = None \/ (i <= Len(s) /\ s[i].at = "finally" /\ s[i].err = t[i].err)
    PROVE  Untroubled(t) /\ (Deferring(t) => Deferring(s))
  <1>1. Len(s) \in Nat /\ Len(t) \in Nat
    OBVIOUS
  <1>2. ASSUME NEW j \in 1 .. Len(t), t[j].at = "deferred" /\ t[j].up # 0
        PROVE  j \in 1 .. Len(s) /\ s[j].at = "deferred" /\ s[j].up # 0
    BY <1>1, <1>2
  <1>3. Deferring(t) => Deferring(s)
    BY <1>2 DEF Deferring
  <1>4. ASSUME NEW j \in 1 .. Len(t), t[j].at = "deferred" /\ t[j].up # 0,
               NEW i \in j + 1 .. Len(t)
        PROVE  t[i].at # "handler" /\ (t[i].at = "finally" => t[i].err = None)
    <2>1. i \in 1 .. Len(t)
      BY <1>1
    <2>2. j \in 1 .. Len(s) /\ s[j].at = "deferred" /\ s[j].up # 0
      BY <1>2, <1>4
    <2>3. \A k \in j + 1 .. Len(s) : s[k].at # "handler" /\ (s[k].at = "finally" => s[k].err = None)
      BY <2>2 DEF Untroubled
    <2>4. i <= Len(s) => i \in j + 1 .. Len(s)
      BY <1>1
    <2>5. QED
      BY <1>1, <2>1, <2>3, <2>4
  <1>5. Untroubled(t)
    BY <1>4 DEF Untroubled
  <1>6. QED
    BY <1>3, <1>5

\* What an action that changes the innermost function only has to show
LEMMA StackIsKept ==
    ASSUME Plain(heap, calls, idle, mode), NEW t, calls' = [calls EXCEPT ![Len(calls)] = t],
           idle' = idle, t[1].at = Here[1].at, Innermore(heap', t, mode'), Matched(heap', calls'),
           \A i \in Len(t) + 1 .. Len(Here) : Here[i].at \in Tries => Here[i].ran = 1
    PROVE  Kept
  <1> DEFINE n == Len(calls)
  <1>1. /\ calls \in Seq(Seq(Regions)) /\ n \in Nat /\ n > 0 /\ Here = calls[n]
        /\ \A c \in 1 .. n : calls[c] \in Seq(Regions)
    BY DEF Plain, Others, Here, Last
  <1>2. t \in Seq(Regions)
    BY DEF Innermore, Well
  <1>3. /\ calls' \in Seq(Seq(Regions)) /\ Len(calls') = n /\ calls'[n] = t
        /\ \A c \in 1 .. n - 1 : calls'[c] = calls[c]
    BY <1>1, <1>2
  <1>o. Others(calls, idle)
    BY DEF Plain
  <1> HIDE DEF n
  <1>4. calls'[1][1].at = "function"
    <2>1. calls[1][1].at = "function"
      BY <1>o DEF Others
    <2>2. CASE n = 1
      BY <1>1, <1>3, <2>1, <2>2
    <2>3. CASE 1 \in 1 .. n - 1
      BY <1>3, <2>1, <2>3
    <2>4. QED
      BY <1>1, <2>2, <2>3
  <1>5. Others(calls', idle')
    <2>1. calls' # << >>
      BY <1>1, <1>3
    <2>2. \A c \in 1 .. Len(calls') - 1 : Waiting(calls'[c])
      BY <1>3, <1>o DEF Others, n
    <2>3. QED
      BY <1>3, <1>4, <1>o, <2>1, <2>2 DEF Others
  <1>6. LeftOnce(calls, calls', idle')
    <2> SUFFICES ASSUME NEW c \in 1 .. n, NEW i \in 1 .. Len(calls[c]), calls[c][i].at \in Tries,
                        \/ c \notin DOMAIN calls' \/ (c \in DOMAIN calls' /\ i \notin DOMAIN calls'[c])
                 PROVE  calls[c][i].ran = 1
      <3>1. DOMAIN calls = 1 .. n /\ \A c \in 1 .. n : DOMAIN calls[c] = 1 .. Len(calls[c])
        BY <1>1, LenProperties DEF n
      <3>2. QED
        BY <3>1 DEF LeftOnce
    <2>0. DOMAIN calls[c] = 1 .. Len(calls[c]) /\ DOMAIN t = 1 .. Len(t)
      BY <1>1, <1>2, LenProperties
    <2>1. DOMAIN calls' = 1 .. n
      BY <1>3, LenProperties
    <2>2. c \in DOMAIN calls'
      BY <2>1
    <2>3. CASE c \in 1 .. n - 1
      <3>1. calls'[c] = calls[c]
        BY <1>3, <2>3
      <3>2. QED
        BY <2>0, <2>2, <3>1
    <2>4. CASE c = n
      <3>1. i \notin 1 .. Len(t) /\ i \in 1 .. Len(Here) /\ Len(t) \in Nat
        <4>1. calls'[c] = t /\ calls[c] = Here
          BY <1>1, <1>3, <2>4
        <4>2. QED
          BY <1>2, <2>0, <2>2, <4>1
      <3>2. QED
        BY <1>1, <2>4, <3>1
    <2>5. QED
      BY <1>1, <2>3, <2>4
  <1>7. QED
    BY <1>3, <1>5, <1>6 DEF Kept, Plain, n

LEMMA SameIsKept ==
    ASSUME Plain(heap, calls, idle, mode), UNCHANGED <<calls, idle>>,
           Innermore(heap', Here, mode'), heap'.handled = heap.handled
    PROVE  Kept
  <1>1. Plain(heap', calls', idle', mode')
    BY DEF Plain, Matched, Here, Last
  <1>2. LeftOnce(calls, calls', idle')
    BY DEF LeftOnce
  <1>3. QED
    BY <1>1, <1>2 DEF Kept

\* The parts of the invariant that the steps use
Assumed == TypeOK /\ OwnersCounted /\ habit = "plain" /\ Plain(heap, calls, idle, mode)
LEMMA PlainFacts ==
    ASSUME Assumed
    PROVE  /\ Others(calls, idle) /\ Innermore(heap, Here, mode) /\ Matched(heap, calls)
           /\ calls \in Seq(Seq(Regions)) /\ calls # << >> /\ Here = calls[Len(calls)]
           /\ Well(Here) /\ Here \in Seq(Regions) /\ Len(Here) \in Nat /\ Len(Here) > 0
           /\ Top = Here[Len(Here)] /\ Top \in Regions
           /\ heap \in Heaps /\ heap.handled \in Seq(Errors \cup {None})
           /\ heap.pending \in Errors \cup {None}
           /\ FramedIn(Here) \in SUBSET Nat
  <1>1. /\ Others(calls, idle) /\ Innermore(heap, Here, mode) /\ Matched(heap, calls)
        /\ Here = calls[Len(calls)]
    BY DEF Assumed, Plain, Here, Last
  <1>2. Well(Here) /\ calls \in Seq(Seq(Regions)) /\ calls # << >>
    BY <1>1 DEF Innermore, Others
  <1>3. Here \in Seq(Regions) /\ Len(Here) \in Nat /\ Len(Here) > 0
    BY <1>2 DEF Well
  <1>4. Top = Here[Len(Here)] /\ Top \in Regions
    BY <1>3 DEF Top, Last
  <1>5. heap \in Heaps
    BY DEF Assumed, TypeOK
  <1>6. heap.handled \in Seq(Errors \cup {None}) /\ heap.pending \in Errors \cup {None}
    BY <1>5 DEF Heaps
  <1>7. FramedIn(Here) \in SUBSET Nat
    BY <1>3 DEF FramedIn
  <1>8. QED
    BY <1>1, <1>2, <1>3, <1>4, <1>5, <1>6, <1>7

\* What the runtime's functions do to the frames and the pending slot
LEMMA HeapFields ==
    ASSUME NEW h \in Heaps
    PROVE  /\ Entered(h).handled = Append(h.handled, h.pending) /\ Entered(h).pending = None
           /\ h.handled # << >> =>
                /\ \A r : Left(h, r).handled = SubSeq(h.handled, 1, Len(h.handled) - 1)
                /\ Left(h, FALSE).pending = h.pending
                /\ h.pending = None => Left(h, TRUE).pending = h.handled[Len(h.handled)]
           /\ \A e \in Errors : /\ Raised(h, e).handled = h.handled
                                /\ Reraised(h, e).handled = h.handled
  <1>1. h = [refs |-> h.refs, pending |-> h.pending, handled |-> h.handled]
    BY DEF Heaps
  <1>2. Entered(h).handled = Append(h.handled, h.pending) /\ Entered(h).pending = None
    BY <1>1 DEF Entered
  <1>3. ASSUME h.handled # << >>, NEW r
        PROVE  /\ Left(h, r).handled = SubSeq(h.handled, 1, Len(h.handled) - 1)
               /\ ~r => Left(h, r).pending = h.pending
               /\ r /\ h.pending = None => Left(h, r).pending = h.handled[Len(h.handled)]
    <2> DEFINE g == [h EXCEPT !.handled = SubSeq(@, 1, Len(h.handled) - 1)]
               e == h.handled[Len(h.handled)]
    <2>1. g.handled = SubSeq(h.handled, 1, Len(h.handled) - 1) /\ g.pending = h.pending
          /\ g = [refs |-> g.refs, pending |-> g.pending, handled |-> g.handled]
      BY <1>1
    <2>2. Left(h, r) = LeftWith(g, e, r)
      BY <1>3 DEF Left
    <2> HIDE DEF g, e
    <2>3. Released(g, e).handled = g.handled /\ Released(g, e).pending = g.pending
      BY <2>1 DEF Released
    <2>4. /\ LeftWith(g, e, r).handled = g.handled
          /\ ~r => LeftWith(g, e, r).pending = g.pending
          /\ r /\ g.pending = None => LeftWith(g, e, r).pending = e
      BY <2>1, <2>3 DEF LeftWith
    <2>5. QED
      BY <2>1, <2>2, <2>4 DEF e
  <1>4. ASSUME NEW g, g = [refs |-> g.refs, pending |-> g.pending, handled |-> g.handled], NEW e
        PROVE  Replaced(g, e).handled = g.handled
    BY <1>4 DEF Replaced, Cleared, Released
  <1>5. ASSUME NEW e \in Errors
        PROVE  Raised(h, e).handled = h.handled /\ Reraised(h, e).handled = h.handled
    BY <1>1, <1>4 DEF Raised, Reraised
  <1>6. QED
    BY <1>2, <1>3, <1>5

\* The frames after a step
LEMMA MovesNow ==
    ASSUME Assumed, NEW t \in Seq(Regions), calls' = [calls EXCEPT ![Len(calls)] = t]
    PROVE  Moves(Here, t, heap.handled, calls')
  <1> DEFINE s == Here  ds == calls'  frames == heap.handled
  <1>1. calls \in Seq(Seq(Regions)) /\ calls # << >> /\ frames \in Seq(Errors \cup {None})
        /\ IsFiniteSet(Framed(calls)) /\ Matches(frames, Framed(calls), calls)
        /\ s = calls[Len(calls)] /\ ds = [calls EXCEPT ![Len(calls)] = t]
    BY PlainFacts DEF Matched
  <1> HIDE DEF s, ds, frames
  <1>2. Moves(s, t, frames, ds)
    BY <1>1, MatchStack
  <1>3. QED
    BY <1>2 DEF s, ds, frames

LEMMA MatchedSame ==
    ASSUME Assumed, NEW t \in Seq(Regions), calls' = [calls EXCEPT ![Len(calls)] = t],
           heap'.handled = heap.handled, FramedIn(t) = FramedIn(Here),
           \A i \in FramedIn(Here) : t[i].err = Here[i].err
    PROVE  Matched(heap', calls')
  <1>1. Moves(Here, t, heap.handled, calls')
    BY MovesNow
  <1>2. Fit(heap'.handled, calls')
    BY <1>1 DEF Moves
  <1>3. QED
    BY <1>2 DEF Fit, Matched

LEMMA MatchedPush ==
    ASSUME Assumed, NEW t \in Seq(Regions), calls' = [calls EXCEPT ![Len(calls)] = t],
           NEW k \in Nat, NEW x \in Errors \cup {None}, heap'.handled = Append(heap.handled, x),
           FramedIn(t) = FramedIn(Here) \cup {k}, t[k].err = x,
           \A i \in FramedIn(Here) : i < k /\ t[i].err = Here[i].err
    PROVE  Matched(heap', calls')
  <1>1. Moves(Here, t, heap.handled, calls')
    BY MovesNow
  <1>2. Fit(heap'.handled, calls')
    BY <1>1 DEF Moves
  <1>3. QED
    BY <1>2 DEF Fit, Matched

LEMMA LastFrame ==
    ASSUME Assumed, NEW e \in FramedIn(Here), \A i \in FramedIn(Here) : i <= e
    PROVE  heap.handled # << >> /\ heap.handled[Len(heap.handled)] = Here[e].err
  <1> DEFINE ds == [calls EXCEPT ![Len(calls)] = Here]
  <1>1. calls \in Seq(Seq(Regions)) /\ calls # << >> /\ heap.handled \in Seq(Errors \cup {None})
        /\ IsFiniteSet(Framed(calls)) /\ Matches(heap.handled, Framed(calls), calls)
        /\ Here = calls[Len(calls)] /\ Here \in Seq(Regions)
    BY PlainFacts DEF Matched
  <1>2. Moves(Here, Here, heap.handled, ds)
    BY <1>1, MatchStack
  <1>3. QED
    BY <1>2 DEF Moves

LEMMA MatchedPop ==
    ASSUME Assumed, NEW t \in Seq(Regions), calls' = [calls EXCEPT ![Len(calls)] = t],
           NEW e \in FramedIn(Here), \A i \in FramedIn(Here) : i <= e,
           heap'.handled = SubSeq(heap.handled, 1, Len(heap.handled) - 1),
           FramedIn(t) = FramedIn(Here) \ {e},
           \A i \in FramedIn(Here) \ {e} : t[i].err = Here[i].err
    PROVE  Matched(heap', calls')
  <1>1. Moves(Here, t, heap.handled, calls')
    BY MovesNow
  <1>2. Fit(heap'.handled, calls')
    BY <1>1 DEF Moves
  <1>3. QED
    BY <1>2 DEF Fit, Matched

LEMMA MatchedTurn ==
    ASSUME Assumed, NEW t \in Seq(Regions), calls' = [calls EXCEPT ![Len(calls)] = t],
           NEW e \in FramedIn(Here), \A i \in FramedIn(Here) : i <= e,
           NEW k \in Nat, NEW x \in Errors \cup {None},
           heap'.handled = Append(SubSeq(heap.handled, 1, Len(heap.handled) - 1), x),
           FramedIn(t) = (FramedIn(Here) \ {e}) \cup {k}, t[k].err = x,
           \A i \in FramedIn(Here) \ {e} : i < k /\ t[i].err = Here[i].err
    PROVE  Matched(heap', calls')
  <1>1. Moves(Here, t, heap.handled, calls')
    BY MovesNow
  <1>2. Fit(heap'.handled, calls')
    BY <1>1 DEF Moves
  <1>3. QED
    BY <1>2 DEF Fit, Matched
-------------------------------------------------------------------------------
LEMMA RegionIs ==
    ASSUME NEW at \in Places, NEW up \in Nat
    PROVE  /\ Region(at, up) \in Regions
           /\ Region(at, up).at = at /\ Region(at, up).up = up /\ Region(at, up).ran = 0
           /\ Region(at, up).exit = "return"
           /\ \A catches \in SUBSET Types : [Region(at, up) EXCEPT !.catches = catches] \in Regions
           /\ \A exit \in Exits : [Region(at, up) EXCEPT !.exit = exit] \in Regions
           /\ \A x \in Errors \cup {None} : [Region(at, up) EXCEPT !.err = x] \in Regions
  BY DEF Region, Regions, Exits

\* A statement opens a region, or starts to leave one.
LEMMA PushKept ==
    ASSUME Assumed, mode = "run", Top.at # "leaving",
           NEW r \in Regions, r.up = Inner(Here), r.at \in {"body", "loop", "leaving"}, r.ran = 0,
           r.at = "leaving" =>
              IF r.exit = "return" THEN \A i \in 1 .. Len(Here) : Here[i].at # "deferred"
              ELSE \E l \in 1 .. Len(Here) :
                      /\ Here[l].at = "loop" /\ ~Outside(Here, l, Len(Here))
                      /\ \A k \in l + 1 .. Len(Here) : Here[k].at # "loop",
           Push(r), UNCHANGED <<heap, idle, mode>>
    PROVE  Kept
  <1> DEFINE s == Here  n == Len(s)  t == Append(s, r)
  <1>1. /\ Innermore(heap, s, mode) /\ Well(s) /\ s \in Seq(Regions) /\ n \in Nat /\ n > 0
        /\ s[n].at # "leaving"
    BY PlainFacts
  <1>2. /\ t \in Seq(Regions) /\ Len(t) = n + 1 /\ t[n + 1] = r /\ \A i \in 1 .. n : t[i] = s[i]
    BY <1>1
  <1>3. calls' = [calls EXCEPT ![Len(calls)] = t]
    BY DEF Push, Stack
  <1>4. Well(t) /\ FramedIn(t) = FramedIn(s)
    BY <1>1, PushIsWell
  <1>5. Untroubled(t)
    <2>1. \A i \in 1 .. Len(t) :
             /\ t[i].at \in {"deferred", "handler"} =>
                   i <= Len(s) /\ s[i].at = t[i].at /\ s[i].up = t[i].up
             /\ t[i].at = "finally" =>
                   t[i].err = None \/ (i <= Len(s) /\ s[i].at = "finally" /\ s[i].err = t[i].err)
      BY <1>1, <1>2
    <2> HIDE DEF s, t
    <2>2. QED
      BY <1>1, <1>2, <2>1, UntroubledKept DEF Innermore
  <1>6. heap.pending = None
    BY <1>1 DEF Innermore
  <1>7. Innermore(heap', t, mode')
    BY <1>4, <1>5, <1>6 DEF Innermore
  <1>8. Matched(heap', calls')
    <2>1. \A i \in FramedIn(s) : t[i].err = s[i].err
      BY <1>2 DEF FramedIn
    <2> HIDE DEF s, t
    <2>2. QED
      BY <1>2, <1>3, <1>4, <2>1, MatchedSame DEF s
  <1>9. t[1].at = s[1].at /\ Len(t) > n
    BY <1>1, <1>2
  <1>10. QED
    <2>1. /\ Plain(heap, calls, idle, mode) /\ idle' = idle /\ t[1].at = Here[1].at
          /\ \A i \in Len(t) + 1 .. Len(Here) : Here[i].at \in Tries => Here[i].ran = 1
      BY <1>1, <1>2, <1>9 DEF Assumed
    <2> HIDE DEF t, s
    <2>2. QED
      BY <1>3, <1>7, <1>8, <2>1, StackIsKept

LEMMA OpenKept ==
    ASSUME Assumed, (\E catches \in SUBSET Types : OpenTry(catches)) \/ OpenLoop
    PROVE  Kept
  <1>1. Inner(Here) \in Nat
    BY PlainFacts, InnerFacts
  <1>2. ASSUME NEW catches \in SUBSET Types, OpenTry(catches) PROVE Kept
    <2> DEFINE r == [Region("body", Inner(Here)) EXCEPT !.catches = catches]
    <2>1. r \in Regions /\ r.up = Inner(Here) /\ r.at = "body" /\ r.ran = 0
      BY <1>1, RegionIs DEF Places, Tries, Region
    <2>2. Running /\ Push(r) /\ UNCHANGED <<heap, idle, mode>>
      BY <1>2 DEF OpenTry
    <2> HIDE DEF r
    <2>3. QED
      BY <2>1, <2>2, PushKept DEF Running
  <1>3. CASE OpenLoop
    <2> DEFINE r == Region("loop", Inner(Here))
    <2>1. r \in Regions /\ r.up = Inner(Here) /\ r.at = "loop" /\ r.ran = 0
      BY <1>1, RegionIs DEF Places, Tries, Region
    <2>2. Running /\ Push(r) /\ UNCHANGED <<heap, idle, mode>>
      BY <1>3 DEF OpenLoop
    <2> HIDE DEF r
    <2>3. QED
      BY <2>1, <2>2, PushKept DEF Running
  <1>4. QED
    BY <1>2, <1>3

LEMMA LeavingIs ==
    ASSUME Assumed, NEW exit \in Exits
    PROVE  /\ Leaving(exit) \in Regions /\ Leaving(exit).up = Inner(Here)
           /\ Leaving(exit).at = "leaving" /\ Leaving(exit).exit = exit /\ Leaving(exit).ran = 0
  <1>1. Inner(Here) \in Nat
    BY PlainFacts, InnerFacts
  <1>2. QED
    BY <1>1, RegionIs DEF Leaving, Places, Region

LEMMA ReturnKept ==
    ASSUME Assumed, Return \/ FallOff
    PROVE  Kept
  <1> DEFINE r == Leaving("return")
  <1>1. /\ r \in Regions /\ r.up = Inner(Here) /\ r.at = "leaving" /\ r.exit = "return" /\ r.ran = 0
    BY LeavingIs DEF Exits
  <1>2. /\ Well(Here) /\ Here \in Seq(Regions) /\ Len(Here) \in Nat /\ Len(Here) > 0
        /\ Innermore(heap, Here, mode)
    BY PlainFacts
  <1>3. DOMAIN Here = 1 .. Len(Here)
    BY <1>2, LenProperties
  <1>4. Running /\ heap.pending = None
    BY <1>2 DEF Innermore, Return, FallOff, Running
  <1>5. \A i \in 1 .. Len(Here) : Here[i].at # "deferred"
    <2>1. CASE Return
      BY <1>3, <2>1 DEF Return
    <2>2. CASE FallOff
      BY <1>2, <2>2 DEF FallOff, Well
    <2>3. QED
      BY <2>1, <2>2
  <1>6. Push(r) /\ UNCHANGED <<heap, idle, mode>>
    BY <1>4 DEF Return, FallOff
  <1> HIDE DEF r
  <1>7. QED
    BY <1>1, <1>4, <1>5, <1>6, PushKept DEF Running

LEMMA BreakKept ==
    ASSUME Assumed, NEW exit \in {"break", "continue"}, Break(exit)
    PROVE  Kept
  <1> DEFINE r == Leaving(exit)  s == Here  l == LoopOf(s)  n == Len(s)
  <1>1. /\ r \in Regions /\ r.up = Inner(s) /\ r.at = "leaving" /\ r.exit = exit /\ r.ran = 0
    BY LeavingIs DEF Exits
  <1>2. s \in Seq(Regions) /\ n \in Nat /\ n > 0 /\ DOMAIN s = 1 .. n
    BY PlainFacts, LenProperties
  <1>3. l # 0 /\ Running /\ Push(r) /\ UNCHANGED <<heap, idle, mode>>
    BY DEF Break
  <1>4. l \in 1 .. n /\ s[l].at = "loop" /\ \A k \in l + 1 .. n : s[k].at # "loop"
    BY <1>2, <1>3, LoopOfIs
  <1>5. ~Outside(s, l, n)
    <2> SUFFICES ASSUME NEW k \in l + 1 .. n PROVE /\ s[k].at = "inline" => s[k].of > l
                                                   /\ s[k].at # "deferred"
      BY <1>2, <1>4, RegionFields DEF Outside
    <2>1. k \in DOMAIN s /\ k > l /\ k \in Nat /\ s[k].of \in Nat
      BY <1>2, <1>4, RegionFields
    <2>2. s[k].at # "deferred"
      BY <2>1, <1>4 DEF Break
    <2>3. ~WrongLoop
      BY DEF Break, Assumed
    <2>4. s[k].at = "inline" => l \notin s[k].of .. k
      BY <2>1, <2>3 DEF WrongLoop
    <2>5. QED
      BY <1>4, <2>1, <2>2, <2>4
  <1>6. QED
    <2> HIDE DEF r, l, s
    <2>1. \E k \in 1 .. n : /\ s[k].at = "loop" /\ ~Outside(s, k, n)
                            /\ \A i \in k + 1 .. n : s[i].at # "loop"
      BY <1>4, <1>5
    <2>2. QED
      BY <1>1, <1>3, <2>1, PushKept DEF Running, s
-------------------------------------------------------------------------------
\* The regions above m are gone.
LEMMA CutKept ==
    ASSUME Assumed, NEW m \in 1 .. Len(Here), Stack(SubSeq(Here, 1, m)),
           Well(SubSeq(Here, 1, m)), idle' = idle, Matched(heap', calls'),
           mode' = "run" => heap'.pending = None,
           mode' = "check" => Here[m].at # "leaving",
           Deferring(SubSeq(Here, 1, m)) => heap'.pending = None,
           \A i \in m + 1 .. Len(Here) : Here[i].at \in Tries => Here[i].ran = 1
    PROVE  Kept
  <1> DEFINE s == Here  n == Len(s)  t == SubSeq(s, 1, m)
  <1>1. Innermore(heap, s, mode) /\ Well(s) /\ s \in Seq(Regions) /\ n \in Nat /\ n > 0
    BY PlainFacts
  <1>2. t \in Seq(Regions) /\ Len(t) = m /\ \A i \in 1 .. m : t[i] = s[i]
    BY <1>1
  <1>3. Untroubled(t)
    <2>1. \A i \in 1 .. Len(t) :
             /\ t[i].at \in {"deferred", "handler"} =>
                   i <= Len(s) /\ s[i].at = t[i].at /\ s[i].up = t[i].up
             /\ t[i].at = "finally" =>
                   t[i].err = None \/ (i <= Len(s) /\ s[i].at = "finally" /\ s[i].err = t[i].err)
      BY <1>1, <1>2
    <2> HIDE DEF s, t
    <2>2. QED
      BY <1>1, <1>2, <2>1, UntroubledKept DEF Innermore
  <1>4. Innermore(heap', t, mode')
    BY <1>2, <1>3 DEF Innermore
  <1>5. calls' = [calls EXCEPT ![Len(calls)] = t]
    BY DEF Stack
  <1>6. /\ Plain(heap, calls, idle, mode) /\ t[1].at = Here[1].at
        /\ \A i \in Len(t) + 1 .. Len(Here) : Here[i].at \in Tries => Here[i].ran = 1
    BY <1>2 DEF Assumed
  <1> HIDE DEF t, s
  <1>7. QED
    BY <1>4, <1>5, <1>6, StackIsKept

\* A loop ends; nothing in it has a frame.
LEMMA LoopKept ==
    ASSUME Assumed, mode = "run", UNCHANGED <<heap, idle, mode>>,
           NEW l \in 1 .. Len(Here), Here[l].at = "loop", ~Outside(Here, l, Len(Here)),
           Top.at = "leaving" => Top.up >= Here[l].up /\ Top.up <= l,
           Top.at # "leaving" => l = Len(Here),
           NEW m \in {l - 1, l}, Stack(SubSeq(Here, 1, m))
    PROVE  Kept
  <1> DEFINE s == Here  n == Len(s)  t == SubSeq(s, 1, m)
  <1>1. /\ Innermore(heap, s, mode) /\ Well(s) /\ s \in Seq(Regions) /\ n \in Nat /\ n > 0
        /\ Top = s[n]
    BY PlainFacts
  <1>2. /\ m \in 1 .. n /\ Well(t) /\ FramedIn(t) = FramedIn(s)
        /\ \A i \in m + 1 .. n : s[i].at \in Tries => s[i].ran = 1
    BY <1>1, LoopGoes
  <1>3. t \in Seq(Regions) /\ Len(t) = m /\ \A i \in 1 .. m : t[i] = s[i]
    BY <1>1, <1>2
  <1>4. \A i \in FramedIn(s) : t[i].err = s[i].err
    <2>1. \A i \in FramedIn(t) : i \in 1 .. m
      BY <1>3 DEF FramedIn
    <2>2. QED
      BY <1>2, <1>3, <2>1
  <1>5. calls' = [calls EXCEPT ![Len(calls)] = t]
    BY DEF Stack
  <1>6. Matched(heap', calls')
    <2> HIDE DEF t
    <2>1. QED
      BY <1>2, <1>3, <1>4, <1>5, MatchedSame
  <1>7. heap.pending = None
    BY <1>1 DEF Innermore
  <1>8. QED
    BY <1>2, <1>6, <1>7, CutKept

LEMMA LoopEndsKept ==
    ASSUME Assumed, LoopEnds
    PROVE  Kept
  <1> DEFINE n == Len(Here)
  <1>1. n \in Nat /\ n > 0 /\ Top = Here[n]
    BY PlainFacts
  <1>2. Running /\ Here[n].at = "loop" /\ UNCHANGED <<heap, idle, mode>>
    BY <1>1 DEF LoopEnds
  <1>3. Stack(SubSeq(Here, 1, n - 1))
    BY DEF LoopEnds, Front
  <1>4. ~Outside(Here, n, n)
    BY <1>1 DEF Outside
  <1>5. n \in 1 .. Len(Here) /\ n - 1 \in {n - 1, n}
    BY <1>1
  <1>6. QED
    BY <1>1, <1>2, <1>3, <1>4, <1>5, LoopKept DEF Running

LEMMA BreakLeavesKept ==
    ASSUME Assumed, Leaves, Top.exit # "return"
    PROVE  Kept
  <1> DEFINE s == Here  n == Len(s)
  <1>1. /\ Innermore(heap, s, mode) /\ Well(s) /\ s \in Seq(Regions) /\ n \in Nat /\ n > 0
        /\ Top = s[n] /\ Top \in Regions
    BY PlainFacts
  <1>2. mode = "run" /\ Top.at = "leaving" /\ ~Due /\ UNCHANGED <<heap, idle, mode>>
    BY <1>1 DEF Leaves, Regions, Exits
  <1>3. Exiting(s, n)
    BY <1>1 DEF Well, Placed
  <1>4. PICK l \in 1 .. n - 1 : Ends(s, l, n)
    BY <1>1, <1>2, <1>3 DEF Exiting
  <1>5. /\ l \in 1 .. n /\ s[l].at = "loop" /\ (\A k \in l + 1 .. n : s[k].at # "loop")
        /\ ~Outside(s, l, n) /\ s[n].up >= s[l].up
    BY <1>1, <1>2, <1>4 DEF Ends
  <1>6. LoopOf(s) = l
    BY <1>1, <1>5, LoopIs
  <1>7. Top.up <= l /\ Top.up \in Nat
    <2>1. Top.up \in Nat
      BY <1>1 DEF Regions
    <2>2. Top.up = 0 \/ ~(l < Top.up)
      BY <1>2, <1>6 DEF Due
    <2>3. QED
      BY <1>5, <2>1, <2>2
  <1>8. PICK m \in {l - 1, l} : Stack(SubSeq(s, 1, m))
    <2>1. Stack(Keep(LoopOf(s) - 1)) \/ Stack(Keep(LoopOf(s)))
      BY DEF Leaves
    <2>2. QED
      BY <1>6, <2>1 DEF Keep
  <1>9. QED
    BY <1>1, <1>2, <1>5, <1>7, <1>8, LoopKept
-------------------------------------------------------------------------------
LEMMA DeferKept ==
    ASSUME Assumed, Defer
    PROVE  Kept
  <1> DEFINE s == Here  n == Len(s)  t == [s EXCEPT ![1].defers = TRUE]
  <1>1. /\ Innermore(heap, s, mode) /\ Well(s) /\ s \in Seq(Regions) /\ n \in Nat /\ n > 0
        /\ Ordered(s) /\ RanOnce(s)
    BY PlainFacts DEF Well
  <1>2. mode = "run" /\ UNCHANGED <<heap, idle, mode>> /\ heap.pending = None
        /\ calls' = [calls EXCEPT ![Len(calls)] = t]
    BY <1>1 DEF Defer, Running, Stack, Innermore
  <1>3. t \in Seq(Regions) /\ Len(t) = n
    <2>0. s[1] \in Regions
      BY <1>1
    <2>1. [s[1] EXCEPT !.defers = TRUE] \in Regions
      BY <2>0 DEF Regions
    <2>2. t = [s EXCEPT ![1] = [s[1] EXCEPT !.defers = TRUE]]
      BY <1>1
    <2>3. QED
      BY <1>1, <2>1, <2>2
  <1>4. \A i \in 1 .. n : /\ t[i].at = s[i].at /\ t[i].up = s[i].up /\ t[i].of = s[i].of
                          /\ t[i].exit = s[i].exit /\ t[i].ran = s[i].ran /\ t[i].err = s[i].err
    <2> SUFFICES ASSUME NEW i \in 1 .. n
                 PROVE  /\ t[i].at = s[i].at /\ t[i].up = s[i].up /\ t[i].of = s[i].of
                        /\ t[i].exit = s[i].exit /\ t[i].ran = s[i].ran /\ t[i].err = s[i].err
      OBVIOUS
    <2>1. s[i] \in Regions
      BY <1>1
    <2>2. QED
      BY <1>1, <2>1 DEF Regions
  <1> HIDE DEF t
  <1>5. ~Passed(s, n)
    BY <1>1 DEF Passed
  <1>6. Well(t) /\ FramedIn(t) = FramedIn(s)
    <2>1. Alike(s, t, n) /\ t[n].at # "except"
      BY <1>1, <1>4 DEF Alike, Ordered
    <2>2. t[n].at = "finally" => t[n].ran = 1
      BY <1>1, <1>4 DEF RanOnce
    <2>3. t[n].at \in {"body", "else"} => t[n].ran = 0
      BY <1>1, <1>4, <1>5 DEF RanOnce, Tries
    <2>4. \A i \in 1 .. n, j \in n + 1 .. Len(s) :
               IsEntry(s[i]) /\ GoesPast(s, j, i) => PassedTo(s, n, i)
      BY <1>1
    <2>5. \A i \in 1 .. n - 1 : t[i].ran = s[i].ran
      BY <1>1, <1>4
    <2>6. n \in 1 .. Len(s) /\ Len(t) = n
      BY <1>1, <1>3
    <2>7. n \in FramedIn(s) <=> t[n].at \in {"handler", "finally"}
      BY <1>1, <1>4, <1>5 DEF FramedIn
    <2>8. \A i \in FramedIn(s) : i \in 1 .. n /\ (i = n \/ i < n)
      BY <1>1 DEF FramedIn
    <2> HIDE DEF s, n
    <2>9. /\ Well(t)
          /\ FramedIn(t) = {i \in FramedIn(s) : i < n}
                            \cup {i \in {n} : t[n].at \in {"handler", "finally"}}
      BY <1>1, <1>3, <2>1, <2>2, <2>3, <2>4, <2>5, <2>6, CutIsWell
    <2>10. n \in Nat
      BY <1>1
    <2>11. QED
      BY <2>7, <2>8, <2>9, <2>10
  <1>7. Untroubled(t)
    <2>1. \A i \in 1 .. Len(t) :
             /\ t[i].at \in {"deferred", "handler"} =>
                   i <= Len(s) /\ s[i].at = t[i].at /\ s[i].up = t[i].up
             /\ t[i].at = "finally" =>
                   t[i].err = None \/ (i <= Len(s) /\ s[i].at = "finally" /\ s[i].err = t[i].err)
      BY <1>1, <1>3, <1>4
    <2> HIDE DEF s
    <2>2. QED
      BY <1>1, <1>3, <2>1, UntroubledKept DEF Innermore
  <1>8. Innermore(heap', t, mode')
    BY <1>2, <1>6, <1>7 DEF Innermore
  <1>9. Matched(heap', calls')
    <2>1. \A i \in FramedIn(s) : t[i].err = s[i].err
      BY <1>1, <1>4 DEF FramedIn
    <2> HIDE DEF s
    <2>2. QED
      BY <1>2, <1>3, <1>6, <2>1, MatchedSame DEF s
  <1>10. /\ Plain(heap, calls, idle, mode) /\ t[1].at = Here[1].at /\ idle' = idle
         /\ \A i \in Len(t) + 1 .. Len(Here) : Here[i].at \in Tries => Here[i].ran = 1
    BY <1>1, <1>2, <1>3, <1>4 DEF Assumed
  <1> HIDE DEF s
  <1>11. QED
    BY <1>2, <1>8, <1>9, <1>10, StackIsKept
-------------------------------------------------------------------------------
\* A statement that raises, or calls what may, is in no such deferred block.
LEMMA MayRaiseFacts ==
    ASSUME Assumed, Running, MayRaise
    PROVE  Waiting(Here) /\ heap.pending = None
  <1>1. /\ Innermore(heap, Here, mode) /\ Well(Here) /\ Here \in Seq(Regions)
        /\ Top = Here[Len(Here)]
    BY PlainFacts
  <1>2. DOMAIN Here = 1 .. Len(Here)
    BY <1>1, LenProperties
  <1>3. ~InDefer
    BY DEF Assumed, MayRaise
  <1>4. ~Deferring(Here)
    BY <1>2, <1>3 DEF InDefer, Deferring
  <1>5. QED
    BY <1>1, <1>4 DEF Waiting, Running, Innermore

LEMMA RaiseKept ==
    ASSUME Assumed, (\E t \in Types : Raise(t)) \/ Reraise
    PROVE  Kept
  <1>1. Running /\ MayRaise /\ mode' = "check" /\ UNCHANGED <<calls, idle>>
    BY DEF Raise, Reraise
  <1>2. Waiting(Here)
    BY <1>1, MayRaiseFacts
  <1>3. Untroubled(Here) /\ heap \in Heaps
    BY PlainFacts DEF Innermore
  <1>4. Innermore(heap', Here, mode')
    BY <1>1, <1>2, <1>3 DEF Innermore, Waiting
  <1>5. heap'.handled = heap.handled
    <2>1. ASSUME NEW t \in Types, Raise(t) PROVE heap'.handled = heap.handled
      <3> DEFINE objects == {e \in Unused(heap) : ClassOf[e] = t}
      <3>1. objects # {} /\ heap' = Raised(heap, CHOOSE e \in objects : TRUE)
        BY <2>1 DEF Raise
      <3>2. (CHOOSE e \in objects : TRUE) \in Errors
        BY <3>1 DEF Unused
      <3>3. QED
        BY <1>3, <3>1, <3>2, HeapFields
    <2>2. CASE Reraise
      BY <1>3, <2>2, HeapFields DEF Reraise
    <2>3. QED
      BY <2>1, <2>2
  <1>6. QED
    BY <1>1, <1>4, <1>5, SameIsKept DEF Assumed

\* No error, or the program has ended.
LEMMA IdleKept ==
    ASSUME Assumed, NoError \/ Over
    PROVE  Kept
  <1>1. Innermore(heap, Here, mode)
    BY PlainFacts
  <1>2. Innermore(heap', Here, mode') /\ heap' = heap /\ UNCHANGED <<calls, idle>>
    BY <1>1 DEF NoError, Over, vars, Innermore
  <1>3. QED
    BY <1>2, SameIsKept DEF Assumed
-------------------------------------------------------------------------------
\* A function with no framed region comes or goes.
LEMMA FramedAppend ==
    ASSUME NEW cs \in Seq(Seq(Regions)), NEW t \in Seq(Regions), FramedIn(t) = {}, NEW frames
    PROVE  Fit(frames, cs) <=> Fit(frames, Append(cs, t))
  <1> DEFINE ds == Append(cs, t)  n == Len(cs)
  <1>1. /\ ds \in Seq(Seq(Regions)) /\ n \in Nat /\ Len(ds) = n + 1 /\ ds[n + 1] = t
        /\ \A c \in 1 .. n : ds[c] = cs[c]
    OBVIOUS
  <1> HIDE DEF ds, n
  <1>2. Framed(cs) = Framed(ds)
    <2>1. \A p : p \in Framed(cs) <=> \E c \in 1 .. n : \E i \in FramedIn(cs[c]) : p = <<c, i>>
      BY FramedIs DEF n
    <2>2. \A p : p \in Framed(ds) <=> \E c \in 1 .. n + 1 : \E i \in FramedIn(ds[c]) : p = <<c, i>>
      <3>1. \A p : p \in Framed(ds) <=> \E c \in 1 .. Len(ds) : \E i \in FramedIn(ds[c]) : p = <<c, i>>
        BY <1>1, FramedIs
      <3>2. QED
        BY <1>1, <3>1
    <2>3. \A c \in 1 .. n + 1 : c \in 1 .. n \/ FramedIn(ds[c]) = {}
      BY <1>1
    <2>4. \A c \in 1 .. n : c \in 1 .. n + 1 /\ ds[c] = cs[c]
      BY <1>1
    <2>5. \A p : p \in Framed(ds) <=> p \in Framed(cs)
      <3> SUFFICES ASSUME NEW p PROVE p \in Framed(ds) <=> p \in Framed(cs)
        OBVIOUS
      <3>1. ASSUME p \in Framed(cs) PROVE p \in Framed(ds)
        <4>1. PICK c \in 1 .. n : \E i \in FramedIn(cs[c]) : p = <<c, i>>
          BY <2>1, <3>1
        <4>2. QED
          BY <2>2, <2>4, <4>1
      <3>2. ASSUME p \in Framed(ds) PROVE p \in Framed(cs)
        <4>1. PICK c \in 1 .. n + 1 : \E i \in FramedIn(ds[c]) : p = <<c, i>>
          BY <2>2, <3>2
        <4>2. c \in 1 .. n /\ ds[c] = cs[c]
          BY <2>3, <2>4, <4>1
        <4>3. QED
          BY <2>1, <4>1, <4>2
      <3>3. QED
        BY <3>1, <3>2
    <2>6. QED
      BY <2>5
  <1>3. \A p \in Framed(cs) : cs[p[1]] = ds[p[1]]
    <2> SUFFICES ASSUME NEW p \in Framed(cs) PROVE cs[p[1]] = ds[p[1]]
      OBVIOUS
    <2>1. PICK c \in 1 .. n : \E i \in FramedIn(cs[c]) : p = <<c, i>>
      BY FramedIs DEF n
    <2>2. p[1] = c
      BY <2>1
    <2>3. QED
      BY <1>1, <2>2
  <1>4. QED
    BY <1>2, <1>3 DEF Fit, Matches, ds

LEMMA EnterKept ==
    ASSUME Assumed, Running, MayRaise, UNCHANGED <<heap, mode>>,
           NEW t, Well(t), t[Len(t)].at # "leaving", Untroubled(t), FramedIn(t) = {},
           calls' = Append(calls, t), idle' # << >> => Suspended(idle')
    PROVE  Kept
  <1> DEFINE n == Len(calls)
  <1>1. /\ calls \in Seq(Seq(Regions)) /\ n \in Nat /\ n > 0 /\ Here = calls[n]
        /\ t \in Seq(Regions) /\ Waiting(Here) /\ heap.pending = None
        /\ Others(calls, idle) /\ Matched(heap, calls)
    BY PlainFacts, MayRaiseFacts DEF Well
  <1>2. /\ calls' \in Seq(Seq(Regions)) /\ Len(calls') = n + 1 /\ calls'[n + 1] = t
        /\ \A c \in 1 .. n : calls'[c] = calls[c]
    BY <1>1
  <1>3. Others(calls', idle')
    <2>1. \A c \in 1 .. n : Waiting(calls[c])
      <3> SUFFICES ASSUME NEW c \in 1 .. n PROVE Waiting(calls[c])
        OBVIOUS
      <3>1. c = n \/ c \in 1 .. n - 1
        BY <1>1
      <3>2. QED
        BY <1>1, <3>1 DEF Others
    <2>2. calls'[1][1].at = "function"
      BY <1>1, <1>2 DEF Others
    <2>3. calls' # << >> /\ Len(calls') - 1 = n
      BY <1>1, <1>2
    <2>4. QED
      BY <1>2, <2>1, <2>2, <2>3 DEF Others
  <1>4. Innermore(heap', t, mode')
    BY <1>1 DEF Innermore
  <1>5. Matched(heap', calls')
    <2>1. Fit(heap.handled, calls)
      BY <1>1 DEF Matched, Fit
    <2>2. Fit(heap.handled, Append(calls, t))
      BY <1>1, <2>1, FramedAppend
    <2>3. QED
      BY <2>2 DEF Matched, Fit
  <1>6. LeftOnce(calls, calls', idle')
    <2>1. DOMAIN calls = 1 .. n /\ DOMAIN calls' = 1 .. n + 1
      BY <1>1, <1>2, LenProperties
    <2>2. \A c \in DOMAIN calls : c \in DOMAIN calls' /\ calls'[c] = calls[c]
      BY <1>1, <1>2, <2>1
    <2>3. QED
      BY <2>2 DEF LeftOnce
  <1>7. QED
    BY <1>2, <1>3, <1>4, <1>5, <1>6 DEF Kept, Plain

LEMMA FreshIsWell ==
    ASSUME NEW at \in {"function", "generator"}
    PROVE  /\ Well(<<Region(at, 0)>>) /\ FramedIn(<<Region(at, 0)>>) = {}
           /\ Untroubled(<<Region(at, 0)>>)
  <1> DEFINE s == <<Region(at, 0)>>
  <1>1. /\ Region(at, 0) \in Regions /\ Region(at, 0).at = at /\ Region(at, 0).up = 0
    BY RegionIs DEF Places
  <1>2. s \in Seq(Regions) /\ Len(s) = 1 /\ s[1] = Region(at, 0) /\ s # << >>
    BY <1>1
  <1> HIDE DEF s
  <1>3. Placed(s, 1)
    BY <1>1, <1>2 DEF Placed, Leads, Uncrossed, Complete, Nested, Exiting
  <1>4. Ordered(s) /\ RanOnce(s)
    BY <1>1, <1>2 DEF Ordered, RanOnce, Tries
  <1>5. FramedIn(s) = {} /\ Untroubled(s)
    <2>1. DOMAIN s = {1}
      BY <1>2, LenProperties
    <2>2. QED
      BY <1>1, <1>2, <2>1 DEF FramedIn, Untroubled
  <1>6. QED
    BY <1>1, <1>2, <1>3, <1>4, <1>5 DEF Well, s

LEMMA CallKept ==
    ASSUME Assumed, NEW checked \in BOOLEAN, Call(checked)
    PROVE  Kept
  <1> DEFINE t == <<Region("function", 0)>>
  <1>1. checked = TRUE
    BY DEF Call, Assumed
  <1>2. [Region("function", 0) EXCEPT !.checked = checked] = Region("function", 0)
    <2>1. [Region("function", 0) EXCEPT !.checked = TRUE] = Region("function", 0)
      <3>1. Region("function", 0) \in Regions
        BY RegionIs DEF Places
      <3>2. \A r \in Regions : [r EXCEPT !.checked = TRUE] = r
        BY DEF Regions
      <3>3. QED
        BY <3>1, <3>2
    <2>2. QED
      BY <1>1, <2>1
  <1>3. Running /\ MayRaise /\ UNCHANGED <<heap, mode, idle>> /\ calls' = Append(calls, t)
    BY <1>2 DEF Call
  <1>4. Well(t) /\ FramedIn(t) = {} /\ Untroubled(t) /\ t[Len(t)].at = "function"
    BY FreshIsWell, RegionIs DEF Places
  <1>5. idle' # << >> => Suspended(idle')
    BY <1>3, PlainFacts DEF Others
  <1> HIDE DEF t
  <1>6. QED
    BY <1>3, <1>4, <1>5, EnterKept

LEMMA ResumeKept ==
    ASSUME Assumed, Resume
    PROVE  Kept
  <1> DEFINE t == IF idle = << >> THEN <<Region("generator", 0)>> ELSE idle
  <1>1. Running /\ MayRaise /\ UNCHANGED <<heap, mode>> /\ idle' = << >> /\ calls' = Append(calls, t)
    BY DEF Resume
  <1>2. Well(t) /\ FramedIn(t) = {} /\ Untroubled(t) /\ t[Len(t)].at # "leaving"
    <2>1. CASE idle = << >>
      <3>1. t = <<Region("generator", 0)>>
        BY <2>1
      <3>2. Region("generator", 0).at # "leaving" /\ Len(t) = 1 /\ t[1] = Region("generator", 0)
        <4>1. Region("generator", 0).at = "generator"
          BY RegionIs DEF Places
        <4> HIDE DEF t
        <4>2. QED
          BY <3>1, <4>1
      <3> HIDE DEF t
      <3>3. QED
        BY <3>1, <3>2, FreshIsWell
    <2>2. CASE idle # << >>
      <3>1. Suspended(idle)
        BY <2>2, PlainFacts DEF Others
      <3>2. idle \in Seq(Regions) /\ DOMAIN idle = 1 .. Len(idle) /\ Len(idle) \in Nat
        BY <3>1, LenProperties DEF Suspended, Well
      <3>3. FramedIn(idle) = {}
        BY <3>1, <3>2 DEF FramedIn, Suspended
      <3>4. Untroubled(idle)
        BY <3>1, <3>2 DEF Untroubled, Suspended
      <3>5. QED
        BY <2>2, <3>1, <3>3, <3>4 DEF Suspended
    <2>3. QED
      BY <2>1, <2>2
  <1> HIDE DEF t
  <1>3. QED
    BY <1>1, <1>2, EnterKept

\* The innermost function returns or yields; the one below goes on.
LEMMA ExitKept ==
    ASSUME Assumed, Len(calls) > 1, calls' = Front(calls), FramedIn(Here) = {}, UNCHANGED heap,
           mode' = "run" => heap.pending = None,
           \/ idle' = Here /\ Suspended(Here)
           \/ /\ idle' = idle
              /\ \A i \in 1 .. Len(Here) : Here[i].at \in Tries => Here[i].ran = 1
    PROVE  Kept
  <1> DEFINE n == Len(calls)
  <1>1. /\ calls \in Seq(Seq(Regions)) /\ n \in Nat /\ n > 1 /\ Here = calls[n]
        /\ Others(calls, idle) /\ Matched(heap, calls) /\ Here \in Seq(Regions)
    BY PlainFacts
  <1>2. /\ calls' \in Seq(Seq(Regions)) /\ Len(calls') = n - 1
        /\ \A c \in 1 .. n - 1 : calls'[c] = calls[c]
    BY <1>1 DEF Front
  <1>3. calls = Append(calls', Here)
    <2> DEFINE ds == calls'  cs == Append(ds, Here)
    <2>1. ds \in Seq(Seq(Regions)) /\ Here \in Seq(Regions) /\ Len(ds) = n - 1
      BY <1>1, <1>2
    <2>2. /\ cs \in Seq(Seq(Regions)) /\ Len(cs) = n /\ cs[n] = Here
          /\ \A c \in 1 .. n - 1 : cs[c] = ds[c]
      <3> HIDE DEF ds
      <3>1. QED
        BY <1>1, <2>1
    <2>3. \A c \in 1 .. n : c = n \/ c \in 1 .. n - 1
      BY <1>1
    <2>4. \A c \in 1 .. n : calls[c] = cs[c]
      <3>1. \A c \in 1 .. n - 1 : calls[c] = ds[c]
        BY <1>2
      <3> HIDE DEF cs, ds, n
      <3>2. QED
        BY <1>1, <2>2, <2>3, <3>1
    <2>5. calls = cs
      <3> HIDE DEF cs
      <3>1. QED
        BY <1>1, <2>2, <2>4, SeqEqual
    <2>6. QED
      BY <2>5
  <1>4. Others(calls', idle')
    <2>1. \A c \in 1 .. n - 1 : Waiting(calls[c])
      BY <1>1 DEF Others
    <2>2. idle' # << >> => Suspended(idle')
      BY <1>1 DEF Others
    <2>3. calls'[1][1].at = "function" /\ calls' # << >>
      <3>1. 1 \in 1 .. n - 1 /\ calls[1][1].at = "function"
        BY <1>1 DEF Others
      <3>2. calls'[1] = calls[1]
        BY <1>2, <3>1
      <3>3. QED
        BY <1>1, <1>2, <3>1, <3>2
    <2>4. \A c \in 1 .. Len(calls') - 1 : Waiting(calls'[c])
      <3> SUFFICES ASSUME NEW c \in 1 .. Len(calls') - 1 PROVE Waiting(calls'[c])
        OBVIOUS
      <3>1. c \in 1 .. n - 1
        BY <1>1, <1>2
      <3>2. calls'[c] = calls[c]
        BY <1>2, <3>1
      <3>3. QED
        BY <2>1, <3>1, <3>2
    <2>5. QED
      BY <1>2, <2>2, <2>3, <2>4 DEF Others
  <1>5. Innermore(heap', calls'[Len(calls')], mode')
    <2>1. n - 1 \in 1 .. n - 1 /\ calls'[Len(calls')] = calls[n - 1]
      BY <1>1, <1>2
    <2>2. Waiting(calls[n - 1])
      BY <1>1, <2>1 DEF Others
    <2>3. QED
      BY <2>1, <2>2 DEF Innermore, Waiting, Deferring, Untroubled
  <1>6. Matched(heap', calls')
    <2>1. Fit(heap.handled, Append(calls', Here))
      BY <1>1, <1>3 DEF Matched, Fit
    <2> DEFINE ds == calls'
    <2>2. ds \in Seq(Seq(Regions)) /\ Fit(heap.handled, Append(ds, Here))
      BY <1>2, <2>1
    <2>3. Fit(heap.handled, ds)
      <3> HIDE DEF ds
      <3>1. QED
        BY <1>1, <2>2, FramedAppend
    <2>4. QED
      BY <2>3 DEF Matched, Fit
  <1>7. LeftOnce(calls, calls', idle')
    <2> SUFFICES ASSUME NEW c \in 1 .. n, NEW i \in DOMAIN calls[c], calls[c][i].at \in Tries,
                        \/ c \notin DOMAIN calls' /\ idle' # calls[c]
                        \/ c \in DOMAIN calls' /\ i \notin DOMAIN calls'[c]
                 PROVE  calls[c][i].ran = 1
      <3>1. DOMAIN calls = 1 .. n
        BY <1>1, LenProperties
      <3>2. QED
        BY <3>1 DEF LeftOnce
    <2>1. DOMAIN calls' = 1 .. n - 1
      BY <1>2, LenProperties
    <2>2. CASE c \in 1 .. n - 1
      BY <1>2, <2>1, <2>2
    <2>3. CASE c = n
      <3>1. c \notin DOMAIN calls' /\ calls[c] = Here
        BY <1>1, <2>1, <2>3
      <3>2. DOMAIN Here = 1 .. Len(Here)
        BY <1>1, LenProperties
      <3>3. QED
        BY <3>1, <3>2
    <2>4. QED
      BY <1>1, <2>2, <2>3
  <1>8. QED
    BY <1>4, <1>5, <1>6, <1>7 DEF Kept, Plain

LEMMA YieldKept ==
    ASSUME Assumed, Yield
    PROVE  Kept
  <1> DEFINE s == Here  n == Len(calls)
  <1>1. /\ Innermore(heap, s, mode) /\ Well(s) /\ s \in Seq(Regions) /\ Len(s) \in Nat /\ Len(s) > 0
        /\ Top = s[Len(s)] /\ calls \in Seq(Seq(Regions)) /\ s = calls[n] /\ Others(calls, idle)
        /\ calls # << >>
    BY PlainFacts
  <1>2. /\ Running /\ s[1].at = "generator" /\ ~InFinally /\ ~InHandler
        /\ calls' = Front(calls) /\ idle' = s /\ UNCHANGED <<heap, mode>>
    BY DEF Yield, Assumed
  <1>3. DOMAIN s = 1 .. Len(s)
    BY <1>1, LenProperties
  <1>4. Suspended(s)
    BY <1>1, <1>2, <1>3 DEF Suspended, Running, InFinally, InHandler
  <1>5. FramedIn(s) = {}
    BY <1>3, <1>4 DEF FramedIn, Suspended
  <1>6. n > 1
    <2>1. n \in Nat /\ n # 0
      BY <1>1
    <2>2. n # 1
      BY <1>1, <1>2 DEF Others
    <2>3. QED
      BY <2>1, <2>2, SMTT(30)
  <1>7. heap.pending = None
    BY <1>1, <1>2 DEF Innermore, Running
  <1> HIDE DEF s
  <1>8. QED
    BY <1>2, <1>4, <1>5, <1>6, <1>7, ExitKept DEF s

LEMMA FunctionReturnsKept ==
    ASSUME Assumed, FunctionReturns, UNCHANGED <<heap, idle>>, FramedIn(Here) = {},
           \A i \in 1 .. Len(Here) : Here[i].at \in Tries => Here[i].ran = 1
    PROVE  Kept
  <1>1. /\ Innermore(heap, Here, mode) /\ Here \in Seq(Regions) /\ Len(Here) > 0 /\ Len(Here) \in Nat
        /\ calls \in Seq(Seq(Regions)) /\ calls # << >>
    BY PlainFacts
  <1>2. CASE Len(calls) = 1
    <2>1. mode' = "over" /\ UNCHANGED <<calls, idle>>
      BY <1>2 DEF FunctionReturns
    <2>2. Innermore(heap', Here, mode')
      BY <1>1, <2>1 DEF Innermore
    <2>3. QED
      BY <2>1, <2>2, SameIsKept DEF Assumed
  <1>3. CASE Len(calls) # 1
    <2>1. Here[1] \in Regions
      BY <1>1
    <2>2. Here[1].checked
      BY <2>1 DEF Regions
    <2>3. calls' = Front(calls) /\ mode' = "check"
      BY <1>3, <2>2 DEF FunctionReturns
    <2>4. Len(calls) > 1
      <3>1. Len(calls) \in Nat /\ Len(calls) # 0
        BY <1>1
      <3>2. QED
        BY ONLY <1>3, <3>1
    <2>5. QED
      BY <2>3, <2>4, ExitKept
  <1>4. QED
    BY <1>2, <1>3

\* No cleanup is left, or the deferred block has ended.
LEMMA AllGone ==
    ASSUME NEW s, Well(s), Inner(s) = 0 \/ s[Len(s)].at = "deferred"
    PROVE  FramedIn(s) = {} /\ \A i \in 1 .. Len(s) : s[i].at \in Tries => s[i].ran = 1
  <1>1. s \in Seq(Regions) /\ Len(s) \in Nat /\ RanOnce(s)
    BY DEF Well
  <1>2. \A i \in 1 .. Len(s) : IsEntry(s[i]) => Passed(s, i)
    <2>1. CASE Inner(s) = 0
      BY <1>1, <2>1, PassedAbove
    <2>2. CASE s[Len(s)].at = "deferred"
      <3>1. ASSUME NEW i \in 1 .. Len(s), IsEntry(s[i]) PROVE Passed(s, i)
        <4>1. Len(s) \in i + 1 .. Len(s)
          BY <1>1, <2>2, <3>1 DEF IsEntry, Tries
        <4>2. GoesPast(s, Len(s), i)
          BY <2>2 DEF GoesPast
        <4>3. QED
          BY <4>1, <4>2 DEF Passed
      <3>2. QED
        BY <3>1
    <2>3. QED
      BY <2>1, <2>2
  <1>3. \A i \in 1 .. Len(s) : s[i].at \in Tries => s[i].ran = 1
    BY <1>1, <1>2 DEF RanOnce, IsEntry, Tries
  <1>4. DOMAIN s = 1 .. Len(s)
    BY <1>1, LenProperties
  <1>5. FramedIn(s) = {}
    BY <1>2, <1>4 DEF FramedIn, IsEntry, Tries
  <1>6. QED
    BY <1>3, <1>5

LEMMA DeferredEndsKept ==
    ASSUME Assumed, DeferredEnds \/ LeaveFunction
    PROVE  Kept
  <1>1. Well(Here) /\ Top = Here[Len(Here)]
    BY PlainFacts
  <1>2. Inner(Here) = 0 \/ Here[Len(Here)].at = "deferred"
    BY <1>1 DEF DeferredEnds, LeaveFunction
  <1>3. FramedIn(Here) = {} /\ \A i \in 1 .. Len(Here) : Here[i].at \in Tries => Here[i].ran = 1
    BY <1>1, <1>2, AllGone
  <1>4. FunctionReturns /\ UNCHANGED <<heap, idle>>
    BY DEF DeferredEnds, LeaveFunction
  <1>5. QED
    BY <1>3, <1>4, FunctionReturnsKept

LEMMA ReturnLeavesKept ==
    ASSUME Assumed, Leaves, Top.exit = "return"
    PROVE  Kept
  <1> DEFINE s == Here  n == Len(s)
  <1>1. /\ Innermore(heap, s, mode) /\ Well(s) /\ s \in Seq(Regions) /\ n \in Nat /\ n > 0
        /\ Top = s[n] /\ Top \in Regions
    BY PlainFacts
  <1>2. mode = "run" /\ Top.at = "leaving" /\ Top.up = 0 /\ UNCHANGED <<heap, idle>>
    BY DEF Leaves, Due
  <1>3. Inner(s) = 0
    BY <1>1, <1>2 DEF Inner, Top, Tries
  <1>4. CASE ~s[1].defers
    <2>1. FramedIn(s) = {} /\ \A i \in 1 .. n : s[i].at \in Tries => s[i].ran = 1
      BY <1>1, <1>3, AllGone
    <2>2. FunctionReturns
      BY <1>4 DEF Leaves
    <2>3. QED
      BY <1>2, <2>1, <2>2, FunctionReturnsKept
  <1>5. CASE s[1].defers
    <2> DEFINE r == [Top EXCEPT !.at = "deferred", !.up = Inner(Front(s))]
               t == [s EXCEPT ![n] = r]
    <2>1. UNCHANGED <<heap, idle, mode>> /\ calls' = [calls EXCEPT ![Len(calls)] = t]
      BY <1>2, <1>5 DEF Leaves, Turn, Stack
    <2>2. Inner(Front(s)) \in Nat
      <3>1. n # 1
        BY <1>1, <1>2 DEF Well
      <3>2. Front(s) \in Seq(Regions) /\ Len(Front(s)) = n - 1 /\ n - 1 \in Nat /\ n - 1 > 0
        BY <1>1, <3>1, SMTT(30) DEF Front
      <3>3. Front(s)[n - 1] \in Regions
        BY <3>2
      <3>4. Front(s)[n - 1].up \in Nat
        BY <3>3 DEF Regions
      <3> HIDE DEF s, n
      <3>5. QED
        BY <3>2, <3>4 DEF Inner, Last
    <2>3. r \in Regions /\ r.at = "deferred" /\ r.up = Inner(Front(s))
      BY <1>1, <2>2 DEF Regions, Places
    <2>4. t \in Seq(Regions) /\ Len(t) = n /\ t[n] = r /\ \A i \in 1 .. n - 1 : t[i] = s[i]
      <3>1. s \in Seq(Regions) /\ n \in 1 .. n /\ n = Len(s) /\ r \in Regions
        BY <1>1, <2>3
      <3> HIDE DEF r, s, n
      <3>2. QED
        BY <3>1
    <2> HIDE DEF r, t, s
    <2>5. Well(t) /\ FramedIn(t) = FramedIn(s) /\ \A i \in 1 .. n : s[i].at # "deferred"
      BY <1>1, <1>2, <2>3, <2>4, DeferredIsWell
    <2>6. Untroubled(t)
      BY <1>1, <2>4, <2>5 DEF Untroubled
    <2>7. Innermore(heap', t, mode')
      BY <1>1, <1>2, <2>1, <2>5, <2>6 DEF Innermore
    <2>8. \A i \in FramedIn(s) : t[i].err = s[i].err
      <3>1. \A i \in FramedIn(s) : i \in 1 .. n /\ i # n
        <4>1. DOMAIN s = 1 .. n
          BY <1>1, LenProperties
        <4>2. QED
          BY <1>1, <1>2, <4>1 DEF FramedIn
      <3>2. QED
        BY <1>1, <2>4, <3>1
    <2>9. Matched(heap', calls')
      BY <2>1, <2>4, <2>5, <2>8, MatchedSame DEF s
    <2>10. /\ Plain(heap, calls, idle, mode) /\ t[1].at = Here[1].at /\ idle' = idle
           /\ \A i \in Len(t) + 1 .. Len(Here) : Here[i].at \in Tries => Here[i].ran = 1
      <3>1. n # 1
        BY <1>1, <1>2 DEF Well
      <3>2. 1 \in 1 .. n - 1
        <4>1. n \in Nat /\ n > 0
          BY <1>1
        <4> HIDE DEF n
        <4>2. QED
          BY <3>1, <4>1
      <3>3. QED
        BY <1>1, <2>1, <2>4, <3>2 DEF s, Assumed
    <2>11. QED
      BY <2>1, <2>7, <2>9, <2>10, StackIsKept
  <1>6. QED
    BY <1>4, <1>5
-------------------------------------------------------------------------------
\* The region on top goes on to another one of the same kind of place.
LEMMA TurnKept ==
    ASSUME Assumed, mode = "run", mode' = "run", heap'.pending = None, idle' = idle,
           NEW t \in Seq(Regions), Well(t), Len(t) = Len(Here),
           \A i \in 1 .. Len(Here) - 1 : /\ t[i].at = Here[i].at /\ t[i].up = Here[i].up
                                         /\ t[i].err = Here[i].err,
           Top.at \notin {"function", "generator"},
           t[Len(t)].at \notin {"deferred", "handler", "finally"},
           calls' = [calls EXCEPT ![Len(calls)] = t], Matched(heap', calls')
    PROVE  Kept
  <1> DEFINE s == Here  n == Len(s)
  <1>1. /\ Innermore(heap, s, mode) /\ Well(s) /\ s \in Seq(Regions) /\ n \in Nat /\ n > 0
        /\ Top = s[n] /\ Len(t) = n
    BY PlainFacts
  <1>2. n # 1
    BY <1>1 DEF Well
  <1>3. \A i \in 1 .. n : i = n \/ i \in 1 .. n - 1
    BY <1>1
  <1>4. Untroubled(t)
    <2>1. \A i \in 1 .. Len(t) :
             /\ t[i].at \in {"deferred", "handler"} =>
                   i <= Len(s) /\ s[i].at = t[i].at /\ s[i].up = t[i].up
             /\ t[i].at = "finally" =>
                   t[i].err = None \/ (i <= Len(s) /\ s[i].at = "finally" /\ s[i].err = t[i].err)
      BY <1>1, <1>3
    <2> HIDE DEF s
    <2>2. QED
      BY <1>1, <2>1, UntroubledKept DEF Innermore
  <1>5. Innermore(heap', t, mode')
    BY <1>4 DEF Innermore
  <1>6. /\ Plain(heap, calls, idle, mode) /\ t[1].at = Here[1].at
        /\ \A i \in Len(t) + 1 .. Len(Here) : Here[i].at \in Tries => Here[i].ran = 1
    <2>1. 1 \in 1 .. n - 1 /\ \A i \in Len(t) + 1 .. Len(Here) : FALSE
      <3> HIDE DEF s
      <3>1. QED
        BY <1>1, <1>2 DEF s
    <2>2. QED
      BY <1>1, <2>1 DEF Assumed
  <1> HIDE DEF s
  <1>7. QED
    BY <1>5, <1>6, StackIsKept

LEMMA EndBodyKept ==
    ASSUME Assumed, EndBody
    PROVE  Kept
  <1> DEFINE s == Here  n == Len(s)  r == [Top EXCEPT !.at = "else", !.catches = {}]
             t == [s EXCEPT ![n] = r]
  <1>1. /\ Innermore(heap, s, mode) /\ Well(s) /\ s \in Seq(Regions) /\ n \in Nat /\ n > 0
        /\ Top = s[n] /\ Top \in Regions /\ RanOnce(s)
    BY PlainFacts DEF Well
  <1>2. /\ mode = "run" /\ Top.at = "body" /\ UNCHANGED <<heap, idle, mode>>
        /\ calls' = [calls EXCEPT ![Len(calls)] = t]
    BY DEF EndBody, Running, Turn, Stack
  <1>3. /\ r \in Regions /\ r.at = "else" /\ r.up = Top.up /\ r.of = Top.of /\ r.exit = Top.exit
        /\ r.ran = Top.ran
    BY <1>1 DEF Regions, Places, Tries
  <1>4. t \in Seq(Regions) /\ Len(t) = n /\ t[n] = r /\ \A i \in 1 .. n - 1 : t[i] = s[i]
    <2>1. s \in Seq(Regions) /\ n \in 1 .. n /\ n = Len(s) /\ r \in Regions
      BY <1>1, <1>3
    <2> HIDE DEF r, s, n
    <2>2. QED
      BY <2>1
  <1>5. \A i \in 1 .. n : i = n \/ i \in 1 .. n - 1
    BY <1>1
  <1> HIDE DEF t, r
  <1>6. Alike(s, t, n)
    BY <1>1, <1>2, <1>3, <1>4, <1>5 DEF Alike, Tries
  <1>7. s[n].ran = 0
    <2>1. ~Passed(s, n)
      BY <1>1 DEF Passed
    <2>2. n \in 1 .. n
      BY <1>1
    <2> HIDE DEF s
    <2>3. QED
      BY <1>1, <1>2, <2>1, <2>2 DEF RanOnce, Tries
  <1>8. Well(t) /\ FramedIn(t) = FramedIn(s) /\ \A i \in FramedIn(s) : i < n
    <2>1. /\ t[n].at \notin {"except", "finally"} /\ (t[n].at \in {"body", "else"} => t[n].ran = 0)
          /\ s[n].at \notin {"handler", "finally"} /\ \A i \in 1 .. n - 1 : t[i].ran = s[i].ran
      BY <1>1, <1>2, <1>3, <1>4, <1>7
    <2> HIDE DEF s
    <2>2. /\ Well(t) /\ FramedIn(t) = FramedIn(s) \cup {i \in {n} : t[n].at = "finally"}
          /\ \A i \in FramedIn(s) : i < n
      BY <1>1, <1>4, <1>6, <2>1, TopIsWell
    <2>3. QED
      BY <2>1, <2>2
  <1>9. \A i \in FramedIn(s) : t[i].err = s[i].err
    <2>1. DOMAIN s = 1 .. n
      BY <1>1, LenProperties
    <2>2. \A i \in FramedIn(s) : i \in 1 .. n - 1
      BY <1>1, <1>8, <2>1 DEF FramedIn
    <2>3. QED
      BY <1>4, <2>2
  <1>10. Matched(heap', calls')
    <2> HIDE DEF s
    <2>1. QED
      BY <1>2, <1>4, <1>8, <1>9, MatchedSame DEF s
  <1>11. heap'.pending = None
    BY <1>1, <1>2 DEF Innermore
  <1>12. \A i \in 1 .. Len(Here) - 1 : /\ t[i].at = Here[i].at /\ t[i].up = Here[i].up
                                       /\ t[i].err = Here[i].err
    BY <1>4
  <1>13. Len(t) = Len(Here) /\ t[Len(t)].at \notin {"deferred", "handler", "finally"}
    BY <1>3, <1>4
  <1>14. QED
    BY <1>2, <1>4, <1>8, <1>10, <1>11, <1>12, <1>13, TurnKept

LEMMA InlineEndsKept ==
    ASSUME Assumed, InlineEnds
    PROVE  Kept
  <1> DEFINE s == Here  n == Len(s)  r == [Top EXCEPT !.at = "leaving"]
             t == [s EXCEPT ![n] = r]
  <1>1. /\ Innermore(heap, s, mode) /\ Well(s) /\ s \in Seq(Regions) /\ n \in Nat /\ n > 0
        /\ Top = s[n] /\ Top \in Regions
    BY PlainFacts
  <1>2. /\ mode = "run" /\ Top.at = "inline" /\ UNCHANGED <<heap, idle, mode>>
        /\ calls' = [calls EXCEPT ![Len(calls)] = t]
    BY DEF InlineEnds, Running, Turn, Stack
  <1>3. /\ r \in Regions /\ r.at = "leaving" /\ r.up = Top.up /\ r.exit = Top.exit
    BY <1>1 DEF Regions, Places
  <1>4. t \in Seq(Regions) /\ Len(t) = n /\ t[n] = r /\ \A i \in 1 .. n - 1 : t[i] = s[i]
    <2>1. s \in Seq(Regions) /\ n \in 1 .. n /\ n = Len(s) /\ r \in Regions
      BY <1>1, <1>3
    <2> HIDE DEF r, s, n
    <2>2. QED
      BY <2>1
  <1> HIDE DEF t, r
  <1>5. Well(t) /\ FramedIn(t) = FramedIn(s)
    <2> HIDE DEF s
    <2>1. QED
      BY <1>1, <1>2, <1>3, <1>4, InlineEndsWell
  <1>6. \A i \in FramedIn(s) : t[i].err = s[i].err
    <2>1. DOMAIN s = 1 .. n
      BY <1>1, LenProperties
    <2>2. \A i \in FramedIn(s) : i \in 1 .. n - 1
      BY <1>1, <1>2, <2>1 DEF FramedIn
    <2>3. QED
      BY <1>4, <2>2
  <1>7. Matched(heap', calls')
    <2> HIDE DEF s
    <2>1. QED
      BY <1>2, <1>4, <1>5, <1>6, MatchedSame DEF s
  <1>8. heap'.pending = None
    BY <1>1, <1>2 DEF Innermore
  <1>9. \A i \in 1 .. Len(Here) - 1 : /\ t[i].at = Here[i].at /\ t[i].up = Here[i].up
                                      /\ t[i].err = Here[i].err
    BY <1>4
  <1>10. Len(t) = Len(Here) /\ t[Len(t)].at \notin {"deferred", "handler", "finally"}
    BY <1>3, <1>4
  <1>11. QED
    BY <1>2, <1>4, <1>5, <1>7, <1>8, <1>9, <1>10, TurnKept
-------------------------------------------------------------------------------
\* A return, break or continue leaves its next cleanup.
LEMMA DueIs ==
    ASSUME Assumed, Due
    PROVE  /\ mode = "run" /\ heap.pending = None
           /\ Here[Len(Here)].at = "leaving" /\ Top.up # 0
           /\ Here[Len(Here)].exit # "return" => LoopOf(Here) < Top.up
           /\ Top.up \in 2 .. Len(Here) - 1 /\ Here[Top.up].up \in Nat
           /\ IsEntry(Here[Top.up])
  <1>1. Innermore(heap, Here, mode) /\ Well(Here) /\ Top = Here[Len(Here)]
    BY PlainFacts
  <1>2. /\ mode = "run" /\ heap.pending = None
        /\ Here[Len(Here)].at = "leaving" /\ Top.up # 0
        /\ Here[Len(Here)].exit # "return" => LoopOf(Here) < Top.up
    BY <1>1 DEF Due, Innermore
  <1>3. QED
    BY <1>1, <1>2, DueFacts

LEMMA DropFrameKept ==
    ASSUME Assumed, DropFrame
    PROVE  Kept
  <1> DEFINE s == Here  n == Len(s)  e == Top.up  r == [Top EXCEPT !.up = Here[Top.up].up]
             t == [s EXCEPT ![n] = r]
  <1>1. /\ Innermore(heap, s, mode) /\ Well(s) /\ s \in Seq(Regions) /\ n \in Nat /\ n > 0
        /\ Top = s[n] /\ Top \in Regions /\ heap \in Heaps
    BY PlainFacts
  <1>2. /\ mode = "run" /\ heap.pending = None /\ s[n].at = "leaving" /\ e # 0 /\ e = s[n].up
        /\ (s[n].exit # "return" => LoopOf(s) < e)
        /\ e \in 2 .. n - 1 /\ s[e].up \in Nat
    BY <1>1, DueIs DEF DropFrame
  <1>3. /\ UNCHANGED <<idle, mode>> /\ calls' = [calls EXCEPT ![Len(calls)] = t]
        /\ heap' = Left(heap, FALSE) /\ s[e].at \in {"handler", "finally"}
    BY DEF DropFrame, Turn, Stack
  <1>4. /\ r \in Regions /\ r.at = "leaving" /\ r.up = s[e].up /\ r.exit = Top.exit
    BY <1>1, <1>2 DEF Regions
  <1>5. t \in Seq(Regions) /\ Len(t) = n /\ t[n] = r /\ \A i \in 1 .. n - 1 : t[i] = s[i]
    <2>1. s \in Seq(Regions) /\ n \in 1 .. n /\ n = Len(s) /\ r \in Regions
      BY <1>1, <1>4
    <2> HIDE DEF r, s, n
    <2>2. QED
      BY <2>1
  <1> HIDE DEF t, r, e
  <1>6. Well(t) /\ FramedIn(t) = FramedIn(s) \ {e} /\ e \in FramedIn(s) /\ \A i \in FramedIn(s) : i <= e
    <2>1. s[e].at \notin Tries \ {"finally"} /\ \A i \in 1 .. n - 1 :
              /\ t[i].at = s[i].at /\ t[i].up = s[i].up /\ t[i].of = s[i].of /\ t[i].exit = s[i].exit
              /\ t[i].ran = IF i = e /\ s[e].at \in Tries \ {"finally"} THEN s[i].ran + 1 ELSE s[i].ran
      BY <1>3, <1>5 DEF Tries
    <2>2. /\ t[n].at = IF s[e].at \in Tries \ {"finally"} THEN "inline" ELSE "leaving"
          /\ t[n].at = "inline" => t[n].of = e
          /\ t[n].up = s[e].up /\ t[n].exit = s[n].exit
      BY <1>1, <1>4, <1>5, <2>1
    <2>a. /\ Well(s) /\ s[Len(s)].at = "leaving" /\ e = s[Len(s)].up /\ e # 0
          /\ (s[Len(s)].exit # "return" => LoopOf(s) < e)
          /\ t \in Seq(Regions) /\ Len(t) = Len(s)
      BY <1>1, <1>2, <1>5
    <2>b. \A i \in 1 .. Len(s) - 1 :
              /\ t[i].at = s[i].at /\ t[i].up = s[i].up /\ t[i].of = s[i].of /\ t[i].exit = s[i].exit
              /\ t[i].ran = IF i = e /\ s[e].at \in Tries \ {"finally"} THEN s[i].ran + 1 ELSE s[i].ran
      BY <2>1
    <2>c. /\ t[Len(s)].at = IF s[e].at \in Tries \ {"finally"} THEN "inline" ELSE "leaving"
          /\ t[Len(s)].at = "inline" => t[Len(s)].of = e
          /\ t[Len(s)].up = s[e].up /\ t[Len(s)].exit = s[Len(s)].exit
      BY <2>2
    <2> HIDE DEF s, n
    <2>d. LeavesPast(s, t, e)
      BY <2>a, <2>b, <2>c DEF LeavesPast
    <2>3. /\ Well(t) /\ FramedIn(t) = FramedIn(s) \ {e}
          /\ s[e].at \in {"handler", "finally"} => e \in FramedIn(s)
          /\ \A i \in FramedIn(s) : i <= e
      BY <2>a, <2>d, LeavesOne
    <2>4. QED
      BY <1>3, <2>3
  <1>7. \A i \in FramedIn(s) \ {e} : t[i].err = s[i].err
    <2>1. DOMAIN s = 1 .. n
      BY <1>1, LenProperties
    <2>2. \A i \in FramedIn(s) : i \in 1 .. n - 1
      BY <1>1, <1>2, <2>1 DEF FramedIn
    <2>3. QED
      BY <1>5, <2>2
  <1>8. /\ heap'.pending = None
        /\ heap'.handled = SubSeq(heap.handled, 1, Len(heap.handled) - 1)
    BY <1>1, <1>2, <1>3, <1>6, LastFrame, HeapFields
  <1>9. Matched(heap', calls')
    <2> HIDE DEF s
    <2>1. QED
      BY <1>3, <1>5, <1>6, <1>7, <1>8, MatchedPop DEF s
  <1>10. \A i \in 1 .. Len(Here) - 1 : /\ t[i].at = Here[i].at /\ t[i].up = Here[i].up
                                       /\ t[i].err = Here[i].err
    BY <1>5
  <1>11. Len(t) = Len(Here) /\ t[Len(t)].at \notin {"deferred", "handler", "finally"}
    BY <1>4, <1>5
  <1>12. QED
    BY <1>1, <1>2, <1>3, <1>5, <1>6, <1>8, <1>9, <1>10, <1>11, TurnKept

LEMMA InlineFinallyKept ==
    ASSUME Assumed, InlineFinally
    PROVE  Kept
  <1> DEFINE s == Here  n == Len(s)  e == Top.up
             r == [Top EXCEPT !.at = "inline", !.of = Top.up, !.up = Here[Top.up].up]
             t == [s EXCEPT ![Top.up].ran = @ + 1, ![n] = r]
  <1>1. /\ Innermore(heap, s, mode) /\ Well(s) /\ s \in Seq(Regions) /\ n \in Nat /\ n > 0
        /\ Top = s[n] /\ Top \in Regions /\ heap \in Heaps
    BY PlainFacts
  <1>2. /\ mode = "run" /\ heap.pending = None /\ s[n].at = "leaving" /\ e # 0 /\ e = s[n].up
        /\ (s[n].exit # "return" => LoopOf(s) < e)
        /\ e \in 2 .. n - 1 /\ s[e].up \in Nat
    BY <1>1, DueIs DEF InlineFinally
  <1>3. /\ UNCHANGED <<heap, idle, mode>> /\ calls' = [calls EXCEPT ![Len(calls)] = t]
        /\ s[e].at \in {"body", "else", "except"}
    BY DEF InlineFinally, Stack
  <1>4. /\ r \in Regions /\ r.at = "inline" /\ r.up = s[e].up /\ r.exit = Top.exit /\ r.of = e
    BY <1>1, <1>2 DEF Regions, Places
  <1>5. /\ t \in Seq(Regions) /\ Len(t) = n /\ t[n] = r
        /\ \A i \in 1 .. n - 1 : /\ t[i].at = s[i].at /\ t[i].up = s[i].up /\ t[i].of = s[i].of
                                 /\ t[i].exit = s[i].exit /\ t[i].err = s[i].err
                                 /\ t[i].ran = IF i = e THEN s[i].ran + 1 ELSE s[i].ran
    <2> DEFINE q == [s[e] EXCEPT !.ran = s[e].ran + 1]  u == [s EXCEPT ![e] = q]
    <2>1. s[e] \in Regions
      BY <1>1, <1>2
    <2>2. /\ q \in Regions /\ q.at = s[e].at /\ q.up = s[e].up /\ q.of = s[e].of
          /\ q.exit = s[e].exit /\ q.err = s[e].err /\ q.ran = s[e].ran + 1
      <3>1. ASSUME NEW g \in Regions, NEW k \in Nat
            PROVE  LET h == [g EXCEPT !.ran = k]
                   IN  /\ h \in Regions /\ h.at = g.at /\ h.up = g.up /\ h.of = g.of
                       /\ h.exit = g.exit /\ h.err = g.err /\ h.ran = k
        BY DEF Regions
      <3> HIDE DEF s, e
      <3>a. \A g \in Regions : g.ran \in Nat
        BY DEF Regions
      <3>2. s[e].ran + 1 \in Nat
        BY <2>1, <3>a
      <3>3. QED
        BY <2>1, <3>1, <3>2
    <2>3. t = [u EXCEPT ![n] = r]
      BY <1>1, <1>2
    <2>4. e \in 1 .. n /\ n \in 1 .. n /\ e # n
      BY <1>1, <1>2
    <2>5. s \in Seq(Regions) /\ n = Len(s)
      BY <1>1
    <2> HIDE DEF t, q, r, s, n, e
    <2>6. u \in Seq(Regions) /\ Len(u) = n /\ u[e] = q /\ \A i \in 1 .. n : i # e => u[i] = s[i]
      BY <2>2, <2>4, <2>5
    <2> HIDE DEF u
    <2>7. t \in Seq(Regions) /\ Len(t) = n /\ t[n] = r /\ \A i \in 1 .. n - 1 : t[i] = u[i]
      BY <1>1, <1>4, <2>3, <2>4, <2>6
    <2>8. \A i \in 1 .. n - 1 : i \in 1 .. n
      BY <1>1
    <2>9. \A i \in 1 .. n - 1 : t[i] = IF i = e THEN q ELSE s[i]
      BY <2>6, <2>7, <2>8
    <2>10. QED
      BY <2>2, <2>7, <2>9
  <1> HIDE DEF t, r, e
  <1>6. Well(t) /\ FramedIn(t) = FramedIn(s)
    <2>1. s[e].at \in Tries \ {"finally"} /\ \A i \in 1 .. n - 1 :
              /\ t[i].at = s[i].at /\ t[i].up = s[i].up /\ t[i].of = s[i].of /\ t[i].exit = s[i].exit
              /\ t[i].ran = IF i = e /\ s[e].at \in Tries \ {"finally"} THEN s[i].ran + 1 ELSE s[i].ran
      BY <1>3, <1>5 DEF Tries
    <2>2. /\ t[n].at = IF s[e].at \in Tries \ {"finally"} THEN "inline" ELSE "leaving"
          /\ t[n].at = "inline" => t[n].of = e
          /\ t[n].up = s[e].up /\ t[n].exit = s[n].exit
      BY <1>1, <1>4, <1>5, <2>1
    <2>3. e \notin FramedIn(s)
      BY <1>3 DEF FramedIn
    <2>a. /\ Well(s) /\ s[Len(s)].at = "leaving" /\ e = s[Len(s)].up /\ e # 0
          /\ (s[Len(s)].exit # "return" => LoopOf(s) < e)
          /\ t \in Seq(Regions) /\ Len(t) = Len(s)
      BY <1>1, <1>2, <1>5
    <2>b. \A i \in 1 .. Len(s) - 1 :
              /\ t[i].at = s[i].at /\ t[i].up = s[i].up /\ t[i].of = s[i].of /\ t[i].exit = s[i].exit
              /\ t[i].ran = IF i = e /\ s[e].at \in Tries \ {"finally"} THEN s[i].ran + 1 ELSE s[i].ran
      BY <2>1
    <2>c. /\ t[Len(s)].at = IF s[e].at \in Tries \ {"finally"} THEN "inline" ELSE "leaving"
          /\ t[Len(s)].at = "inline" => t[Len(s)].of = e
          /\ t[Len(s)].up = s[e].up /\ t[Len(s)].exit = s[Len(s)].exit
      BY <2>2
    <2> HIDE DEF s, n
    <2>d. LeavesPast(s, t, e)
      BY <2>a, <2>b, <2>c DEF LeavesPast
    <2>4. /\ Well(t) /\ FramedIn(t) = FramedIn(s) \ {e}
          /\ s[e].at \in {"handler", "finally"} => e \in FramedIn(s)
          /\ \A i \in FramedIn(s) : i <= e
      BY <2>a, <2>d, LeavesOne
    <2>5. QED
      BY <2>3, <2>4
  <1>7. \A i \in FramedIn(s) : t[i].err = s[i].err
    <2>1. DOMAIN s = 1 .. n
      BY <1>1, LenProperties
    <2>2. \A i \in FramedIn(s) : i \in 1 .. n - 1
      BY <1>1, <1>2, <2>1 DEF FramedIn
    <2>3. QED
      BY <1>5, <2>2
  <1>8. Matched(heap', calls')
    <2> HIDE DEF s
    <2>1. QED
      BY <1>3, <1>5, <1>6, <1>7, MatchedSame DEF s
  <1>9. \A i \in 1 .. Len(Here) - 1 : /\ t[i].at = Here[i].at /\ t[i].up = Here[i].up
                                      /\ t[i].err = Here[i].err
    BY <1>5
  <1>10. /\ Len(t) = Len(Here) /\ t[Len(t)].at \notin {"deferred", "handler", "finally"}
         /\ Top.at \notin {"function", "generator"}
    BY <1>1, <1>2, <1>4, <1>5
  <1>11. QED
    BY <1>2, <1>3, <1>5, <1>6, <1>8, <1>9, <1>10, TurnKept
-------------------------------------------------------------------------------
\* A deferred block at the end of a function that has left all its cleanups is below
\* every cleanup that it enters.
LEMMA NoneDeferred ==
    ASSUME NEW s, Well(s), ~Deferring(s), Inner(s) # 0
    PROVE  \A j \in Inner(s) + 1 .. Len(s) : s[j].at # "deferred"
  <1>1. s \in Seq(Regions) /\ Len(s) \in Nat /\ Inner(s) \in 0 .. Len(s)
        /\ \A i \in 1 .. Len(s) : Inner(s) >= i \/ Inner(s) <= s[i].up
    BY InnerFacts DEF Well
  <1>2. SUFFICES ASSUME NEW j \in Inner(s) + 1 .. Len(s), s[j].at = "deferred" PROVE FALSE
    OBVIOUS
  <1>3. j \in 1 .. Len(s)
    BY <1>1
  <1>4. s[j].up = 0
    BY <1>2, <1>3 DEF Deferring
  <1>5. QED
    BY <1>1, <1>3, <1>4

LEMMA FinishKept ==
    ASSUME Assumed, NEW k \in 1 .. Len(Here), NEW h, Ending(Here, k), Finish(h, k), idle' = idle,
           h = IF Here[Inner(Here)].at = "handler" THEN Left(heap, FALSE) ELSE heap,
           heap.pending = None \/ ~Deferring(Here),
           \A j \in Inner(Here) + 1 .. Len(Here) : Here[j].at # "deferred"
    PROVE  Kept
  <1> DEFINE s == Here  F == FramedIn(s)  e == k + 1  x == h.pending  t == Finished(s, k, x)
             caught == s[Inner(s)].at = "handler"
  <1>1. /\ Innermore(heap, s, mode) /\ Well(s) /\ s \in Seq(Regions) /\ Len(s) \in Nat
        /\ heap \in Heaps /\ heap.pending \in Errors \cup {None}
        /\ heap.handled \in Seq(Errors \cup {None}) /\ k \in Nat /\ e \in Nat
    BY PlainFacts
  <1>2. Good(heap)
    BY <1>1 DEF Assumed, OwnersCounted, Good
  <1>3. h \in Heaps
    BY <1>1, <1>2, LeftGood DEF Good
  <1>4. x \in Errors \cup {None}
    BY <1>3 DEF Heaps
  <1>5. /\ heap'.handled = Append(h.handled, x) /\ heap'.pending = None
        /\ calls' = [calls EXCEPT ![Len(calls)] = t] /\ mode' = "run"
    BY <1>3, HeapFields DEF Finish, Stack, Keep, Finished
  <1> HIDE DEF t
  <1>6. /\ Well(t) /\ Len(t) = k /\ t[k].at = "finally" /\ t[k].err = x
        /\ \A i \in 1 .. k - 1 : t[i] = s[i]
        /\ FramedIn(t) = {i \in F : i < k} \cup {k}
        /\ ~caught => \A i \in F : i < k
        /\ caught => e \in F /\ \A i \in F : i < k \/ i = e
        /\ \A i \in k + 1 .. Len(s) : s[i].at \in Tries => s[i].ran = 1
    <2> HIDE DEF s, x
    <2>1. QED
      BY <1>1, <1>4, FinishIsWell DEF t, s
  <1>7. t \in Seq(Regions) /\ F \in SUBSET Nat /\ F \subseteq 1 .. Len(s)
    <2>1. DOMAIN s = 1 .. Len(s)
      BY <1>1, LenProperties
    <2>2. QED
      BY <1>6, <2>1 DEF Well, FramedIn
  <1>8. \A i \in F : i < k => t[i].err = s[i].err
    <2>1. \A i \in F : i < k => i \in 1 .. k - 1
      BY <1>1, <1>7
    <2>2. QED
      BY <1>6, <2>1
  <1>9. Matched(heap', calls') /\ x = heap.pending
    <2>1. CASE ~caught
      <3>1. h = heap /\ FramedIn(t) = F \cup {k} /\ \A i \in F : i < k /\ t[i].err = s[i].err
        BY <1>6, <1>8, <2>1
      <3>2. heap'.handled = Append(heap.handled, x)
        BY <1>5, <3>1
      <3> HIDE DEF x
      <3>3. Matched(heap', calls')
        BY <1>1, <1>4, <1>5, <1>6, <1>7, <3>1, <3>2, MatchedPush
      <3>4. QED
        BY <3>1, <3>3 DEF x
    <2>2. CASE caught
      <3>1. h = Left(heap, FALSE) /\ e \in F /\ \A i \in F : i <= e
        BY <1>1, <1>6, <1>7, <2>2
      <3>2. heap.handled # << >>
        BY <3>1, LastFrame
      <3>3. /\ h.handled = SubSeq(heap.handled, 1, Len(heap.handled) - 1)
            /\ h.pending = heap.pending
        <4>1. /\ Left(heap, FALSE).handled = SubSeq(heap.handled, 1, Len(heap.handled) - 1)
              /\ Left(heap, FALSE).pending = heap.pending
          BY <1>1, <3>2, HeapFields
        <4>2. QED
          BY <3>1, <4>1
      <3>4. heap'.handled = Append(SubSeq(heap.handled, 1, Len(heap.handled) - 1), x)
        BY <1>5, <3>3
      <3>5. \A i \in F \ {e} : i < k /\ t[i].err = s[i].err
        BY <1>6, <1>8, <2>2
      <3>6. FramedIn(t) = (F \ {e}) \cup {k}
        <4>1. \A i \in F : i < k <=> i # e
          BY <1>1, <1>6, <1>7, <2>2
        <4>2. QED
          BY <1>6, <4>1
      <3>7. Matched(heap', calls')
        <4>1. t \in Seq(Regions) /\ calls' = [calls EXCEPT ![Len(calls)] = t]
          BY <1>5, <1>7
        <4>2. e \in FramedIn(Here) /\ (\A i \in FramedIn(Here) : i <= e) /\ k \in Nat
          BY <1>1, <3>1
        <4>3. FramedIn(t) = (FramedIn(Here) \ {e}) \cup {k} /\ t[k].err = x
          BY <1>6, <3>6
        <4>4. \A i \in FramedIn(Here) \ {e} : i < k /\ t[i].err = Here[i].err
          BY <3>5
        <4> HIDE DEF x, e, s
        <4>5. QED
          BY <1>4, <3>4, <4>1, <4>2, <4>3, <4>4, MatchedTurn
      <3>8. QED
        BY <3>3, <3>7 DEF x
    <2>3. QED
      BY <2>1, <2>2
  <1>10. Untroubled(t)
    <2>0. \A i \in 1 .. k : i = k \/ (i \in 1 .. k - 1 /\ i <= Len(s))
      BY <1>1
    <2>1. CASE heap.pending = None
      <3>1. \A i \in 1 .. Len(t) :
               /\ t[i].at \in {"deferred", "handler"} =>
                     i <= Len(s) /\ s[i].at = t[i].at /\ s[i].up = t[i].up
               /\ t[i].at = "finally" =>
                     t[i].err = None \/ (i <= Len(s) /\ s[i].at = "finally" /\ s[i].err = t[i].err)
        BY <1>1, <1>6, <1>9, <2>0, <2>1
      <3> HIDE DEF s
      <3>2. QED
        BY <1>1, <1>7, <3>1, UntroubledKept DEF Innermore
    <2>2. CASE ~Deferring(s)
      <3>1. \A j \in 1 .. Len(t) : t[j].at = "deferred" => t[j].up = 0
        BY <1>6, <2>0, <2>2 DEF Deferring
      <3>2. QED
        BY <3>1 DEF Untroubled
    <2>3. QED
      BY <2>1, <2>2
  <1>11. Innermore(heap', t, mode')
    BY <1>5, <1>6, <1>10 DEF Innermore
  <1>12. t[1].at = s[1].at
    <2>1. k # 1
      <3>1. CASE s[k].at \in {"body", "else"}
        BY <1>1, <3>1 DEF Well
      <3>2. CASE Inner(s) = k + 1 /\ s[k + 1].at = "handler"
        <4>1. k + 1 \in 1 .. Len(s)
          BY <1>1, <3>2, InnerFacts
        <4>2. s[k + 1 - 1].at = "except" /\ k + 1 - 1 = k
          BY <1>1, <3>2, <4>1 DEF Well, Placed, Leads
        <4>3. QED
          BY <1>1, <4>2 DEF Well
      <3>3. QED
        BY <3>1, <3>2 DEF Ending
    <2>2. 1 \in 1 .. k - 1
      BY <1>1, <2>1
    <2>3. QED
      BY <1>6, <2>2
  <1>13. /\ Plain(heap, calls, idle, mode)
         /\ \A i \in Len(t) + 1 .. Len(Here) : Here[i].at \in Tries => Here[i].ran = 1
    BY <1>6 DEF Assumed
  <1>14. QED
    BY <1>5, <1>9, <1>11, <1>12, <1>13, StackIsKept

\* A pending error: in no deferred block that could still be in a try statement
LEMMA FailedFacts ==
    ASSUME Assumed, Failed
    PROVE  /\ ~Deferring(Here) /\ mode = "check" /\ heap.pending \in Errors
           /\ Inner(Here) # 0 => /\ \A j \in Inner(Here) + 1 .. Len(Here) : Here[j].at # "deferred"
                                 /\ Inner(Here) \in 2 .. Len(Here) /\ Target = Here[Inner(Here)]
  <1>1. Innermore(heap, Here, mode) /\ Well(Here) /\ heap.pending \in Errors \cup {None}
    BY PlainFacts
  <1>2. ~Deferring(Here) /\ mode = "check" /\ heap.pending \in Errors
    BY <1>1 DEF Failed, Innermore
  <1>3. Inner(Here) # 0 => \A j \in Inner(Here) + 1 .. Len(Here) : Here[j].at # "deferred"
    BY <1>1, <1>2, NoneDeferred
  <1>4. Inner(Here) # 0 => Inner(Here) \in 2 .. Len(Here)
    BY <1>1, InnerFacts
  <1>5. QED
    BY <1>2, <1>3, <1>4 DEF Target

LEMMA TopIsInner ==
    ASSUME Assumed, Running, Top.at \in Tries \cup {"handler"}
    PROVE  /\ Inner(Here) = Len(Here) /\ Here[Len(Here)] = Top /\ heap.pending = None
           /\ Len(Here) \in Nat /\ Len(Here) > 0
           /\ \A j \in Inner(Here) + 1 .. Len(Here) : Here[j].at # "deferred"
  <1>1. Innermore(heap, Here, mode) /\ Len(Here) \in Nat /\ Len(Here) > 0 /\ Top = Here[Len(Here)]
    BY PlainFacts
  <1>2. Inner(Here) = Len(Here)
    BY DEF Inner, Top
  <1>3. QED
    BY <1>1, <1>2 DEF Innermore, Running

\* The region of a handler lies directly above its try statement.
LEMMA HandlerUp ==
    ASSUME NEW s, Well(s), NEW j \in 1 .. Len(s), s[j].at = "handler"
    PROVE  s[j].up = j - 1 /\ s[j].up \in 1 .. Len(s)
  <1>1. s \in Seq(Regions) /\ Leads(s, j)
    BY DEF Well, Placed
  <1>2. QED
    BY <1>1 DEF Leads

LEMMA EndElseKept ==
    ASSUME Assumed, EndElse
    PROVE  Kept
  <1>1. Running /\ Top.at = "else" /\ Finish(heap, Len(Here)) /\ idle' = idle
    BY DEF EndElse
  <1>2. /\ Inner(Here) = Len(Here) /\ Here[Len(Here)] = Top /\ heap.pending = None
        /\ Len(Here) \in Nat /\ Len(Here) > 0
        /\ \A j \in Inner(Here) + 1 .. Len(Here) : Here[j].at # "deferred"
    BY <1>1, TopIsInner DEF Tries
  <1>3. Ending(Here, Len(Here)) /\ Here[Inner(Here)].at # "handler" /\ Len(Here) \in 1 .. Len(Here)
    BY <1>1, <1>2 DEF Ending
  <1>4. QED
    BY <1>1, <1>2, <1>3, FinishKept

LEMMA EndHandlerKept ==
    ASSUME Assumed, EndHandler
    PROVE  Kept
  <1>1. Running /\ Top.at = "handler" /\ Finish(Left(heap, FALSE), Top.up) /\ idle' = idle
    BY DEF EndHandler
  <1>2. /\ Inner(Here) = Len(Here) /\ Here[Len(Here)] = Top /\ heap.pending = None
        /\ Len(Here) \in Nat /\ Len(Here) > 0
        /\ \A j \in Inner(Here) + 1 .. Len(Here) : Here[j].at # "deferred"
    BY <1>1, TopIsInner
  <1>3. Top.up = Len(Here) - 1 /\ Top.up \in 1 .. Len(Here)
    BY <1>1, <1>2, HandlerUp, PlainFacts
  <1>4. Ending(Here, Top.up) /\ Here[Inner(Here)].at = "handler"
    BY <1>1, <1>2, <1>3 DEF Ending
  <1>5. QED
    BY <1>1, <1>2, <1>3, <1>4, FinishKept

LEMMA PassByKept ==
    ASSUME Assumed, PassBy
    PROVE  Kept
  <1> DEFINE k == Inner(Here)
  <1>1. /\ Failed /\ k # 0 /\ Target.at \in {"body", "else"}
        /\ Finish(heap, k) /\ idle' = idle
    BY DEF PassBy
  <1>2. /\ ~Deferring(Here) /\ k \in 1 .. Len(Here) /\ Target = Here[k]
        /\ \A j \in k + 1 .. Len(Here) : Here[j].at # "deferred"
    BY <1>1, FailedFacts
  <1>3. Ending(Here, k) /\ Here[k].at # "handler"
    BY <1>1, <1>2 DEF Ending
  <1>4. QED
    BY <1>1, <1>2, <1>3, FinishKept

LEMMA HandlerFailsKept ==
    ASSUME Assumed, HandlerFails
    PROVE  Kept
  <1> DEFINE e == Inner(Here)  k == Target.up
  <1>1. /\ Failed /\ e # 0 /\ Target.at = "handler"
        /\ Finish(Left(heap, FALSE), k) /\ idle' = idle
    BY DEF HandlerFails
  <1>2. /\ ~Deferring(Here) /\ e \in 1 .. Len(Here) /\ Target = Here[e]
        /\ \A j \in e + 1 .. Len(Here) : Here[j].at # "deferred"
    BY <1>1, FailedFacts
  <1>3. k = e - 1 /\ k \in 1 .. Len(Here)
    BY <1>1, <1>2, HandlerUp, PlainFacts
  <1>4. Ending(Here, k) /\ Here[e].at = "handler"
    BY <1>1, <1>2, <1>3 DEF Ending
  <1>5. QED
    BY <1>1, <1>2, <1>3, <1>4, FinishKept
-------------------------------------------------------------------------------
LEMMA EnterHandlerKept ==
    ASSUME Assumed, EnterHandler
    PROVE  Kept
  <1> DEFINE s == Here  F == FramedIn(s)  k == Inner(s)  x == heap.pending  t == Catching(s, k, x)
  <1>1. /\ Innermore(heap, s, mode) /\ Well(s) /\ s \in Seq(Regions) /\ Len(s) \in Nat
        /\ heap \in Heaps
    BY PlainFacts
  <1>2. Failed /\ k # 0 /\ Caught
    BY DEF EnterHandler
  <1>3. /\ ~Deferring(s) /\ x \in Errors /\ k \in 2 .. Len(s) /\ s[k].at = "body"
        /\ \A j \in k + 1 .. Len(s) : s[j].at # "deferred"
    BY <1>2, FailedFacts DEF Caught
  <1>4. /\ heap'.handled = Append(heap.handled, x) /\ heap'.pending = None
        /\ calls' = [calls EXCEPT ![Len(calls)] = t] /\ mode' = "run" /\ idle' = idle
    BY <1>1, HeapFields DEF EnterHandler, Stack, Keep, Catching
  <1> HIDE DEF t
  <1>5. /\ Well(t) /\ Len(t) = k + 1 /\ t[k].at = "except"
        /\ t[k + 1].at = "handler" /\ t[k + 1].err = x
        /\ \A i \in 1 .. k - 1 : t[i] = s[i]
        /\ FramedIn(t) = F \cup {k + 1} /\ \A i \in F : i < k
        /\ \A i \in k + 1 .. Len(s) : s[i].at \in Tries => s[i].ran = 1
    <2> HIDE DEF s, x
    <2>1. QED
      BY <1>1, <1>2, <1>3, HandlerIsWell DEF t
  <1>6. /\ t \in Seq(Regions) /\ F \in SUBSET Nat /\ F \subseteq 1 .. Len(s) /\ k \in Nat
        /\ k + 1 \in Nat /\ k > 1
    <2>1. DOMAIN s = 1 .. Len(s)
      BY <1>1, LenProperties
    <2>2. QED
      BY <1>1, <1>3, <1>5, <2>1 DEF Well, FramedIn
  <1>7. \A i \in FramedIn(Here) : i < k + 1 /\ t[i].err = Here[i].err
    <2>1. \A i \in F : i \in 1 .. k - 1
      BY <1>1, <1>5, <1>6
    <2>2. QED
      BY <1>5, <1>6, <2>1
  <1>8. Matched(heap', calls')
    <2>1. FramedIn(t) = FramedIn(Here) \cup {k + 1} /\ t[k + 1].err = x /\ x \in Errors \cup {None}
      BY <1>3, <1>5
    <2> HIDE DEF k, x, s
    <2>2. QED
      BY <1>4, <1>6, <1>7, <2>1, MatchedPush
  <1>9. Untroubled(t) /\ t[1].at = Here[1].at
    <2>1. \A j \in 1 .. Len(t) : j \in {k, k + 1} \/ j \in 1 .. k - 1
      BY <1>5, <1>6
    <2>2. \A j \in 1 .. Len(t) : t[j].at = "deferred" => t[j].up = 0
      <3> SUFFICES ASSUME NEW j \in 1 .. Len(t), t[j].at = "deferred" PROVE t[j].up = 0
        OBVIOUS
      <3>1. j \in 1 .. k - 1
        BY <1>5, <2>1
      <3>2. j \in 1 .. Len(s) /\ t[j] = s[j]
        BY <1>3, <1>5, <1>6, <3>1
      <3>3. QED
        BY <1>3, <3>2 DEF Deferring
    <2>3. 1 \in 1 .. k - 1
      BY <1>6
    <2>4. QED
      BY <1>5, <2>2, <2>3 DEF Untroubled
  <1>10. Innermore(heap', t, mode')
    BY <1>4, <1>5, <1>9 DEF Innermore
  <1>11. /\ Plain(heap, calls, idle, mode)
         /\ \A i \in Len(t) + 1 .. Len(Here) : Here[i].at \in Tries => Here[i].ran = 1
    <2>1. \A i \in Len(t) + 1 .. Len(s) : i \in k + 1 .. Len(s)
      BY <1>1, <1>5, <1>6
    <2>2. QED
      BY <1>5, <2>1 DEF Assumed
  <1> HIDE DEF s
  <1>12. QED
    BY <1>4, <1>8, <1>9, <1>10, <1>11, StackIsKept DEF s

\* A finally body ends or fails.
LEMMA FinallyKept ==
    ASSUME Assumed, NEW restore \in BOOLEAN, heap' = Left(heap, restore),
           NEW e, e = Inner(Here), e # 0, Here[e].at = "finally",
           \A j \in e + 1 .. Len(Here) : Here[j].at # "deferred",
           Stack(SubSeq(Here, 1, e - 1)), idle' = idle, mode' = "check",
           \/ restore /\ heap.pending = None /\ e = Len(Here)
           \/ ~restore /\ ~Deferring(Here)
    PROVE  Kept
  <1> DEFINE s == Here  F == FramedIn(s)  m == e - 1  t == SubSeq(s, 1, m)
  <1>1. /\ Innermore(heap, s, mode) /\ Well(s) /\ s \in Seq(Regions) /\ Len(s) \in Nat
        /\ heap \in Heaps
    BY PlainFacts
  <1>2. /\ m \in 1 .. Len(s) /\ Well(t) /\ s[m].at # "leaving"
        /\ e \in F /\ \A i \in F : i <= e
        /\ FramedIn(t) = F \ {e}
        /\ \A i \in e .. Len(s) : s[i].at \in Tries => s[i].ran = 1
    <2> HIDE DEF s
    <2>1. QED
      BY <1>1, FinallyGoes DEF s
  <1>3. heap.handled # << >> /\ heap.handled[Len(heap.handled)] = s[e].err
    BY <1>2, LastFrame
  <1>4. /\ heap'.handled = SubSeq(heap.handled, 1, Len(heap.handled) - 1)
        /\ ~restore => heap'.pending = heap.pending
        /\ restore /\ heap.pending = None => heap'.pending = s[e].err
    <2>1. CASE restore
      <3>1. heap' = Left(heap, TRUE)
        BY <2>1
      <3>2. QED
        <4>1. /\ Left(heap, TRUE).handled = SubSeq(heap.handled, 1, Len(heap.handled) - 1)
              /\ heap.pending = None => Left(heap, TRUE).pending = heap.handled[Len(heap.handled)]
          BY <1>1, <1>3, HeapFields
        <4>2. QED
          BY <1>3, <2>1, <3>1, <4>1
    <2>2. CASE ~restore
      <3>1. heap' = Left(heap, FALSE)
        BY <2>2
      <3>2. QED
        <4>1. /\ Left(heap, FALSE).handled = SubSeq(heap.handled, 1, Len(heap.handled) - 1)
              /\ Left(heap, FALSE).pending = heap.pending
          BY <1>1, <1>3, HeapFields
        <4>2. QED
          BY <2>2, <3>1, <4>1
    <2>3. QED
      BY <2>1, <2>2
  <1>5. t \in Seq(Regions) /\ Len(t) = m /\ (\A i \in 1 .. m : t[i] = s[i]) /\ e = m + 1 /\ e \in 1 .. Len(s)
    <2>1. e \in 1 .. Len(s)
      <3>1. DOMAIN s = 1 .. Len(s)
        BY <1>1, LenProperties
      <3>2. QED
        BY <1>2, <3>1 DEF FramedIn
    <2>2. QED
      BY <1>1, <1>2, <2>1
  <1>6. \A i \in F \ {e} : t[i].err = s[i].err
    <2>1. \A i \in FramedIn(t) : i \in 1 .. m
      <3>1. DOMAIN t = 1 .. m
        BY <1>5, LenProperties
      <3>2. QED
        BY <3>1 DEF FramedIn
    <2>2. QED
      BY <1>2, <1>5, <2>1
  <1>7. Matched(heap', calls')
    <2>1. calls' = [calls EXCEPT ![Len(calls)] = t]
      BY DEF Stack
    <2> HIDE DEF t, s
    <2>2. QED
      BY <1>2, <1>4, <1>5, <1>6, <2>1, MatchedPop DEF s
  <1>8. Deferring(t) => heap'.pending = None
    <2> SUFFICES ASSUME NEW j \in 1 .. m, t[j].at = "deferred", t[j].up # 0
                 PROVE  heap'.pending = None
      BY <1>5 DEF Deferring
    <2>1. j \in 1 .. Len(s) /\ s[j].at = "deferred" /\ s[j].up # 0 /\ e \in j + 1 .. Len(s)
      BY <1>1, <1>2, <1>5
    <2>2. Deferring(s) /\ s[e].err = None
      BY <1>1, <2>1 DEF Deferring, Innermore, Untroubled
    <2>3. QED
      BY <1>4, <2>2
  <1>9. \A i \in m + 1 .. Len(Here) : Here[i].at \in Tries => Here[i].ran = 1
    BY <1>2, <1>5
  <1>10. /\ m \in 1 .. Len(Here) /\ Stack(SubSeq(Here, 1, m)) /\ Well(SubSeq(Here, 1, m))
         /\ mode' = "run" => heap'.pending = None
         /\ mode' = "check" => Here[m].at # "leaving"
         /\ Deferring(SubSeq(Here, 1, m)) => heap'.pending = None
    BY <1>2, <1>8
  <1> HIDE DEF m
  <1>11. QED
    BY <1>7, <1>9, <1>10, CutKept

LEMMA EndFinallyKept ==
    ASSUME Assumed, EndFinally
    PROVE  Kept
  <1>1. /\ Running /\ Top.at = "finally" /\ heap' = Left(heap, TRUE) /\ Stack(SubSeq(Here, 1, Len(Here) - 1))
        /\ mode' = "check" /\ idle' = idle
    BY DEF EndFinally, Front
  <1>2. /\ Inner(Here) = Len(Here) /\ Here[Len(Here)] = Top /\ heap.pending = None
        /\ Len(Here) \in Nat /\ Len(Here) > 0
        /\ \A j \in Inner(Here) + 1 .. Len(Here) : Here[j].at # "deferred"
    BY <1>1, TopIsInner DEF Tries
  <1>3. Len(Here) # 0
    BY <1>2
  <1>4. QED
    BY <1>1, <1>2, <1>3, FinallyKept

LEMMA FinallyFailsKept ==
    ASSUME Assumed, FinallyFails
    PROVE  Kept
  <1> DEFINE e == Inner(Here)
  <1>1. /\ Failed /\ e # 0 /\ Target.at = "finally" /\ heap' = Left(heap, FALSE)
        /\ Stack(SubSeq(Here, 1, e - 1)) /\ UNCHANGED <<idle, mode>>
    BY DEF FinallyFails, Keep
  <1>2. /\ ~Deferring(Here) /\ mode = "check" /\ Target = Here[e]
        /\ \A j \in e + 1 .. Len(Here) : Here[j].at # "deferred"
    BY <1>1, FailedFacts
  <1>3. Here[e].at = "finally" /\ idle' = idle /\ mode' = "check"
    BY <1>1, <1>2
  <1> HIDE DEF e
  <1>4. QED
    BY <1>1, <1>2, <1>3, FinallyKept DEF e
-------------------------------------------------------------------------------
\* Each step of a plain program keeps the invariant and leaves no try statement whose
\* finally body has not run once.
LEMMA StepsAreKept ==
    ASSUME Assumed, Next
    PROVE  Kept
  <1>1. CASE (\E catches \in SUBSET Types : OpenTry(catches)) \/ OpenLoop
    BY <1>1, OpenKept
  <1>2. CASE (\E t \in Types : Raise(t)) \/ Reraise
    BY <1>2, RaiseKept
  <1>3. CASE \E checked \in BOOLEAN : Call(checked)
    BY <1>3, CallKept
  <1>4. CASE \E exit \in {"break", "continue"} : Break(exit)
    BY <1>4, BreakKept
  <1>5. CASE LoopEnds \/ Defer
    BY <1>5, LoopEndsKept, DeferKept
  <1>6. CASE Resume \/ Yield
    BY <1>6, ResumeKept, YieldKept
  <1>7. CASE Return \/ FallOff
    BY <1>7, ReturnKept
  <1>8. CASE DropFrame \/ InlineFinally \/ InlineEnds
    BY <1>8, DropFrameKept, InlineFinallyKept, InlineEndsKept
  <1>9. CASE Leaves
    BY <1>9, ReturnLeavesKept, BreakLeavesKept
  <1>10. CASE DeferredEnds \/ LeaveFunction
    BY <1>10, DeferredEndsKept
  <1>11. CASE EndBody \/ EndElse \/ EndHandler \/ EndFinally
    BY <1>11, EndBodyKept, EndElseKept, EndHandlerKept, EndFinallyKept
  <1>12. CASE NoError \/ Over
    BY <1>12, IdleKept
  <1>13. CASE EnterHandler \/ PassBy \/ HandlerFails \/ FinallyFails
    BY <1>13, EnterHandlerKept, PassByKept, HandlerFailsKept, FinallyFailsKept
  <1>14. QED
    BY <1>1, <1>2, <1>3, <1>4, <1>5, <1>6, <1>7, <1>8, <1>9, <1>10, <1>11, <1>12, <1>13 DEF Next

\* The inductive invariant of plain programs.
FramesInv == habit = "plain" => Plain(heap, calls, idle, mode)

LEMMA FramesInvHolds == Spec => [](IInv /\ FramesInv)
  <1>1. Init => FramesInv
    <2> SUFFICES ASSUME Init PROVE Plain(heap, calls, idle, mode)
      BY DEF FramesInv
    <2> DEFINE s == <<Region("function", 0)>>
    <2>1. /\ Well(s) /\ FramedIn(s) = {} /\ Untroubled(s)
          /\ s[1].at = "function" /\ Len(s) = 1
      BY FreshIsWell, RegionIs DEF Places
    <2>2. /\ heap = NoErrors /\ calls = <<s>> /\ idle = << >> /\ mode = "run"
      BY DEF Init
    <2> HIDE DEF s
    <2>3. heap.pending = None /\ heap.handled = << >>
      BY <2>2 DEF NoErrors
    <2>4. s \in Seq(Regions)
      BY <2>1 DEF Well
    <2>5. /\ calls \in Seq(Seq(Regions)) /\ calls # << >> /\ Len(calls) = 1 /\ calls[1] = s
      BY <2>2, <2>4
    <2>6. Others(calls, idle)
      BY <2>1, <2>2, <2>5 DEF Others
    <2>7. Innermore(heap, calls[Len(calls)], mode)
      BY <2>1, <2>2, <2>3, <2>5 DEF Innermore
    <2>8. Framed(calls) = {}
      <3>1. \A p : p \in Framed(calls) <=> \E c \in 1 .. Len(calls) : \E i \in FramedIn(calls[c]) : p = <<c, i>>
        BY <2>5, FramedIs
      <3>2. \A c \in 1 .. Len(calls) : FramedIn(calls[c]) = {}
        BY <2>1, <2>5
      <3>3. QED
        BY <3>1, <3>2
    <2>9. Matched(heap, calls)
      <3>1. IsFiniteSet({}) /\ Cardinality({}) = 0 /\ Len(<< >>) = 0
        BY FS_EmptySet
      <3>2. QED
        BY <2>3, <2>8, <3>1 DEF Matched, Matches
    <2>10. QED
      BY <2>6, <2>7, <2>9 DEF Plain
  <1>2. IInv /\ FramesInv /\ [Next]_vars => FramesInv'
    <2> SUFFICES ASSUME IInv, FramesInv, [Next]_vars PROVE FramesInv'
      OBVIOUS
    <2>1. CASE UNCHANGED vars
      BY <2>1 DEF vars, FramesInv
    <2>2. CASE Next
      <3>1. habit' = habit
        BY <2>2, ModeSteps DEF IInv
      <3>2. CASE habit = "plain"
        <4>1. Assumed
          BY <3>2 DEF Assumed, FramesInv, IInv
        <4>2. Kept
          BY <2>2, <4>1, StepsAreKept
        <4>3. QED
          BY <4>2 DEF Kept, FramesInv
      <3>3. QED
        BY <3>1, <3>2 DEF FramesInv
    <2>3. QED
      BY <2>1, <2>2
  <1>3. QED
    BY <1>1, <1>2, IInvInit, IInvNext, PTL DEF Spec

\* In a plain program the frames of the runtime are those of the handlers and finally
\* bodies that control is in, in order, each with its error.
THEOREM FramesAreMatched == Spec => []FramesMatch
  <1>1. FramesInv => FramesMatch
    BY DEF FramesInv, FramesMatch, Plain, Matched
  <1>2. QED
    BY <1>1, FramesInvHolds, PTL

\* In a plain program a try statement that control leaves, by its end, a return, break,
\* continue or an error, has started its finally body once.
THEOREM FinallyRunsOnce == Spec => FinallyOnce
  <1> DEFINE Once ==
        \A c \in DOMAIN calls : \A i \in DOMAIN calls[c] :
         LET region == calls[c][i]
             gone   == (c \notin DOMAIN calls' /\ idle' # calls[c])
                       \/ (c \in DOMAIN calls' /\ i \notin DOMAIN calls'[c])
         IN habit = "plain" /\ region.at \in Tries /\ gone => region.ran = 1
  <1>1. IInv /\ FramesInv /\ [Next]_vars => [Once]_vars
    <2> SUFFICES ASSUME IInv, FramesInv, Next PROVE Once
      OBVIOUS
    <2>1. CASE habit # "plain"
      BY <2>1
    <2>2. CASE habit = "plain"
      <3>1. Assumed
        BY <2>2 DEF Assumed, FramesInv, IInv
      <3>2. LeftOnce(calls, calls', idle')
        BY <3>1, StepsAreKept DEF Kept
      <3>3. QED
        BY <3>2 DEF LeftOnce
    <2>3. QED
      BY <2>1, <2>2
  <1>2. Spec => [][Once]_vars
    BY <1>1, FramesInvHolds, PTL DEF Spec
  <1>3. QED
    BY <1>2 DEF FinallyOnce
-------------------------------------------------------------------------------
\* The keys a file imports, as the requests on the stack; the files that take part
Keys(f) == ToSet(program.imports[f])
Wanting(f) == {<<f, key>> : key \in Keys(f)}
Parts(l) == {Main} \cup {l[i].file : i \in DOMAIN l}
KeysThere == UNION {Keys(f) : f \in program.files}
Loads == [key : KeysThere, file : program.files]
Bound(l, key) == \E i \in DOMAIN l : l[i].key = key

\* What loadImports owes: an import is bound, reported, or still pending.
Answered(l, miss, f, key) == \/ Bound(l, key)
                             \/ <<f, key>> \in miss

LoadTyped == /\ program \in SourceTrees
             /\ loaded \in Seq(Loads)
             /\ pending \in Seq(UNION {Wanting(f) : f \in Parts(loaded)})
             /\ phase \in {"loading", "checking", "forcing", "done"}
NothingForgotten == \A f \in Parts(loaded) : \A key \in Keys(f) :
                        Answered(loaded, missing, f, key) \/ <<f, key>> \in ToSet(pending)
LoadEnds == phase # "loading" => pending = << >>

LoadInv == LoadTyped /\ NothingForgotten /\ LoadEnds

LEMMA SeqElements ==
    ASSUME NEW S, NEW s \in Seq(S), s # << >>
    PROVE  /\ Front(s) \in Seq(S) /\ Last(s) \in S
           /\ \A x \in ToSet(s) : x \in ToSet(Front(s)) \/ x = Last(s)
  <1> DEFINE n == Len(s)
  <1>1. n \in Nat /\ n # 0
    BY EmptySeq
  <1>2. Front(s) = SubSeq(s, 1, n - 1) /\ Last(s) = s[n]
    BY DEF Front, Last
  <1>3. Front(s) \in Seq(S) /\ Len(Front(s)) = n - 1 /\ \A i \in 1 .. n - 1 : Front(s)[i] = s[i]
    <2>1. /\ SubSeq(s, 1, n - 1) \in Seq(S) /\ Len(SubSeq(s, 1, n - 1)) = n - 1
          /\ \A i \in 1 .. n - 1 : SubSeq(s, 1, n - 1)[i] = s[i]
      <3> DEFINE m == n - 1
      <3>1. \A i \in 1 .. n : s[i] \in S
        OBVIOUS
      <3> HIDE DEF n
      <3>2. m \in Int /\ (1 <= m \/ m = 0) /\ m - 1 + 1 = m /\ (\A i \in 1 .. m : 1 + i - 1 = i)
            /\ \A i \in 1 .. m : i \in 1 .. n
        BY <1>1
      <3> HIDE DEF m
      <3>3. /\ SubSeq(s, 1, m) \in Seq(S)
            /\ Len(SubSeq(s, 1, m)) = IF 1 <= m THEN m - 1 + 1 ELSE 0
            /\ \A i \in 1 .. m - 1 + 1 : SubSeq(s, 1, m)[i] = s[1 + i - 1]
        BY SubSeqProperties, <3>1, <3>2
      <3> QED
        BY <3>2, <3>3 DEF m
    <2> QED
      BY <1>2, <2>1
  <1>4. ASSUME NEW x \in ToSet(s) PROVE x \in ToSet(Front(s)) \/ x = Last(s)
    <2>1. PICK i \in 1 .. n : s[i] = x
      BY <1>4 DEF ToSet
    <2>2. CASE i = n
      BY <1>2, <2>1, <2>2
    <2>3. CASE i # n
      <3>1. i \in 1 .. n - 1
        BY <1>1, <2>3
      <3> QED
        BY <1>3, <2>1, <3>1 DEF ToSet
    <2> QED
      BY <2>2, <2>3
  <1> QED
    BY <1>1, <1>2, <1>3, <1>4

LEMMA ConcatElements ==
    ASSUME NEW S, NEW s \in Seq(S), NEW t \in Seq(S)
    PROVE  s \o t \in Seq(S) /\ ToSet(s) \subseteq ToSet(s \o t) /\ ToSet(t) \subseteq ToSet(s \o t)
  <1>1. s \o t \in Seq(S) /\ Len(s \o t) = Len(s) + Len(t)
        /\ \A i \in 1 .. Len(s) + Len(t) : (s \o t)[i] = IF i <= Len(s) THEN s[i] ELSE t[i - Len(s)]
    BY ConcatProperties
  <1>2. Len(s) \in Nat /\ Len(t) \in Nat
    OBVIOUS
  <1>3. ASSUME NEW i \in 1 .. Len(s) PROVE s[i] \in ToSet(s \o t)
    <2>1. i \in 1 .. Len(s) + Len(t) /\ i <= Len(s)
      BY <1>2
    <2> QED
      BY <1>1, <2>1 DEF ToSet
  <1>4. ASSUME NEW i \in 1 .. Len(t) PROVE t[i] \in ToSet(s \o t)
    <2> DEFINE j == i + Len(s)
    <2>1. j \in 1 .. Len(s) + Len(t) /\ ~(j <= Len(s)) /\ j - Len(s) = i
      BY <1>2
    <2> HIDE DEF j
    <2> QED
      BY <1>1, <2>1 DEF ToSet
  <1>5. DOMAIN s = 1 .. Len(s) /\ DOMAIN t = 1 .. Len(t)
    OBVIOUS
  <1> HIDE DEF ToSet
  <1>6. ToSet(s) = {s[i] : i \in 1 .. Len(s)} /\ ToSet(t) = {t[i] : i \in 1 .. Len(t)}
    BY <1>5 DEF ToSet
  <1> QED
    BY <1>1, <1>3, <1>4, <1>6

LEMMA ResolvedFacts ==
    ASSUME NEW f, NEW key, program \in SourceTrees
    PROVE  I!Resolved(f, key) = << >> \/ I!Resolved(f, key) \in program.files
  <1> DEFINE H == I!Hits(f, key)
  <1>1. CASE H = {}
    BY <1>1 DEF I!Resolved
  <1>2. CASE H # {}
    <2>1. DOMAIN I!Candidates(f, key) = 1 .. 4
      BY DEF I!Candidates
    <2>2. H \in SUBSET Nat
      BY <2>1 DEF I!Hits
    <2>3. \E n \in H : \A m \in H : n <= m
      BY <1>2, <2>2, LeastNatural
    <2>4. I!Min(H) \in H
      BY <2>3 DEF I!Min
    <2> QED
      BY <1>2, <2>4 DEF I!Resolved, I!Hits
  <1> QED
    BY <1>1, <1>2

LEMMA RequestFacts ==
    ASSUME program \in SourceTrees, NEW f \in program.files
    PROVE  I!Requests(f) \in Seq(Wanting(f)) /\ ToSet(I!Requests(f)) = Wanting(f)
  <1> DEFINE keys == program.imports[f]
  <1>1. keys \in Seq(Keys(f))
    BY ImportConstants DEF I!ProgramAssumption, Keys, I!ToSet, ToSet
  <1>2. I!Requests(f) = [i \in DOMAIN keys |-> <<f, keys[i]>>]
    BY DEF I!Requests
  <1>3. DOMAIN keys = 1 .. Len(keys) /\ Len(keys) \in Nat /\ \A i \in 1 .. Len(keys) : keys[i] \in Keys(f)
    BY <1>1
  <1>4. \A i \in 1 .. Len(keys) : <<f, keys[i]>> \in Wanting(f)
    BY <1>3 DEF Wanting
  <1>5. I!Requests(f) \in Seq(Wanting(f))
    <2> HIDE DEF keys
    <2> QED
      BY <1>2, <1>3, <1>4
  <1>6. Keys(f) = {keys[i] : i \in 1 .. Len(keys)}
    BY <1>3 DEF Keys, ToSet
  <1>7. ToSet(I!Requests(f)) = {<<f, keys[i]>> : i \in 1 .. Len(keys)}
    <2> HIDE DEF keys
    <2> QED
      BY <1>2, <1>3 DEF ToSet
  <1> QED
    BY <1>5, <1>6, <1>7 DEF Wanting


LEMMA LoadStart == I!Init => LoadInv
  <1> SUFFICES ASSUME I!Init PROVE LoadInv
    OBVIOUS
  <1>1. /\ program \in SourceTrees /\ pending = I!Requests(Main) /\ loaded = << >>
        /\ missing = {} /\ phase = "loading"
    BY DEF I!Init
  <1>2. Main \in program.files
    BY <1>1, ImportConstants DEF I!ProgramAssumption
  <1>3. pending \in Seq(Wanting(Main)) /\ ToSet(pending) = Wanting(Main)
    BY <1>1, <1>2, RequestFacts
  <1>4. Parts(loaded) = {Main}
    BY <1>1 DEF Parts
  <1>5. UNION {Wanting(f) : f \in Parts(loaded)} = Wanting(Main)
    BY <1>4
  <1>6. LoadTyped
    BY <1>1, <1>3, <1>5 DEF LoadTyped
  <1>7. NothingForgotten
    BY <1>3, <1>4 DEF NothingForgotten, Wanting
  <1> QED
    BY <1>1, <1>6, <1>7 DEF LoadInv, LoadEnds

\* One turn of the loop takes one request off the stack and answers it.
LEMMA LoadTurn ==
    ASSUME LoadInv, I!LoadNext
    PROVE  LoadInv' /\ loaded' \in Seq(Loads)
  <1> DEFINE f == Last(pending)[1]  key == Last(pending)[2]  found == I!Resolved(f, key)
             W == UNION {Wanting(g) : g \in Parts(loaded)}
             W2 == UNION {Wanting(g) : g \in Parts(loaded')}
  <1>1. /\ program \in SourceTrees /\ loaded \in Seq(Loads) /\ pending \in Seq(W)
        /\ phase = "loading" /\ pending # << >>
        /\ \A g \in Parts(loaded) : \A k \in Keys(g) :
               Answered(loaded, missing, g, k) \/ <<g, k>> \in ToSet(pending)
    BY DEF LoadInv, LoadTyped, NothingForgotten, Loads, KeysThere, I!LoadNext
  <1>2. UNCHANGED <<program, phase>>
    BY DEF I!LoadNext
  <1>3. Front(pending) \in Seq(W) /\ Last(pending) \in W
        /\ \A x \in ToSet(pending) : x \in ToSet(Front(pending)) \/ x = Last(pending)
    <2> HIDE DEF W
    <2> QED
      BY <1>1, SeqElements
  <1>4. /\ Last(pending) = <<f, key>> /\ key \in Keys(f)
        /\ f \in Parts(loaded)
    BY <1>3 DEF Wanting
  <1>5. \A i \in DOMAIN loaded : loaded[i] \in Loads
    BY <1>1
  <1>6. f \in program.files /\ key \in KeysThere
    <2>1. Main \in program.files
      BY <1>1, ImportConstants DEF I!ProgramAssumption
    <2>2. f \in program.files
      BY <1>4, <1>5, <2>1 DEF Parts, Loads
    <2> QED
      BY <1>4, <2>2 DEF KeysThere
  <1>7. /\ I!Front(pending) = Front(pending) /\ I!Last(pending) = Last(pending)
    BY DEF I!Front, Front, I!Last, Last
  <1>8. I!Index(key) # 0 => Bound(loaded, key)
    BY DEF I!Index, Bound
  <1>9. \/ /\ I!Index(key) = 0 /\ found # << >>
           /\ loaded' = Append(loaded, [key |-> key, file |-> found])
           /\ pending' = Front(pending) \o I!Requests(found)
           /\ missing' = missing
        \/ /\ missing' = missing \cup {<<f, key>>}
           /\ pending' = Front(pending) /\ loaded' = loaded
        \/ /\ I!Index(key) # 0
           /\ pending' = Front(pending) /\ loaded' = loaded /\ missing' = missing
    BY <1>7 DEF I!LoadNext, I!AfterMissing
  <1> HIDE DEF f, key, found, W
  <1>10. CASE loaded' = loaded /\ pending' = Front(pending) /\ missing \subseteq missing'
              /\ Answered(loaded, missing', f, key)
    <2>1. Parts(loaded') = Parts(loaded) /\ W2 = W
      BY <1>2, <1>10 DEF Parts, W, Wanting, Keys
    <2>2. LoadTyped'
      BY <1>1, <1>2, <1>3, <1>10, <2>1 DEF LoadTyped, Loads, KeysThere, Wanting, Keys
    <2>3. ASSUME NEW g \in Parts(loaded), NEW k \in Keys(g)
          PROVE  Answered(loaded, missing', g, k) \/ <<g, k>> \in ToSet(pending')
      <3>1. CASE Answered(loaded, missing, g, k)
        BY <1>10, <3>1 DEF Answered
      <3>2. CASE <<g, k>> = <<f, key>>
        BY <1>10, <3>2
      <3> QED
        BY <1>1, <1>3, <1>4, <1>10, <3>1, <3>2
    <2>4. NothingForgotten'
      <3> SUFFICES ASSUME NEW g \in Parts(loaded'), NEW k \in Keys(g)'
                   PROVE  Answered(loaded, missing, g, k)' \/ <<g, k>> \in ToSet(pending')
        BY DEF NothingForgotten
      <3>1. g \in Parts(loaded) /\ k \in Keys(g)
        BY <1>2, <2>1 DEF Keys
      <3>2. Answered(loaded, missing, g, k)' <=> Answered(loaded, missing', g, k)
        BY <1>2, <1>10 DEF Answered, I!Resolved, I!Hits
      <3> QED
        BY <2>3, <3>1, <3>2
    <2> QED
      BY <1>1, <1>2, <1>10, <2>2, <2>4 DEF LoadInv, LoadEnds
  <1>11. CASE /\ found # << >>
              /\ loaded' = Append(loaded, [key |-> key, file |-> found])
              /\ pending' = Front(pending) \o I!Requests(found)
              /\ missing' = missing
    <2>1. found \in program.files
      BY <1>1, <1>11, ResolvedFacts DEF found
    <2>2. [key |-> key, file |-> found] \in Loads
      BY <1>6, <2>1 DEF Loads
    <2> DEFINE n == Len(loaded)  l == Append(loaded, [key |-> key, file |-> found])
    <2>3. /\ n \in Nat /\ DOMAIN loaded = 1 .. n /\ l \in Seq(Loads) /\ DOMAIN l = 1 .. n + 1
          /\ \A i \in 1 .. n : l[i] = loaded[i] /\ l[n + 1] = [key |-> key, file |-> found]
          /\ l[n + 1] = [key |-> key, file |-> found]
      BY <1>1, <2>2
    <2>4. loaded' = l
      BY <1>11
    <2> HIDE DEF n, l
    <2>5. /\ Parts(l) = Parts(loaded) \cup {found}
          /\ \A k : Bound(loaded, k) => Bound(l, k)
          /\ Bound(l, key)
      <3>1. DOMAIN l = DOMAIN loaded \cup {n + 1} /\ n + 1 \in DOMAIN l
        BY <2>3
      <3> QED
        BY <2>3, <3>1 DEF Parts, Bound
    <2>6. I!Requests(found) \in Seq(Wanting(found)) /\ ToSet(I!Requests(found)) = Wanting(found)
      BY <1>1, <2>1, RequestFacts
    <2>7. W2 = W \cup Wanting(found)
      <3>1. Parts(loaded') = Parts(loaded) \cup {found}
        BY <2>4, <2>5
      <3> QED
        BY <3>1 DEF W
    <2>8. /\ pending' \in Seq(W2) /\ ToSet(Front(pending)) \subseteq ToSet(pending')
          /\ Wanting(found) \subseteq ToSet(pending')
      <3>1. Front(pending) \in Seq(W2) /\ I!Requests(found) \in Seq(W2)
        BY <1>3, <2>6, <2>7
      <3> HIDE DEF W2
      <3> QED
        BY <1>11, <2>6, <3>1, ConcatElements
    <2>9. LoadTyped'
      BY <1>1, <1>2, <2>3, <2>4, <2>8 DEF LoadTyped, Loads, KeysThere, Wanting, Keys
    <2>10. ASSUME NEW g \in Parts(l), NEW k \in Keys(g)
           PROVE  Answered(l, missing, g, k) \/ <<g, k>> \in ToSet(pending')
      <3>1. CASE g \in Parts(loaded) /\ Answered(loaded, missing, g, k)
        BY <2>5, <3>1 DEF Answered
      <3>2. CASE g \in Parts(loaded) /\ <<g, k>> \in ToSet(Front(pending))
        BY <2>8, <3>2
      <3>3. CASE <<g, k>> = <<f, key>>
        BY <2>5, <3>3 DEF Answered
      <3>4. CASE g = found
        BY <2>8, <3>4 DEF Wanting
      <3> QED
        BY <1>1, <1>3, <1>4, <2>5, <3>1, <3>2, <3>3, <3>4
    <2>11. NothingForgotten'
      <3> SUFFICES ASSUME NEW g \in Parts(loaded'), NEW k \in Keys(g)'
                   PROVE  Answered(loaded, missing, g, k)' \/ <<g, k>> \in ToSet(pending')
        BY DEF NothingForgotten
      <3>1. g \in Parts(l) /\ k \in Keys(g)
        BY <1>2, <2>4 DEF Keys
      <3>2. Answered(loaded, missing, g, k)' <=> Answered(l, missing, g, k)
        BY <1>2, <1>11, <2>4 DEF Answered, I!Resolved, I!Hits
      <3> QED
        BY <2>10, <3>1, <3>2
    <2> QED
      BY <1>1, <1>2, <2>3, <2>4, <2>9, <2>11 DEF LoadInv, LoadEnds
  <1>12. CASE missing' = missing \cup {<<f, key>>} /\ pending' = Front(pending) /\ loaded' = loaded
    BY <1>1, <1>10, <1>12 DEF Answered
  <1>13. CASE /\ I!Index(key) # 0
              /\ pending' = Front(pending) /\ loaded' = loaded /\ missing' = missing
    BY <1>1, <1>8, <1>10, <1>13 DEF Answered
  <1> QED
    BY <1>9, <1>11, <1>12, <1>13

LEMMA LoadStep == LoadInv /\ [I!Next]_(I!vars) => LoadInv'
  <1> SUFFICES ASSUME LoadInv, [I!Next]_(I!vars), ~I!LoadNext PROVE LoadInv'
    BY LoadTurn
  <1>1. UNCHANGED <<program, pending, loaded, missing>> /\ phase' \in {"loading", "checking", "forcing", "done"}
        /\ (phase' # "loading" => phase # "loading" \/ pending = << >>)
    BY DEF I!Next, I!vars, I!Loaded, I!Check, I!EndOfPass, I!NextPhase, I!Force, I!Forced, LoadInv, LoadTyped
  <1>2. LoadTyped'
    BY <1>1 DEF LoadInv, LoadTyped, Loads, KeysThere, Wanting, Keys, Parts
  <1>3. NothingForgotten'
    <2> SUFFICES ASSUME NEW g \in Parts(loaded'), NEW k \in Keys(g)'
                 PROVE  Answered(loaded, missing, g, k)' \/ <<g, k>> \in ToSet(pending')
      BY DEF NothingForgotten
    <2>1. g \in Parts(loaded) /\ k \in Keys(g)
      BY <1>1 DEF Keys
    <2>2. Answered(loaded, missing, g, k)' <=> Answered(loaded, missing, g, k)
      BY <1>1 DEF Answered, I!Resolved, I!Hits
    <2> QED
      BY <1>1, <2>1, <2>2 DEF LoadInv, NothingForgotten
  <1>4. LoadEnds'
    BY <1>1 DEF LoadInv, LoadEnds
  <1> QED
    BY <1>2, <1>3, <1>4 DEF LoadInv

-------------------------------------------------------------------------------
OrderTyped == /\ cursor \in Nat /\ 1 <= cursor /\ cursor <= Len(loaded) + 1
              /\ order \in Seq(DOMAIN loaded)
              /\ \A a, b \in 1 .. Len(order) : order[a] = order[b] => a = b
NotYet == phase = "loading" => order = << >> /\ cursor = 1 /\ progressed = FALSE
Behind(i) == i \in DOMAIN loaded /\ i < cursor
PassSees == phase = "checking" /\ ~progressed => \A i : Behind(i) => I!Done(i) \/ ~I!Ready(i)
ForcedSoFar == phase = "forcing" => \A i : Behind(i) => I!Done(i)
DoneAtTheEnd == phase = "done" => \A i \in DOMAIN loaded : I!Done(i)

Earlier(n, j) == \E m \in 1 .. n - 1 : order[m] = j
\* The modules that wait for each other: each imports another one of them.
Tangled(s) == \A i \in s : \E j \in s : j \in I!Imports(i)
Layers(s) == /\ Tangled(s)
             /\ phase \in {"loading", "checking"} => s = {}
             /\ phase = "forcing" => \A i \in DOMAIN loaded : I!Done(i) \/ i \in s
             /\ \A n \in 1 .. Len(order) : order[n] \in s \/ \A j \in I!Imports(order[n]) : Earlier(n, j)
Layered == \E s \in SUBSET DOMAIN loaded : Layers(s)

OrderInv == OrderTyped /\ NotYet /\ PassSees /\ ForcedSoFar /\ DoneAtTheEnd /\ Layered

LEMMA ImportsAreIndices == \A i : I!Imports(i) \subseteq DOMAIN loaded
  BY DEF I!Imports, I!Index

LEMMA BelowFacts ==
    ASSUME NEW i, NEW j
    PROVE  /\ j \in I!Imports(i) => j \in I!Below(i)
           /\ j \in I!Below(i) => I!Below(j) \subseteq I!Below(i)
  <1>1. j \in I!Imports(i) => j \in I!Below(i)
    BY ImportsAreIndices DEF I!Below
  <1>2. ASSUME j \in I!Below(i), NEW x \in I!Below(j),
               NEW s \in SUBSET DOMAIN loaded, \A k \in s \cup {i} : I!Imports(k) \subseteq s
        PROVE  x \in s
    <2>1. j \in s
      BY <1>2 DEF I!Below
    <2>2. \A k \in s \cup {j} : I!Imports(k) \subseteq s
      BY <1>2, <2>1
    <2> QED
      BY <1>2, <2>2 DEF I!Below
  <1>3. \A x : x \in I!Below(j) => x \in DOMAIN loaded
    BY DEF I!Below
  <1> QED
    BY <1>1, <1>2, <1>3 DEF I!Below

LEMMA Intervals ==
    ASSUME NEW n \in Nat
    PROVE  IsFiniteSet(1 .. n) /\ Cardinality(1 .. n) = n
  <1>1. 1 \in Int /\ n \in Int
    OBVIOUS
  <1>2. IsFiniteSet(1 .. n) /\ Cardinality(1 .. n) = IF 1 > n THEN 0 ELSE n - 1 + 1
    BY <1>1, FS_Interval
  <1> QED
    BY <1>2

LEMMA LoadedIsFinite ==
    ASSUME LoadTyped
    PROVE  IsFiniteSet(DOMAIN loaded) /\ Cardinality(DOMAIN loaded) = Len(loaded)
           /\ Len(loaded) \in Nat /\ DOMAIN loaded = 1 .. Len(loaded)
  <1>1. Len(loaded) \in Nat /\ DOMAIN loaded = 1 .. Len(loaded)
    BY DEF LoadTyped
  <1> QED
    BY <1>1, Intervals

\* Among modules that wait for each other there is an import cycle.
LEMMA TangleHasACycle ==
    ASSUME LoadTyped, NEW s \in SUBSET DOMAIN loaded, Tangled(s), NEW i \in s
    PROVE  \E k \in I!Below(i) : k \in I!Below(k)
  <1> DEFINE B(k) == I!Below(k) \cap s  K == s \cap I!Below(i)  N == {Cardinality(B(k)) : k \in K}
  <1>1. IsFiniteSet(s)
    BY LoadedIsFinite, FS_Subset
  <1>2. \A k : IsFiniteSet(B(k)) /\ Cardinality(B(k)) \in Nat
    BY <1>1, FS_Subset, FS_CardinalityType
  <1>3. N \in SUBSET Nat
    BY <1>2
  <1>4. K # {}
    <2>1. PICK j \in s : j \in I!Imports(i)
      BY DEF Tangled
    <2> QED
      BY <2>1, BelowFacts
  <1>5. PICK k \in K : \A j \in K : Cardinality(B(k)) <= Cardinality(B(j))
    <2>1. \E n \in N : \A m \in N : n <= m
      <3>1. N # {}
        BY <1>4
      <3> HIDE DEF N
      <3> QED
        BY <1>3, <3>1, LeastNatural
    <2> HIDE DEF K, B
    <2> QED
      BY <2>1
  <1>6. PICK j \in s : j \in I!Imports(k)
    BY <1>5 DEF Tangled
  <1>7. j \in B(k) /\ B(j) \subseteq B(k) /\ j \in K
    BY <1>5, <1>6, BelowFacts
  <1>8. CASE j \notin B(j)
    <2>1. B(j) # B(k)
      BY <1>7, <1>8
    <2> HIDE DEF B, K
    <2>2. Cardinality(B(j)) < Cardinality(B(k))
      BY <1>2, <1>7, <2>1, FS_Subset
    <2>3. Cardinality(B(k)) <= Cardinality(B(j))
      BY <1>5, <1>7
    <2> QED
      BY <1>2, <2>2, <2>3
  <1>9. CASE j \in B(j)
    BY <1>7, <1>9
  <1> QED
    BY <1>8, <1>9

LEMMA OrderIsWhole ==
    ASSUME LoadTyped, OrderTyped, Len(order) = Len(loaded)
    PROVE  \A i \in DOMAIN loaded : I!Done(i)
  <1> DEFINE L == DOMAIN loaded
  <1>1. IsFiniteSet(L) /\ L = 1 .. Len(order) /\ order \in [L -> L]
    BY LoadedIsFinite DEF OrderTyped
  <1>2. order \in Injection(L, L)
    BY <1>1 DEF OrderTyped, Injection, IsInjective
  <1>3. order \in Surjection(L, L)
    <2> HIDE DEF L
    <2> QED
      BY <1>1, <1>2, FS_Injection
  <1> QED
    BY <1>1, <1>3 DEF Surjection, I!Done, I!ToSet

-------------------------------------------------------------------------------
LEMMA OrderStart == I!Init => OrderInv
  <1> SUFFICES ASSUME I!Init PROVE OrderInv
    OBVIOUS
  <1>1. loaded = << >> /\ order = << >> /\ phase = "loading" /\ cursor = 1 /\ progressed = FALSE
    BY DEF I!Init
  <1>2. OrderTyped
    BY <1>1 DEF OrderTyped
  <1>3. Layers({})
    BY <1>1 DEF Layers, Tangled
  <1> QED
    BY <1>1, <1>2, <1>3 DEF OrderInv, NotYet, PassSees, ForcedSoFar, DoneAtTheEnd, Layered

\* Nothing is in the order while modules are loaded.
LEMMA OrderWhileLoading == LoadInv /\ OrderInv /\ I!LoadNext => OrderInv'
  <1> SUFFICES ASSUME LoadInv, OrderInv, I!LoadNext PROVE OrderInv'
    OBVIOUS
  <1>1. /\ loaded' \in Seq(Loads)
        /\ phase = "loading" /\ UNCHANGED <<program, phase, cursor, progressed, order>>
    BY LoadTurn DEF I!LoadNext
  <1>2. order = << >> /\ cursor = 1 /\ progressed = FALSE
    BY <1>1 DEF OrderInv, NotYet
  <1>3. Len(loaded') \in Nat
    BY <1>1
  <1>4. OrderTyped'
    BY <1>1, <1>2, <1>3 DEF OrderTyped
  <1>5. Layers({})'
    BY <1>1, <1>2 DEF Layers, Tangled
  <1>6. NotYet' /\ PassSees' /\ ForcedSoFar' /\ DoneAtTheEnd'
    BY <1>1, <1>2 DEF NotYet, PassSees, ForcedSoFar, DoneAtTheEnd
  <1> QED
    BY <1>4, <1>5, <1>6 DEF OrderInv, Layered

LEMMA SameImports ==
    ASSUME UNCHANGED <<program, loaded>>
    PROVE  \A i : I!Imports(i)' = I!Imports(i)
  BY DEF I!Imports, I!Index

\* What it means to put a module that is not done at the end of the order.
LEMMA OneMoreChecked ==
    ASSUME OrderTyped, LoadTyped, NEW c \in DOMAIN loaded, ~I!Done(c), order' = Append(order, c)
    PROVE  /\ order' \in Seq(DOMAIN loaded)
           /\ \A a, b \in 1 .. Len(order') : order'[a] = order'[b] => a = b
           /\ \A i : I!Done(i)' <=> I!Done(i) \/ i = c
           /\ \A n \in 1 .. Len(order') : order'[n] = c \/ (n \in 1 .. Len(order) /\ order'[n] = order[n])
           /\ \A n \in 1 .. Len(order) : \A j : Earlier(n, j) => Earlier(n, j)'
           /\ \A n \in 1 .. Len(order') : order'[n] = c => \A j : I!Done(j) => Earlier(n, j)'
  <1> DEFINE l == Len(order)  o == Append(order, c)
  <1>1. l \in Nat /\ order \in Seq(DOMAIN loaded)
        /\ \A a, b \in 1 .. l : order[a] = order[b] => a = b
    BY DEF OrderTyped
  <1>2. /\ o \in Seq(DOMAIN loaded) /\ Len(o) = l + 1 /\ o[l + 1] = c
        /\ \A a \in 1 .. l : o[a] = order[a]
    BY <1>1
  <1>3. \A i : I!Done(i) <=> \E a \in 1 .. l : order[a] = i
    BY <1>1 DEF I!Done, I!ToSet
  <1>4. \A a \in 1 .. l : order[a] # c
    BY <1>3
  <1> HIDE DEF l, o
  <1>5. order' = o /\ \A a \in 1 .. l + 1 : a = l + 1 \/ a \in 1 .. l
    BY <1>1 DEF o
  <1>6. \A a \in 1 .. l : a \in 1 .. l + 1 /\ \A b \in 1 .. a - 1 : b \in 1 .. l
    BY <1>1
  <1>7. \A a, b \in 1 .. l + 1 : o[a] = o[b] => a = b
    <2> SUFFICES ASSUME NEW a \in 1 .. l + 1, NEW b \in 1 .. l + 1, o[a] = o[b] PROVE a = b
      OBVIOUS
    <2>1. CASE a = l + 1
      BY <1>2, <1>4, <1>5, <2>1
    <2>2. CASE b = l + 1
      BY <1>2, <1>4, <1>5, <2>2
    <2>3. CASE a \in 1 .. l /\ b \in 1 .. l
      BY <1>1, <1>2, <2>3
    <2> QED
      BY <1>5, <2>1, <2>2, <2>3
  <1>8. \A i : I!Done(i)' <=> I!Done(i) \/ i = c
    <2> TAKE i
    <2>1. I!Done(i)' <=> \E a \in 1 .. l + 1 : o[a] = i
      BY <1>2, <1>5 DEF I!Done, I!ToSet
    <2>2. (\E a \in 1 .. l + 1 : o[a] = i) <=> (\E a \in 1 .. l : order[a] = i) \/ i = c
      <3>1. l + 1 \in 1 .. l + 1
        BY <1>1
      <3> QED
        BY <1>2, <1>5, <1>6, <3>1
    <2> QED
      BY <1>3, <2>1, <2>2
  <1>9. \A n \in 1 .. l + 1 : o[n] = c \/ (n \in 1 .. l /\ o[n] = order[n])
    BY <1>2, <1>5
  <1>10. \A n \in 1 .. l : \A j : Earlier(n, j) => Earlier(n, j)'
    BY <1>2, <1>5, <1>6 DEF Earlier
  <1>11. ASSUME NEW n \in 1 .. l + 1, o[n] = c, NEW j, I!Done(j) PROVE Earlier(n, j)'
    <2>1. n = l + 1
      BY <1>2, <1>4, <1>5, <1>11
    <2>2. PICK a \in 1 .. l : order[a] = j
      BY <1>3, <1>11
    <2>3. a \in 1 .. n - 1
      BY <1>1, <2>1
    <2> QED
      BY <1>2, <1>5, <2>2, <2>3 DEF Earlier
  <1> QED
    BY <1>2, <1>5, <1>7, <1>8, <1>9, <1>10, <1>11 DEF l

LEMMA CheckKeepsOrder == LoadInv /\ OrderInv /\ I!Check => OrderInv'
  <1> SUFFICES ASSUME LoadInv, OrderInv, I!Check PROVE OrderInv'
    OBVIOUS
  <1>1. /\ phase = "checking" /\ cursor <= Len(loaded) /\ cursor' = cursor + 1
        /\ UNCHANGED <<program, pending, loaded, missing, phase>>
        /\ IF I!Done(cursor) \/ ~I!Ready(cursor) THEN UNCHANGED <<order, progressed>>
           ELSE order' = Append(order, cursor) /\ progressed' = TRUE
    BY DEF I!Check
  <1>2. /\ LoadTyped /\ Len(loaded) \in Nat /\ DOMAIN loaded = 1 .. Len(loaded)
        /\ cursor \in Nat /\ 1 <= cursor /\ cursor \in DOMAIN loaded
        /\ cursor' \in Nat /\ 1 <= cursor' /\ cursor' <= Len(loaded) + 1
    BY <1>1, LoadedIsFinite DEF LoadInv, OrderInv, OrderTyped
  <1>3. \A i : Behind(i)' => Behind(i) \/ i = cursor
    BY <1>1, <1>2 DEF Behind
  <1>4. \A i : I!Imports(i)' = I!Imports(i)
    BY <1>1, SameImports
  <1>5. Layers({})
    BY <1>1 DEF OrderInv, Layered, Layers
  <1>6. CASE UNCHANGED <<order, progressed>> /\ (I!Done(cursor) \/ ~I!Ready(cursor))
    <2>1. \A i : (I!Done(i)' <=> I!Done(i)) /\ (I!Ready(i)' <=> I!Ready(i))
      BY <1>1, <1>4, <1>6 DEF I!Done, I!Ready
    <2>2. OrderTyped'
      BY <1>1, <1>2, <1>6 DEF OrderInv, OrderTyped
    <2>3. PassSees'
      BY <1>1, <1>3, <1>6, <2>1 DEF OrderInv, PassSees
    <2>4. Layers({})'
      BY <1>1, <1>4, <1>5, <1>6 DEF Layers, Tangled, Earlier
    <2> QED
      BY <1>1, <2>2, <2>3, <2>4 DEF OrderInv, NotYet, ForcedSoFar, DoneAtTheEnd, Layered
  <1>7. CASE order' = Append(order, cursor) /\ progressed' = TRUE /\ ~I!Done(cursor) /\ I!Ready(cursor)
    <2>1. OrderTyped'
      BY <1>1, <1>2, <1>7, OneMoreChecked DEF OrderInv, OrderTyped
    <2>2. ASSUME NEW n \in 1 .. Len(order'), NEW j \in I!Imports(order'[n]) PROVE Earlier(n, j)'
      <3>1. CASE order'[n] = cursor
        <4>1. I!Done(j)
          BY <1>7, <2>2, <3>1 DEF I!Ready
        <4> QED
          BY <1>2, <1>7, <3>1, <4>1, OneMoreChecked DEF OrderInv
      <3>2. CASE n \in 1 .. Len(order) /\ order'[n] = order[n]
        <4>1. Earlier(n, j)
          BY <1>5, <2>2, <3>2 DEF Layers
        <4> QED
          BY <1>2, <1>7, <3>2, <4>1, OneMoreChecked DEF OrderInv
      <3> QED
        BY <1>2, <1>7, <3>1, <3>2, OneMoreChecked DEF OrderInv
    <2>3. Layers({})'
      BY <1>1, <1>4, <2>2 DEF Layers, Tangled
    <2> QED
      BY <1>1, <1>7, <2>1, <2>3 DEF OrderInv, NotYet, PassSees, ForcedSoFar, DoneAtTheEnd, Layered
  <1> QED
    BY <1>1, <1>6, <1>7

LEMMA PassEndKeepsOrder == LoadInv /\ OrderInv /\ I!EndOfPass => OrderInv'
  <1> SUFFICES ASSUME LoadInv, OrderInv, I!EndOfPass PROVE OrderInv'
    OBVIOUS
  <1>1. /\ phase = "checking" /\ cursor > Len(loaded) /\ cursor' = 1 /\ progressed' = FALSE
        /\ UNCHANGED <<program, pending, loaded, missing, order>>
        /\ phase' = IF Len(order) = Len(loaded) THEN "done"
                    ELSE IF progressed THEN "checking" ELSE "forcing"
    BY DEF I!EndOfPass, I!NextPhase
  <1>2. /\ LoadTyped /\ Len(loaded) \in Nat /\ DOMAIN loaded = 1 .. Len(loaded) /\ cursor \in Nat
    BY LoadedIsFinite DEF LoadInv, OrderInv, OrderTyped
  <1>3. \A i : I!Imports(i)' = I!Imports(i) /\ (I!Done(i)' <=> I!Done(i))
    BY <1>1, SameImports DEF I!Done
  <1>4. OrderTyped'
    BY <1>1, <1>2 DEF OrderInv, OrderTyped
  <1>5. \A i : ~Behind(i)'
    BY <1>1, <1>2 DEF Behind
  <1>6. \A i \in DOMAIN loaded : Behind(i)
    BY <1>1, <1>2 DEF Behind
  <1>7. DoneAtTheEnd'
    BY <1>1, <1>2, <1>3, OrderIsWhole DEF OrderInv, DoneAtTheEnd
  <1>8. NotYet' /\ PassSees' /\ ForcedSoFar'
    BY <1>1, <1>5 DEF NotYet, PassSees, ForcedSoFar
  <1>9. Layers({})
    BY <1>1 DEF OrderInv, Layered, Layers
  <1>10. CASE phase' # "forcing"
    <2>1. Layers({})'
      BY ZenonT(60), <1>1, <1>3, <1>9, <1>10 DEF Layers, Tangled, Earlier
    <2> QED
      BY <1>4, <1>7, <1>8, <2>1 DEF OrderInv, Layered
  <1>11. CASE phase' = "forcing"
    <2>0. PICK s \in SUBSET DOMAIN loaded : s = {i \in DOMAIN loaded : ~I!Done(i)}
      OBVIOUS
    <2>1. ~progressed
      BY <1>1, <1>11
    <2>2. ASSUME NEW i \in s PROVE \E j \in s : j \in I!Imports(i)
      <3>1. ~I!Ready(i)
        BY <1>1, <1>6, <2>0, <2>1 DEF OrderInv, PassSees
      <3> QED
        BY <2>0, <3>1, ImportsAreIndices DEF I!Ready
    <2>3. Tangled(s)'
      BY <1>3, <2>2 DEF Tangled
    <2>4. Layers(s)'
      <3>1. \A n \in 1 .. Len(order) : \A j \in I!Imports(order[n]) : Earlier(n, j)
        BY <1>9 DEF Layers
      <3>2. \A i \in DOMAIN loaded : I!Done(i) \/ i \in s
        BY <2>0
      <3>3. \A n, j : Earlier(n, j)' <=> Earlier(n, j)
        BY <1>1 DEF Earlier
      <3> QED
        BY <1>1, <1>3, <1>11, <2>3, <3>1, <3>2, <3>3 DEF Layers
    <2>5. s \in SUBSET DOMAIN loaded'
      BY <1>1
    <2>6. Layered'
      BY <2>4, <2>5 DEF Layered
    <2> QED
      BY <1>4, <1>7, <1>8, <2>6 DEF OrderInv
  <1> QED
    BY <1>10, <1>11

LEMMA ForceKeepsOrder == LoadInv /\ OrderInv /\ I!Force => OrderInv'
  <1> SUFFICES ASSUME LoadInv, OrderInv, I!Force PROVE OrderInv'
    OBVIOUS
  <1>1. /\ phase = "forcing" /\ cursor <= Len(loaded) /\ cursor' = cursor + 1
        /\ UNCHANGED <<program, pending, loaded, missing, phase, progressed>>
        /\ order' = IF I!Done(cursor) THEN order ELSE Append(order, cursor)
    BY DEF I!Force
  <1>2. /\ LoadTyped /\ Len(loaded) \in Nat /\ DOMAIN loaded = 1 .. Len(loaded)
        /\ cursor \in Nat /\ 1 <= cursor /\ cursor \in DOMAIN loaded
        /\ cursor' \in Nat /\ 1 <= cursor' /\ cursor' <= Len(loaded) + 1
    BY <1>1, LoadedIsFinite DEF LoadInv, OrderInv, OrderTyped
  <1>3. \A i : Behind(i)' => Behind(i) \/ i = cursor
    BY <1>1, <1>2 DEF Behind
  <1>4. \A i : I!Imports(i)' = I!Imports(i)
    BY <1>1, SameImports
  <1>5. PICK s \in SUBSET DOMAIN loaded : Layers(s)
    BY DEF OrderInv, Layered
  <1>6. Tangled(s)' /\ s \in SUBSET DOMAIN loaded'
    BY <1>1, <1>4, <1>5 DEF Layers, Tangled
  <1>7. CASE I!Done(cursor) /\ order' = order
    <2>1. \A i : I!Done(i)' <=> I!Done(i)
      BY <1>7 DEF I!Done
    <2>2. OrderTyped'
      BY <1>1, <1>2, <1>7 DEF OrderInv, OrderTyped
    <2>3. ForcedSoFar'
      BY <1>1, <1>3, <1>7, <2>1 DEF OrderInv, ForcedSoFar
    <2>4. Layers(s)'
      BY <1>1, <1>4, <1>5, <1>6, <1>7, <2>1 DEF Layers, Earlier
    <2> QED
      BY <1>1, <1>6, <2>2, <2>3, <2>4 DEF OrderInv, NotYet, PassSees, DoneAtTheEnd, Layered
  <1>8. CASE ~I!Done(cursor) /\ order' = Append(order, cursor)
    <2>1. OrderTyped'
      BY <1>1, <1>2, <1>8, OneMoreChecked DEF OrderInv, OrderTyped
    <2>2. \A i : I!Done(i)' <=> I!Done(i) \/ i = cursor
      BY <1>2, <1>8, OneMoreChecked DEF OrderInv
    <2>3. ForcedSoFar'
      BY <1>1, <1>3, <2>2 DEF OrderInv, ForcedSoFar
    <2>4. cursor \in s
      BY <1>1, <1>2, <1>5, <1>8 DEF Layers
    <2>5. ASSUME NEW n \in 1 .. Len(order'), order'[n] \notin s, NEW j \in I!Imports(order'[n])
          PROVE  Earlier(n, j)'
      <3>1. n \in 1 .. Len(order) /\ order'[n] = order[n]
        BY <1>2, <1>8, <2>4, <2>5, OneMoreChecked DEF OrderInv
      <3>2. Earlier(n, j)
        BY <1>5, <2>5, <3>1 DEF Layers
      <3> QED
        BY <1>2, <1>8, <3>1, <3>2, OneMoreChecked DEF OrderInv
    <2>6. Layers(s)'
      <3>1. \A i \in DOMAIN loaded : I!Done(i) \/ i \in s
        BY <1>1, <1>5 DEF Layers
      <3> QED
        BY <1>1, <1>4, <1>6, <2>2, <2>5, <3>1 DEF Layers
    <2> QED
      BY <1>1, <1>6, <2>1, <2>3, <2>6 DEF OrderInv, NotYet, PassSees, DoneAtTheEnd, Layered
  <1> QED
    BY <1>1, <1>7, <1>8

LEMMA PhasesKeepOrder == LoadInv /\ OrderInv /\ (I!Loaded \/ I!Forced) => OrderInv'
  <1> SUFFICES ASSUME LoadInv, OrderInv, I!Loaded \/ I!Forced PROVE OrderInv'
    OBVIOUS
  <1>1. /\ UNCHANGED <<program, pending, loaded, missing, cursor, progressed, order>>
        /\ \/ phase = "loading" /\ phase' = "checking"
           \/ phase = "forcing" /\ phase' = "done" /\ cursor > Len(loaded)
    BY DEF I!Loaded, I!Forced
  <1>2. /\ LoadTyped /\ Len(loaded) \in Nat /\ DOMAIN loaded = 1 .. Len(loaded) /\ cursor \in Nat
    BY LoadedIsFinite DEF LoadInv, OrderInv, OrderTyped
  <1>3. \A i : I!Imports(i)' = I!Imports(i) /\ (I!Done(i)' <=> I!Done(i))
    BY <1>1, SameImports DEF I!Done
  <1>4. PICK s \in SUBSET DOMAIN loaded : Layers(s)
    BY DEF OrderInv, Layered
  <1>5. Layers(s)' /\ s \in SUBSET DOMAIN loaded'
    <2>1. Tangled(s)' /\ s \in SUBSET DOMAIN loaded'
      BY <1>1, <1>3, <1>4 DEF Layers, Tangled
    <2>2. \A n \in 1 .. Len(order) : order[n] \in s \/ \A j \in I!Imports(order[n]) : Earlier(n, j)
      BY <1>4 DEF Layers
    <2>3. \A n, j : Earlier(n, j)' <=> Earlier(n, j)
      BY <1>1 DEF Earlier
    <2>4. phase' = "checking" => s = {}
      BY <1>1, <1>4 DEF Layers
    <2> QED
      BY <1>1, <1>3, <2>1, <2>2, <2>3, <2>4 DEF Layers
  <1>6. OrderTyped'
    BY <1>1 DEF OrderInv, OrderTyped
  <1>7. NotYet' /\ ForcedSoFar'
    BY <1>1 DEF NotYet, ForcedSoFar
  <1>8. CASE phase = "loading"
    <2>1. \A i : ~Behind(i)'
      BY <1>1, <1>2, <1>8 DEF OrderInv, NotYet, Behind
    <2> QED
      BY <1>1, <1>5, <1>6, <1>7, <1>8, <2>1 DEF OrderInv, PassSees, DoneAtTheEnd, Layered
  <1>9. CASE phase = "forcing"
    <2>1. \A i \in DOMAIN loaded : Behind(i)
      BY <1>1, <1>2, <1>9 DEF Behind
    <2>2. DoneAtTheEnd'
      BY <1>1, <1>3, <1>9, <2>1 DEF OrderInv, ForcedSoFar, DoneAtTheEnd
    <2> QED
      BY <1>1, <1>5, <1>6, <1>7, <1>9, <2>2 DEF OrderInv, PassSees, Layered
  <1> QED
    BY <1>1, <1>8, <1>9

LEMMA OrderStutters == OrderInv /\ UNCHANGED I!vars => OrderInv'
  <1> SUFFICES ASSUME OrderInv, UNCHANGED I!vars PROVE OrderInv'
    OBVIOUS
  <1>1. UNCHANGED <<program, loaded, phase, cursor, progressed, order>>
    BY DEF I!vars
  <1>2. \A i : I!Imports(i)' = I!Imports(i) /\ (I!Done(i)' <=> I!Done(i))
    BY <1>1, SameImports DEF I!Done
  <1>3. \A i : I!Ready(i)' <=> I!Ready(i)
    BY <1>2 DEF I!Ready
  <1>4. \A s : Layers(s)' <=> Layers(s)
    <2> TAKE s
    <2>1. Tangled(s)' <=> Tangled(s)
      BY <1>2 DEF Tangled
    <2>2. \A n, j : Earlier(n, j)' <=> Earlier(n, j)
      BY <1>1 DEF Earlier
    <2> QED
      BY <1>1, <1>2, <2>1, <2>2 DEF Layers
  <1> QED
    BY <1>1, <1>2, <1>3, <1>4 DEF OrderInv, OrderTyped, NotYet, PassSees, Behind, ForcedSoFar,
                                  DoneAtTheEnd, Layered

LEMMA ImportsAlways == I!Spec => [](LoadInv /\ OrderInv)
  <1>1. LoadInv /\ OrderInv /\ [I!Next]_(I!vars) => OrderInv'
    BY OrderWhileLoading, CheckKeepsOrder, PassEndKeepsOrder, ForceKeepsOrder, PhasesKeepOrder,
       OrderStutters DEF I!Next
  <1> QED
    BY LoadStart, LoadStep, OrderStart, <1>1, PTL DEF I!Spec

\* For every tree of source files, whatever it imports, cycles and files that cannot be
\* read included: when all is checked, each import of each module that takes part is
\* bound to a module or was reported, and each module has been checked.
THEOREM ImportsAreAnswered == I!Spec => []EveryImportAnswered
  <1>1. LoadInv /\ OrderInv => EveryImportAnswered
    <2> SUFFICES ASSUME LoadInv, OrderInv, phase = "done"
                 PROVE  /\ I!ToSet(order) = DOMAIN loaded
                        /\ \A f \in Parts(loaded) : \A key \in Keys(f) :
                             \/ I!Index(key) # 0
                             \/ <<f, key>> \in missing
      BY DEF EveryImportAnswered, I!EveryImportAnswered, Parts, Keys, I!ToSet, ToSet
    <2>1. I!ToSet(order) = DOMAIN loaded
      <3>1. I!ToSet(order) \subseteq DOMAIN loaded
        BY DEF OrderInv, OrderTyped, I!ToSet
      <3>2. \A i \in DOMAIN loaded : i \in I!ToSet(order)
        BY DEF OrderInv, DoneAtTheEnd, I!Done
      <3> QED
        BY <3>1, <3>2
    <2>2. ASSUME NEW f \in Parts(loaded), NEW key \in Keys(f)
          PROVE  Answered(loaded, missing, f, key)
      <3>1. ToSet(pending) = {}
        BY DEF LoadInv, LoadEnds, ToSet
      <3> QED
        BY <2>2, <3>1 DEF LoadInv, NothingForgotten
    <2>3. ASSUME NEW key, Bound(loaded, key) PROVE I!Index(key) # 0
      <3>1. DOMAIN loaded = 1 .. Len(loaded) /\ Len(loaded) \in Nat
        BY LoadedIsFinite DEF LoadInv
      <3>2. I!Index(key) \in DOMAIN loaded
        BY <2>3 DEF Bound, I!Index
      <3> QED
        BY <3>1, <3>2
    <2> QED
      BY <2>1, <2>2, <2>3 DEF Answered
  <1> QED
    BY <1>1, ImportsAlways, PTL

\* And a module is checked after the modules it imports, unless it stands on or above an
\* import cycle: typecheckImported forces only modules that wait for each other.
THEOREM ImportsAreChecked == I!Spec => []DependenciesFirst
  <1>1. LoadInv /\ OrderInv => DependenciesFirst
    <2> SUFFICES ASSUME LoadInv, OrderInv, NEW n \in DOMAIN order, NEW j \in I!Imports(order[n])
                 PROVE  \/ j \in {order[m] : m \in 1 .. n - 1}
                        \/ \E k \in I!Below(order[n]) : k \in I!Below(k)
      BY DEF DependenciesFirst, I!DependenciesFirst
    <2>1. n \in 1 .. Len(order) /\ LoadTyped
      BY DEF OrderInv, OrderTyped, LoadInv
    <2>2. PICK s \in SUBSET DOMAIN loaded : Layers(s)
      BY DEF OrderInv, Layered
    <2>3. CASE Earlier(n, j)
      BY <2>3 DEF Earlier
    <2>4. CASE order[n] \in s
      BY <2>1, <2>2, <2>4, TangleHasACycle DEF Layers
    <2> QED
      BY <2>1, <2>2, <2>3, <2>4 DEF Layers
  <1> QED
    BY <1>1, ImportsAlways, PTL
===============================================================================
