--------------------------- MODULE MpSemaphoreProofs --------------------------
(***************************************************************************)
(* Proofs about MpSemaphore for every set of processes: the type invariant *)
(* of any of the three objects; mutual exclusion of a Lock and the sum of  *)
(* the permits of each object, as long as programs release only what they  *)
(* hold and do not reuse a closed object.                                  *)
(***************************************************************************)
EXTENDS MCPipes, Functions, FiniteSetTheorems, FunctionTheorems, WellFoundedInduction, TLAPS

\* release() is inside its loop of posts only while it has one to do, so `todo`
\* never goes below zero: TypeOK alone is not inductive.
PostingOwes == \A p \in Users : place[p] = "posting" => todo[p] > 0
TypeInv == Sem!TypeOK /\ PostingOwes

LEMMA UsersAreFinite == IsFiniteSet(Users)
BY SemaphoreConstants DEF Sem!SemaphoreAssumption, Sem!IsFiniteSet, IsFiniteSet

LEMMA TypeInvInit == Sem!Init => TypeInv
BY SemaphoreConstants DEF Sem!SemaphoreAssumption, Sem!Init, TypeInv, Sem!TypeOK,
                          PostingOwes, Sem!InitialOf, Sem!Clamp

LEMMA TypeInvStep == TypeInv /\ [Sem!Next]_(Sem!vars) => TypeInv'
<1> SUFFICES ASSUME TypeInv, [Sem!Next]_(Sem!vars) PROVE TypeInv'
  OBVIOUS
<1> USE DEF TypeInv, Sem!TypeOK, PostingOwes
<1>1. CASE UNCHANGED Sem!vars
  BY <1>1 DEF Sem!vars, Sem!local
<1>2. ASSUME NEW p \in Users, Sem!TryAcquire(p) PROVE TypeInv'
  <2>1. CASE Sem!Take(p)
    BY <1>2, <2>1 DEF Sem!TryAcquire, Sem!Take, Sem!Goto, Sem!Obtains, Sem!local
  <2>2. CASE UNCHANGED <<value, place, held, flag>>
    BY <1>2, <2>2 DEF Sem!TryAcquire, Sem!local
  <2> QED
    BY <1>2, <2>1, <2>2 DEF Sem!TryAcquire
<1>3. ASSUME NEW p \in Users, NEW how \in {"waiting", "timed"}, Sem!Acquire(p, how)
      PROVE TypeInv'
  BY <1>3 DEF Sem!Acquire, Sem!Goto, Sem!local
<1>4. ASSUME NEW p \in Users, Sem!Acquired(p) PROVE TypeInv'
  BY <1>4 DEF Sem!Acquired, Sem!Take, Sem!Goto, Sem!Obtains, Sem!local
<1>5. ASSUME NEW p \in Users, Sem!Expire(p) PROVE TypeInv'
  BY <1>5 DEF Sem!Expire
<1>6. ASSUME NEW p \in Users, Sem!TimesOut(p) PROVE TypeInv'
  BY <1>6 DEF Sem!TimesOut, Sem!Goto, Sem!local
<1>7. ASSUME NEW p \in Users, Sem!AcquireClosed(p) PROVE TypeInv'
  BY <1>7 DEF Sem!AcquireClosed, Sem!Obtains, Sem!local
<1>8. ASSUME NEW p \in Users, NEW n \in 1 .. MaxPermits, Sem!Release(p, n)
      PROVE TypeInv'
  BY <1>8, SemaphoreConstants DEF Sem!SemaphoreAssumption, Sem!Release, Sem!Goto
<1>9. ASSUME NEW p \in Users, Sem!Post(p) PROVE TypeInv'
  <2>1. todo' \in [Users -> Nat] /\ todo'[p] = todo[p] - 1
    BY <1>9 DEF Sem!Post
  <2>2. held' \in [Users -> Nat]
    BY <1>9 DEF Sem!Post
  <2>3. use' \in Uses /\ value' \in Nat /\ expired' \in [Users -> BOOLEAN]
        /\ closed' \in [Users -> BOOLEAN] /\ flag' \in [Users -> BOOLEAN]
    BY <1>9 DEF Sem!Post
  <2>4. place' \in [Users -> {"idle", "waiting", "timed", "posting", "dead"}]
    BY <1>9 DEF Sem!Post, Sem!Goto
  <2>5. PostingOwes'
    BY <1>9, <2>1 DEF Sem!Post, Sem!Goto
  <2> QED
    BY <2>1, <2>2, <2>3, <2>4, <2>5
<1>10. ASSUME NEW p \in Users, Sem!Close(p) \/ Sem!ReleaseClosed(p) PROVE TypeInv'
  BY <1>10 DEF Sem!Close, Sem!ReleaseClosed, Sem!local
<1>11. ASSUME NEW p \in Users, Sem!Die(p) PROVE TypeInv'
  BY <1>11 DEF Sem!Die, Sem!Goto, Sem!local
<1> QED
  BY <1>1, <1>2, <1>3, <1>4, <1>5, <1>6, <1>7, <1>8, <1>9, <1>10, <1>11 DEF Sem!Next

\* The count, the permits handed out and those being given back keep their types
\* whatever the programs do with any of the three objects (mp_posix.c:776-815,
\* synchronize.sere): in particular release() never posts more than it was asked.
THEOREM TypeCorrect == Sem!Spec => []Sem!TypeOK
<1>1. TypeInv => Sem!TypeOK
  BY DEF TypeInv
<1> QED
  BY <1>1, TypeInvInit, TypeInvStep, PTL DEF Sem!Spec
-------------------------------------------------------------------------------
\* How the one permit of a Lock moves: it is in the kernel's count or with one
\* process, and a process that is posting still counts as having it.
LockUse == Sem!Disciplined /\ use.kind = "Lock"
OnePermit == /\ value <= 1
             /\ \A p \in Users : held[p] <= 1 /\ (value = 1 => held[p] = 0)
             /\ \A p, q \in Users : held[p] = 1 /\ held[q] = 1 => p = q
             /\ \A p \in Users :
                    place[p] = "posting" => todo[p] = 1 /\ held[p] = 1
             /\ \A p \in Users : flag[p] <=> held[p] > 0
LockInv == LockUse => OnePermit

LEMMA LockInvInit == Sem!Init => LockInv
BY DEF Sem!Init, LockInv, LockUse, OnePermit, Sem!InitialOf, Sem!Clamp

\* Nothing below happens to a lock whose program reuses closed objects.
LEMMA UseIsKept == [Sem!Next]_(Sem!vars) => (LockUse' <=> LockUse)
<1> SUFFICES ASSUME [Sem!Next]_(Sem!vars) PROVE use' = use
  BY DEF LockUse, Sem!Disciplined
<1> QED
  BY DEF Sem!Next, Sem!vars, Sem!local, Sem!TryAcquire, Sem!Acquire, Sem!Acquired,
         Sem!Expire, Sem!TimesOut,
         Sem!AcquireClosed, Sem!Release, Sem!Post, Sem!ReleaseClosed, Sem!Close, Sem!Die

LEMMA LockInvStep == TypeInv /\ LockInv /\ [Sem!Next]_(Sem!vars) => LockInv'
<1> SUFFICES ASSUME TypeInv, OnePermit, LockUse, [Sem!Next]_(Sem!vars) PROVE OnePermit'
  BY UseIsKept DEF LockInv
<1> USE DEF TypeInv, Sem!TypeOK, OnePermit
<1>1. CASE UNCHANGED Sem!vars
  BY <1>1 DEF Sem!vars, Sem!local
<1>2. ASSUME NEW p \in Users, place[p] # "posting", Sem!Take(p), UNCHANGED todo
      PROVE OnePermit'
  BY <1>2 DEF Sem!Take, Sem!Goto, Sem!Obtains
<1>3. ASSUME NEW p \in Users, Sem!TryAcquire(p) PROVE OnePermit'
  <2>1. CASE Sem!Take(p)
    BY <1>2, <1>3, <2>1 DEF Sem!TryAcquire, Sem!local
  <2>2. CASE UNCHANGED <<value, place, held, flag>>
    BY <1>3, <2>2 DEF Sem!TryAcquire, Sem!local
  <2> QED
    BY <1>3, <2>1, <2>2 DEF Sem!TryAcquire
<1>4. ASSUME NEW p \in Users, NEW how \in {"waiting", "timed"}, Sem!Acquire(p, how)
      PROVE OnePermit'
  BY <1>4 DEF Sem!Acquire, Sem!Goto, Sem!local
<1>5. ASSUME NEW p \in Users, Sem!Acquired(p) PROVE OnePermit'
  BY <1>2, <1>5 DEF Sem!Acquired
<1>6. ASSUME NEW p \in Users, Sem!Expire(p) \/ Sem!TimesOut(p) PROVE OnePermit'
  BY <1>6 DEF Sem!Expire, Sem!TimesOut, Sem!Goto
<1>7. ASSUME NEW p \in Users, Sem!AcquireClosed(p) \/ Sem!ReleaseClosed(p)
      PROVE OnePermit'
  BY <1>7 DEF Sem!AcquireClosed, Sem!ReleaseClosed, LockUse, Sem!Disciplined
<1>8. ASSUME NEW p \in Users, NEW n \in 1 .. MaxPermits, Sem!Release(p, n)
      PROVE OnePermit'
  <2>1. n = 1 /\ held[p] = 1
    BY <1>8, SemaphoreConstants DEF Sem!SemaphoreAssumption, Sem!Release, LockUse,
                                    Sem!Disciplined
  <2> QED
    BY <1>8, <2>1 DEF Sem!Release, Sem!Goto
<1>9. ASSUME NEW p \in Users, Sem!Post(p) PROVE OnePermit'
  <2>1. todo[p] = 1 /\ held[p] = 1 /\ value = 0 /\ place' = [place EXCEPT ![p] = "idle"]
    BY <1>9 DEF Sem!Post, Sem!Goto
  <2>2. held' = [held EXCEPT ![p] = 0] /\ value' = 1
        /\ todo' = [todo EXCEPT ![p] = 0] /\ flag' = [flag EXCEPT ![p] = FALSE]
    BY <1>9, <2>1 DEF Sem!Post
  <2> QED
    BY <2>1, <2>2
<1>10. ASSUME NEW p \in Users, Sem!Close(p) \/ Sem!Die(p) PROVE OnePermit'
  BY <1>10 DEF Sem!Close, Sem!Die, Sem!Goto
<1> QED
  BY <1>1, <1>3, <1>4, <1>5, <1>6, <1>7, <1>8, <1>9, <1>10 DEF Sem!Next

\* The inductive invariant of a Lock's life.
LEMMA LockInvariant == Sem!Spec => [](TypeInv /\ LockInv)
<1>1. Sem!Init => TypeInv /\ LockInv
  BY TypeInvInit, LockInvInit
<1>2. TypeInv /\ LockInv /\ [Sem!Next]_(Sem!vars) => (TypeInv /\ LockInv)'
  BY TypeInvStep, LockInvStep
<1> QED
  BY <1>1, <1>2, PTL DEF Sem!Spec

\* A Lock excludes: however many processes acquire, time out, release, close or
\* die in whatever order, at most one of them holds it (synchronize.sere:8-9).
THEOREM LockExcludes == Sem!Spec => []MutualExclusion
<1>1. TypeInv /\ LockInv => MutualExclusion
  BY DEF TypeInv, Sem!TypeOK, LockInv, LockUse, OnePermit, MutualExclusion,
         Sem!MutualExclusion, Sem!Holders, Sem!Disciplined
<1> QED
  BY <1>1, LockInvariant, PTL

\* Lock.locked() answers for the calling process exactly (synchronize.sere:141).
THEOREM LockedAnswers == Sem!Spec => []Sem!LockedIsRight
<1>1. TypeInv /\ LockInv => Sem!LockedIsRight
  BY DEF LockInv, LockUse, OnePermit, Sem!LockedIsRight
<1> QED
  BY <1>1, LockInvariant, PTL
-------------------------------------------------------------------------------
(***************************************************************************)
(* SumFunction is defined by recursion over the subsets of its argument's  *)
(* domain.  It is shown to count the bars of a diagram, f[x] of them above *)
(* each x; what a step adds or takes away is then one bar.                 *)
(***************************************************************************)
Bars(f, s) == {b \in s \X Nat : b[2] \in 1 .. f[b[1]]}
Some(s) == CHOOSE x \in s : TRUE
Sums(f, iter) == iter = [s \in SUBSET DOMAIN f |->
                           IF s = {} THEN 0 ELSE f[Some(s)] + iter[s \ {Some(s)}]]

LEMMA SumIs ==
    ASSUME NEW f PROVE Sem!SumFunction(f) = (CHOOSE iter : Sums(f, iter))[DOMAIN f]
  BY DEF Sem!SumFunction, Sem!SumFunctionOnSet, Sem!FoldFunctionOnSet, Sem!MapThenFoldSet,
         Sums, Some

\* Removing x from s takes away its f[x] bars.
LEMMA BarsOf ==
    ASSUME NEW s, NEW f, NEW x \in s, f[x] \in Nat
    PROVE  /\ Bars(f, s) = Bars(f, s \ {x}) \cup ({x} \X (1 .. f[x]))
           /\ Bars(f, s \ {x}) \cap ({x} \X (1 .. f[x])) = {}
  BY DEF Bars

LEMMA BarsFinite ==
    ASSUME NEW s, IsFiniteSet(s), NEW f, \A x \in s : f[x] \in Nat
    PROVE  IsFiniteSet(Bars(f, s)) /\ Cardinality(Bars(f, s)) \in Nat
  <1> DEFINE column == [x \in s |-> {x} \X (1 .. f[x])]
  <1>1. IsFiniteSet(Range(column))
    <2>1. column \in [s -> {column[x] : x \in s}]
      OBVIOUS
    <2>2. column \in Surjection(s, Range(column))
      BY <2>1, Fun_RangeProperties
    <2> QED
      BY <2>2, FS_Surjection
  <1>2. ASSUME NEW T \in Range(column) PROVE IsFiniteSet(T)
    <2>1. PICK x \in s : T = {x} \X (1 .. f[x])
      BY DEF Range
    <2>2. IsFiniteSet({x})
      BY FS_Singleton
    <2>3. f[x] \in Int /\ 1 \in Int
      OBVIOUS
    <2>4. IsFiniteSet(1 .. f[x])
      BY <2>3, FS_Interval
    <2> QED
      BY <2>1, <2>2, <2>4, FS_Product
  <1>3. IsFiniteSet(UNION Range(column))
    BY <1>1, <1>2, FS_UNION
  <1>4. Bars(f, s) \subseteq UNION Range(column)
    BY DEF Bars, Range
  <1> QED
    BY <1>3, <1>4, FS_Subset, FS_CardinalityType

LEMMA BarsCount ==
    ASSUME NEW s, IsFiniteSet(s), NEW f, \A x \in s : f[x] \in Nat, NEW x \in s
    PROVE  Cardinality(Bars(f, s)) = f[x] + Cardinality(Bars(f, s \ {x}))
  <1> DEFINE rest == Bars(f, s \ {x})  column == {x} \X (1 .. f[x])
  <1>1. IsFiniteSet(rest) /\ Cardinality(rest) \in Nat
    <2>1. IsFiniteSet(s \ {x})
      BY FS_RemoveElement
    <2> QED
      BY <2>1, BarsFinite
  <1>2. IsFiniteSet(column) /\ Cardinality(column) = f[x]
    <2>1. IsFiniteSet({x}) /\ Cardinality({x}) = 1
      BY FS_Singleton
    <2>2. f[x] \in Nat /\ f[x] \in Int /\ 1 \in Int
      OBVIOUS
    <2>3. /\ IsFiniteSet(1 .. f[x])
          /\ Cardinality(1 .. f[x]) = IF 1 > f[x] THEN 0 ELSE f[x] - 1 + 1
      BY <2>2, FS_Interval
    <2>4. Cardinality(1 .. f[x]) = f[x]
      BY <2>2, <2>3
    <2>5. IsFiniteSet(column) /\ Cardinality(column) = 1 * f[x]
      BY Z3, <2>1, <2>3, <2>4, FS_Product
    <2> QED
      BY <2>2, <2>5
  <1>3. Bars(f, s) = rest \cup column /\ rest \cap column = {}
    BY BarsOf
  <1> HIDE DEF rest, column
  <1>4. Cardinality(rest \cup column) = Cardinality(rest) + Cardinality(column)
                                        - Cardinality(rest \cap column)
    BY <1>1, <1>2, FS_Union
  <1>5. Cardinality(rest \cap column) = 0
    BY <1>3, FS_EmptySet
  <1>6. f[x] \in Nat
    OBVIOUS
  <1>7. Cardinality(rest \cup column) = f[x] + Cardinality(rest)
    BY <1>1, <1>2, <1>4, <1>5, <1>6
  <1>8. Cardinality(Bars(f, s)) = f[x] + Cardinality(rest)
    BY <1>3, <1>7
  <1> QED
    BY <1>8 DEF rest

\* What the recursion defines: by a minimal counterexample among the subsets.
LEMMA SumsAre ==
    ASSUME NEW f, IsFiniteSet(DOMAIN f), \A x \in DOMAIN f : f[x] \in Nat,
           NEW iter, Sums(f, iter), NEW t \in SUBSET DOMAIN f
    PROVE  iter[t] = Cardinality(Bars(f, t))
  <1> DEFINE Wrong == {s \in SUBSET DOMAIN f : iter[s] # Cardinality(Bars(f, s))}
  <1> SUFFICES ASSUME Wrong # {} PROVE FALSE
    OBVIOUS
  <1>1. Wrong \subseteq FiniteSubsetsOf(DOMAIN f)
    BY FS_Subset DEF FiniteSubsetsOf
  <1>2. PICK s \in Wrong : \A r \in Wrong : <<r, s>> \notin StrictSubsetOrdering(DOMAIN f)
    BY <1>1, WFMin, FS_StrictSubsetOrderingWellFounded
  <1>3. s \in SUBSET DOMAIN f /\ iter[s] # Cardinality(Bars(f, s)) /\ IsFiniteSet(s)
    BY FS_Subset
  <1>4. iter[s] = IF s = {} THEN 0 ELSE f[Some(s)] + iter[s \ {Some(s)}]
    BY <1>3 DEF Sums
  <1>5. CASE s = {}
    <2>1. Bars(f, s) = {}
      BY <1>5 DEF Bars
    <2> QED
      BY <2>1, <1>3, <1>4, <1>5, FS_EmptySet
  <1>6. CASE s # {}
    <2>1. Some(s) \in s
      BY <1>6 DEF Some
    <2>2. <<s \ {Some(s)}, s>> \in StrictSubsetOrdering(DOMAIN f)
      BY <2>1, <1>3 DEF StrictSubsetOrdering
    <2>3. iter[s \ {Some(s)}] = Cardinality(Bars(f, s \ {Some(s)}))
      BY <2>2, <1>2, <1>3
    <2>4. \A x \in s : f[x] \in Nat
      BY <1>3
    <2>5. Cardinality(Bars(f, s)) = f[Some(s)] + Cardinality(Bars(f, s \ {Some(s)}))
      BY <1>3, <2>1, <2>4, BarsCount
    <2> QED
      BY <1>3, <1>4, <1>6, <2>3, <2>5
  <1> QED
    BY <1>5, <1>6

LEMMA SumsExist ==
    ASSUME NEW f, IsFiniteSet(DOMAIN f), \A x \in DOMAIN f : f[x] \in Nat
    PROVE  \E iter : Sums(f, iter)
  <1> DEFINE G == [s \in SUBSET DOMAIN f |-> Cardinality(Bars(f, s))]
             F == [s \in SUBSET DOMAIN f |->
                     IF s = {} THEN 0 ELSE f[Some(s)] + G[s \ {Some(s)}]]
  <1>1. ASSUME NEW s \in SUBSET DOMAIN f PROVE G[s] = F[s]
    <2>1. CASE s = {}
      <3>1. Bars(f, s) = {}
        BY <2>1 DEF Bars
      <3> QED
        BY <2>1, <3>1, FS_EmptySet
    <2>2. CASE s # {}
      <3>1. Some(s) \in s
        BY <2>2 DEF Some
      <3>2. IsFiniteSet(s) /\ (\A x \in s : f[x] \in Nat)
        BY FS_Subset
      <3>3. Cardinality(Bars(f, s)) = f[Some(s)] + Cardinality(Bars(f, s \ {Some(s)}))
        BY <3>1, <3>2, BarsCount
      <3>4. G[s \ {Some(s)}] = Cardinality(Bars(f, s \ {Some(s)}))
        OBVIOUS
      <3> QED
        BY <2>2, <3>3, <3>4
    <2> QED
      BY <2>1, <2>2
  <1>2. G = F
    BY <1>1
  <1>3. Sums(f, G)
    BY <1>2 DEF Sums
  <1> QED
    BY <1>3

LEMMA SumIsBars ==
    ASSUME NEW f, IsFiniteSet(DOMAIN f), \A x \in DOMAIN f : f[x] \in Nat
    PROVE  Sem!SumFunction(f) = Cardinality(Bars(f, DOMAIN f))
  <1> DEFINE it == CHOOSE iter : Sums(f, iter)
  <1>1. Sums(f, it)
    BY SumsExist
  <1>2. it[DOMAIN f] = Cardinality(Bars(f, DOMAIN f))
    <2> HIDE DEF it
    <2> QED
      BY <1>1, SumsAre
  <1> QED
    BY <1>2, SumIs

\* A sum is a natural number, and changes with one of its terms.
LEMMA SumChanges ==
    ASSUME NEW S, IsFiniteSet(S), NEW f \in [S -> Nat], NEW x \in S, NEW n \in Nat
    PROVE  /\ Sem!SumFunction(f) \in Nat /\ f[x] <= Sem!SumFunction(f)
           /\ Sem!SumFunction([f EXCEPT ![x] = n]) = Sem!SumFunction(f) - f[x] + n
  <1> DEFINE g == [f EXCEPT ![x] = n]
  <1>1. g \in [S -> Nat] /\ DOMAIN f = S /\ DOMAIN g = S /\ g[x] = n
    OBVIOUS
  <1>2. Sem!SumFunction(f) = Cardinality(Bars(f, S))
    BY <1>1, SumIsBars
  <1>3. Sem!SumFunction(g) = Cardinality(Bars(g, S))
    <2> HIDE DEF g
    <2> QED
      BY <1>1, SumIsBars
  <1>4. Cardinality(Bars(f, S)) = f[x] + Cardinality(Bars(f, S \ {x}))
    BY BarsCount
  <1>5. Cardinality(Bars(g, S)) = n + Cardinality(Bars(g, S \ {x}))
    <2> HIDE DEF g
    <2> QED
      BY <1>1, BarsCount
  <1>6. Bars(g, S \ {x}) = Bars(f, S \ {x})
    BY DEF Bars
  <1>7. Cardinality(Bars(f, S \ {x})) \in Nat
    <2>1. IsFiniteSet(S \ {x})
      BY FS_RemoveElement
    <2> QED
      BY <2>1, BarsFinite
  <1> HIDE DEF g
  <1>8. f[x] \in Nat
    OBVIOUS
  <1>9. Sem!SumFunction(g) = Sem!SumFunction(f) - f[x] + n
    BY <1>2, <1>3, <1>4, <1>5, <1>6, <1>7, <1>8
  <1> QED
    BY <1>2, <1>4, <1>7, <1>8, <1>9 DEF g

LEMMA SumZero == ASSUME NEW S, IsFiniteSet(S) PROVE Sem!SumFunction([x \in S |-> 0]) = 0
  <1> DEFINE f == [x \in S |-> 0]
  <1>1. Sem!SumFunction(f) = Cardinality(Bars(f, S))
    BY SumIsBars
  <1>2. Bars(f, S) = {}
    BY DEF Bars
  <1> QED
    BY <1>1, <1>2, FS_EmptySet

\* A release() in progress gives back only permits its process still holds.
OwesWhatItHolds == \A p \in Users : place[p] = "posting" => todo[p] <= held[p]
PermitsInv == Sem!Disciplined => /\ OwesWhatItHolds
                             /\ value + Sem!SumFunction(held) = Sem!InitialOf(use.kind)

LEMMA PermitsInit == Sem!Init => PermitsInv
  <1> SUFFICES ASSUME Sem!Init PROVE PermitsInv
    OBVIOUS
  <1>1. Sem!SumFunction(held) = 0
    BY SumZero, UsersAreFinite DEF Sem!Init
  <1>2. Sem!InitialOf(use.kind) \in Nat
    BY SemaphoreConstants DEF Sem!SemaphoreAssumption, Sem!InitialOf, Sem!Clamp
  <1> QED
    BY <1>1, <1>2 DEF Sem!Init, PermitsInv, OwesWhatItHolds

\* What an obtained permit does to the sum, and what a returned one does.
LEMMA Obtained ==
    ASSUME Sem!TypeOK, NEW p \in Users, Sem!Obtains(p)
    PROVE  Sem!SumFunction(held)' = Sem!SumFunction(held) + 1 /\ Sem!SumFunction(held) \in Nat
  <1>1. held \in [Users -> Nat] /\ held[p] \in Nat /\ held[p] + 1 \in Nat
    BY DEF Sem!TypeOK
  <1>2. held' = [held EXCEPT ![p] = held[p] + 1]
    BY DEF Sem!Obtains
  <1>3. /\ Sem!SumFunction(held) \in Nat
        /\ Sem!SumFunction([held EXCEPT ![p] = held[p] + 1])
           = Sem!SumFunction(held) - held[p] + (held[p] + 1)
    BY <1>1, SumChanges, UsersAreFinite
  <1>4. Sem!SumFunction(held)' = Sem!SumFunction([held EXCEPT ![p] = held[p] + 1])
    BY <1>2
  <1> QED
    BY <1>1, <1>3, <1>4

LEMMA Returned ==
    ASSUME Sem!TypeOK, NEW p \in Users, Sem!Post(p), held[p] > 0
    PROVE  Sem!SumFunction(held)' = Sem!SumFunction(held) - 1 /\ Sem!SumFunction(held) \in Nat
  <1>1. held \in [Users -> Nat] /\ held[p] \in Nat /\ held[p] - 1 \in Nat
    BY DEF Sem!TypeOK
  <1>2. held' = [held EXCEPT ![p] = held[p] - 1]
    BY <1>1 DEF Sem!Post
  <1>3. /\ Sem!SumFunction(held) \in Nat
        /\ Sem!SumFunction([held EXCEPT ![p] = held[p] - 1])
           = Sem!SumFunction(held) - held[p] + (held[p] - 1)
    <2> DEFINE n == held[p] - 1
    <2>1. n \in Nat
      BY <1>1
    <2> HIDE DEF n
    <2>2. /\ Sem!SumFunction(held) \in Nat
          /\ Sem!SumFunction([held EXCEPT ![p] = n]) = Sem!SumFunction(held) - held[p] + n
      BY <1>1, <2>1, SumChanges, UsersAreFinite
    <2> QED
      BY <2>2 DEF n
  <1>4. Sem!SumFunction(held)' = Sem!SumFunction([held EXCEPT ![p] = held[p] - 1])
    BY <1>2
  <1> QED
    BY <1>1, <1>3, <1>4

LEMMA PermitsStep == TypeInv /\ PermitsInv /\ [Sem!Next]_(Sem!vars) => PermitsInv'
  <1> SUFFICES ASSUME TypeInv, PermitsInv, [Sem!Next]_(Sem!vars), Sem!Disciplined'
               PROVE  OwesWhatItHolds' /\ (value + Sem!SumFunction(held) = Sem!InitialOf(use.kind))'
    BY DEF PermitsInv
  <1>0. use' = use
    BY DEF Sem!Next, Sem!TryAcquire, Sem!Acquire, Sem!Acquired, Sem!Expire, Sem!TimesOut,
           Sem!AcquireClosed, Sem!Release,
           Sem!Post, Sem!ReleaseClosed, Sem!Close, Sem!Die, Sem!local, Sem!vars
  <1> DEFINE n == Sem!InitialOf(use.kind)
  <1>1. /\ Sem!Disciplined /\ OwesWhatItHolds /\ Sem!InitialOf(use.kind)' = n /\ Sem!TypeOK
        /\ value \in Nat /\ value + Sem!SumFunction(held) = n /\ use.paired /\ ~use.reuses
    BY <1>0 DEF PermitsInv, Sem!Disciplined, TypeInv, Sem!TypeOK
  <1> HIDE DEF n
  <1>2. ASSUME NEW p \in Users, Sem!Take(p), UNCHANGED todo
        PROVE  OwesWhatItHolds' /\ (value + Sem!SumFunction(held) = Sem!InitialOf(use.kind))'
    <2>1. Sem!SumFunction(held)' = Sem!SumFunction(held) + 1 /\ Sem!SumFunction(held) \in Nat
      BY <1>1, <1>2, Obtained DEF Sem!Take
    <2>2. value' = value - 1
      BY <1>2 DEF Sem!Take
    <2>3. (value + Sem!SumFunction(held) = Sem!InitialOf(use.kind))'
      BY <1>1, <2>1, <2>2
    <2>4. OwesWhatItHolds'
      BY <1>1, <1>2 DEF OwesWhatItHolds, Sem!Take, Sem!Goto, Sem!Obtains, Sem!TypeOK
    <2> QED
      BY <2>3, <2>4
  <1>3. ASSUME UNCHANGED <<value, held, todo>>, UNCHANGED place \/
               (\E p \in Users, l \in {"idle", "waiting", "timed"} : Sem!Goto(p, l))
        PROVE  OwesWhatItHolds' /\ (value + Sem!SumFunction(held) = Sem!InitialOf(use.kind))'
    BY <1>1, <1>3 DEF OwesWhatItHolds, Sem!Goto, Sem!TypeOK
  <1>4. ASSUME NEW p \in Users, NEW k \in 1 .. MaxPermits, Sem!Release(p, k)
        PROVE  OwesWhatItHolds' /\ (value + Sem!SumFunction(held) = Sem!InitialOf(use.kind))'
    BY <1>1, <1>4 DEF OwesWhatItHolds, Sem!Release, Sem!Goto, Sem!TypeOK
  <1>5. ASSUME NEW p \in Users, Sem!Post(p)
        PROVE  OwesWhatItHolds' /\ (value + Sem!SumFunction(held) = Sem!InitialOf(use.kind))'
    <2>1. todo[p] \in Nat /\ held[p] \in Nat /\ todo[p] > 0 /\ todo[p] <= held[p]
      BY <1>1, <1>5 DEF Sem!Post, TypeInv, Sem!TypeOK, PostingOwes, OwesWhatItHolds
    <2>2. Sem!SumFunction(held)' = Sem!SumFunction(held) - 1 /\ Sem!SumFunction(held) \in Nat
      BY <1>1, <1>5, <2>1, Returned
    <2>3. value' = value + 1
      BY <1>5 DEF Sem!Post
    <2>4. (value + Sem!SumFunction(held) = Sem!InitialOf(use.kind))'
      BY <1>1, <2>2, <2>3
    <2>5. held' = [held EXCEPT ![p] = held[p] - 1] /\ todo' = [todo EXCEPT ![p] = todo[p] - 1]
      <3>1. held[p] > 0
        BY <2>1
      <3> QED
        BY <1>5, <3>1 DEF Sem!Post
    <2>6. \A q \in Users : place'[q] = "posting" => place[q] = "posting"
      BY <1>1, <1>5 DEF Sem!Post, Sem!Goto, Sem!TypeOK
    <2>7. OwesWhatItHolds'
      BY <1>1, <2>1, <2>5, <2>6 DEF OwesWhatItHolds, Sem!TypeOK
    <2> QED
      BY <2>4, <2>7
  <1>6. ASSUME NEW p \in Users, Sem!Die(p)
        PROVE  OwesWhatItHolds' /\ (value + Sem!SumFunction(held) = Sem!InitialOf(use.kind))'
    BY <1>1, <1>6 DEF OwesWhatItHolds, Sem!Die, Sem!Goto, Sem!TypeOK
  <1>7. ASSUME NEW p \in Users, Sem!AcquireClosed(p) PROVE FALSE
    BY <1>1, <1>7 DEF Sem!AcquireClosed
  <1>8. CASE UNCHANGED Sem!vars
    BY <1>3, <1>8 DEF Sem!vars, Sem!local
  <1>9. ASSUME NEW p \in Users, Sem!TryAcquire(p)
        PROVE  OwesWhatItHolds' /\ (value + Sem!SumFunction(held) = Sem!InitialOf(use.kind))'
    BY <1>2, <1>3, <1>9 DEF Sem!TryAcquire, Sem!local
  <1>10. ASSUME NEW p \in Users, NEW how \in {"waiting", "timed"}, Sem!Acquire(p, how)
         PROVE  OwesWhatItHolds' /\ (value + Sem!SumFunction(held) = Sem!InitialOf(use.kind))'
    <2>1. UNCHANGED <<value, held, todo>> /\ Sem!Goto(p, how)
      BY <1>10 DEF Sem!Acquire, Sem!local
    <2> QED
      BY <1>3, <2>1
  <1>11. ASSUME NEW p \in Users, Sem!Acquired(p)
         PROVE  OwesWhatItHolds' /\ (value + Sem!SumFunction(held) = Sem!InitialOf(use.kind))'
    BY <1>2, <1>11 DEF Sem!Acquired
  <1>12. ASSUME NEW p \in Users,
                Sem!Expire(p) \/ Sem!TimesOut(p) \/ Sem!ReleaseClosed(p) \/ Sem!Close(p)
         PROVE  OwesWhatItHolds' /\ (value + Sem!SumFunction(held) = Sem!InitialOf(use.kind))'
    <2>1. UNCHANGED <<value, held, todo>> /\ (UNCHANGED place \/ Sem!Goto(p, "idle"))
      BY <1>12 DEF Sem!Expire, Sem!TimesOut, Sem!ReleaseClosed, Sem!Close, Sem!local
    <2> QED
      BY <1>3, <2>1
  <1> QED
    BY <1>4, <1>5, <1>6, <1>7, <1>8, <1>9, <1>10, <1>11, <1>12 DEF Sem!Next

\* Whatever the processes do with any of the three objects, as long as they
\* release what they hold and do not reuse a closed one: the kernel's count and
\* the permits held add up to what the object was created with, so none appears
\* or is lost, not even when a process dies between two posts of one release().
THEOREM PermitsAreConserved == Sem!Spec => []PermitsConserved
  <1>1. PermitsInv => PermitsConserved
    BY DEF PermitsInv, PermitsConserved, Sem!PermitsConserved
  <1> QED
    BY <1>1, TypeInvInit, TypeInvStep, PermitsInit, PermitsStep, PTL DEF Sem!Spec
===============================================================================
