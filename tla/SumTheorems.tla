---------------------------- MODULE SumTheorems ----------------------------
(***************************************************************************)
(* Sums over finite sets, as the money invariants use them: what is locked *)
(* in a wallet is the sum of the stakes that are open, what it holds is    *)
(* the sum of its ledger rows. And products: the value of a combo.         *)
(*                                                                         *)
(* SumFunctionOnSet is a fold, defined by recursion over the subsets of    *)
(* the set it runs through. Induction is therefore needed, and is written  *)
(* here over sets: a set of counterexamples that is not empty has a        *)
(* smallest member, because strict inclusion of finite sets is             *)
(* well-founded.                                                           *)
(***************************************************************************)
EXTENDS Integers, FiniteSets, Functions, FiniteSetTheorems, TLAPS

\* The element the fold takes first.
Pick(s) == CHOOSE x \in s : TRUE

\* g is the recursive function the fold is defined by.
IsIter(g, f, S) ==
  g = [s \in SUBSET S |-> IF s = {} THEN 0 ELSE f[Pick(s)] + g[s \ {Pick(s)}]]

\* A sum is that function's value, whichever one CHOOSE takes.
LEMMA SumUnfold ==
  ASSUME NEW f, NEW S
  PROVE  SumFunctionOnSet(f, S) = (CHOOSE g : IsIter(g, f, S))[S]
  BY DEF SumFunctionOnSet, FoldFunctionOnSet, MapThenFoldSet, IsIter, Pick

-----------------------------------------------------------------------------
(* Induction *)

\* A family of finite sets that is not empty has a smallest member.
LEMMA SmallestSet ==
  ASSUME NEW S, NEW T \in SUBSET FiniteSubsetsOf(S), T # {}
  PROVE  \E x \in T : \A y \in T : y \subseteq x => y = x
  <1>1. PICK x \in T : \A y \in T : <<y, x>> \notin StrictSubsetOrdering(S)
    BY WFMin, FS_StrictSubsetOrderingWellFounded
  <1>2. T \subseteq SUBSET S
    BY DEF FiniteSubsetsOf
  <1> QED BY <1>1, <1>2 DEF StrictSubsetOrdering

\* A set of naturals that is not empty has a least element: intervals from 0,
\* ordered by inclusion.
LEMMA NatLeast ==
  ASSUME NEW T \in SUBSET Nat, T # {}
  PROVE  \E n \in T : \A m \in T : n <= m
  <1> DEFINE U == {0..n : n \in T}
  <1>1. \A n \in T : 0..n \in FiniteSubsetsOf(Nat)
    <2> TAKE n \in T
    <2>1. IsFiniteSet(0..n)
      BY FS_Interval
    <2>2. 0..n \in SUBSET Nat
      OBVIOUS
    <2> QED BY <2>1, <2>2 DEF FiniteSubsetsOf
  <1>2. PICK x \in U : \A y \in U : y \subseteq x => y = x
    <2>1. U \in SUBSET FiniteSubsetsOf(Nat) /\ U # {}
      BY <1>1
    <2> HIDE DEF U
    <2> QED BY <2>1, SmallestSet
  <1>3. PICK n \in T : x = 0..n
    OBVIOUS
  <1>4. ASSUME NEW m \in T, m < n PROVE FALSE
    <2>1. 0..m \in U /\ 0..m \subseteq 0..n /\ n \notin 0..m /\ n \in 0..n
      BY <1>4
    <2> HIDE DEF U
    <2> QED BY <2>1, <1>2, <1>3
  <1> QED BY <1>4

\* Induction over the naturals, for a set of them.
LEMMA NatSetInduction ==
  ASSUME NEW Q \in SUBSET Nat, 0 \in Q, \A n \in Q : n + 1 \in Q
  PROVE  \A n \in Nat : n \in Q
  <1> SUFFICES ASSUME Nat \ Q # {} PROVE FALSE
    OBVIOUS
  <1>1. PICK n \in Nat \ Q : \A m \in Nat \ Q : n <= m
    BY NatLeast
  <1>2. n # 0 /\ n - 1 \in Nat
    OBVIOUS
  <1>3. n - 1 \in Q
    BY <1>1, <1>2
  <1> QED BY <1>3, <1>1

\* Induction over the subsets of a finite set, the principle the facts about
\* sums are proved with.
LEMMA SubsetInduction ==
  ASSUME NEW S, IsFiniteSet(S), NEW Q \in SUBSET (SUBSET S),
         \A s \in SUBSET S : (\A t \in SUBSET s : t # s => t \in Q) => s \in Q
  PROVE  \A s \in SUBSET S : s \in Q
  <1> DEFINE B == (SUBSET S) \ Q
  <1> SUFFICES ASSUME B # {} PROVE FALSE
    OBVIOUS
  <1>1. B \in SUBSET FiniteSubsetsOf(S)
    BY FS_FiniteSubsetsOfFinite
  <1>2. PICK x \in B : \A y \in B : y \subseteq x => y = x
    <2> HIDE DEF B
    <2> QED BY <1>1, SmallestSet
  <1>3. x \in SUBSET S /\ \A t \in SUBSET x : t # x => t \in Q
    BY <1>2
  <1> QED BY <1>3

-----------------------------------------------------------------------------
(* The recursive function exists *)

\* The subsets of at most n elements, and the function up to them.
Level(S, n) == {s \in SUBSET S : Cardinality(s) <= n}

IsIterTo(g, f, S, n) ==
  g = [s \in Level(S, n) |-> IF s = {} THEN 0 ELSE f[Pick(s)] + g[s \ {Pick(s)}]]

\* The fold takes an element of the set.
LEMMA PickIn ==
  ASSUME NEW s, s # {}
  PROVE  Pick(s) \in s
  BY DEF Pick

\* Without the element taken first a set is one level down.
LEMMA LevelStep ==
  ASSUME NEW S, IsFiniteSet(S), NEW n \in Nat, NEW s \in Level(S, n + 1), s # {}
  PROVE  /\ s \ {Pick(s)} \in Level(S, n)
         /\ Cardinality(s) \in Nat
  <1>1. s \subseteq S /\ IsFiniteSet(s) /\ Cardinality(s) <= n + 1
    BY FS_Subset DEF Level
  <1>2. /\ Cardinality(s) \in Nat
        /\ Cardinality(s \ {Pick(s)}) = Cardinality(s) - 1
    BY <1>1, FS_CardinalityType, FS_RemoveElement, PickIn
  <1> QED BY <1>1, <1>2 DEF Level

\* The recursive equation has a solution over a finite set, level by level.
LEMMA IterExists ==
  ASSUME NEW f, NEW S, IsFiniteSet(S)
  PROVE  \E g : IsIter(g, f, S)
  <1> DEFINE Q == {n \in Nat : \E g : IsIterTo(g, f, S, n)}
  <1>1. 0 \in Q
    <2> DEFINE g == [s \in Level(S, 0) |-> 0]
    <2>1. \A s \in Level(S, 0) : s = {}
      BY FS_Subset, FS_EmptySet, FS_CardinalityType DEF Level
    <2>2. IsIterTo(g, f, S, 0)
      BY <2>1 DEF IsIterTo
    <2> QED BY <2>2
  <1>2. \A n \in Q : n + 1 \in Q
    <2> TAKE n \in Q
    <2>1. PICK g : IsIterTo(g, f, S, n)
      OBVIOUS
    <2> DEFINE h == [s \in Level(S, n + 1) |->
                       IF s \in Level(S, n) THEN g[s] ELSE f[Pick(s)] + g[s \ {Pick(s)}]]
    <2>2. ASSUME NEW s \in Level(S, n + 1)
          PROVE  h[s] = IF s = {} THEN 0 ELSE f[Pick(s)] + h[s \ {Pick(s)}]
      <3>1. CASE s = {}
        <4>1. s \in Level(S, n)
          BY <3>1, FS_EmptySet DEF Level
        <4> QED BY <4>1, <3>1, <2>1 DEF IsIterTo
      <3>2. CASE s # {}
        <4>1. s \ {Pick(s)} \in Level(S, n)
          BY <3>2, LevelStep
        <4>2. s \ {Pick(s)} \in Level(S, n + 1)
          BY <4>1, FS_Subset, FS_CardinalityType DEF Level
        <4>3. h[s \ {Pick(s)}] = g[s \ {Pick(s)}]
          BY <4>1, <4>2
        <4>4. h[s] = f[Pick(s)] + g[s \ {Pick(s)}]
          BY <2>1, <3>2 DEF IsIterTo
        <4> QED BY <3>2, <4>3, <4>4
      <3> QED BY <3>1, <3>2
    <2>3. h = [s \in Level(S, n + 1) |-> IF s = {} THEN 0 ELSE f[Pick(s)] + h[s \ {Pick(s)}]]
      <3>1. h = [s \in Level(S, n + 1) |-> h[s]]
        OBVIOUS
      <3> HIDE DEF h
      <3> QED BY <3>1, <2>2
    <2>4. IsIterTo(h, f, S, n + 1)
      <3> HIDE DEF h
      <3> QED BY <2>3 DEF IsIterTo
    <2> HIDE DEF h
    <2> QED BY <2>4
  <1> DEFINE N == Cardinality(S)
  <1>3. N \in Nat
    BY FS_CardinalityType
  <1>4. PICK g : IsIterTo(g, f, S, N)
    <2> HIDE DEF N
    <2>1. N \in Q
      BY <1>1, <1>2, <1>3, NatSetInduction
    <2> QED BY <2>1
  <1>5. Level(S, N) = SUBSET S
    BY FS_Subset DEF Level
  <1>6. IsIter(g, f, S)
    BY <1>4, <1>5 DEF IsIterTo, IsIter
  <1> QED BY <1>6

-----------------------------------------------------------------------------
(* Sums *)

Iter(f, S) == CHOOSE g : IsIter(g, f, S)

\* The function satisfies its equation.
LEMMA IterValue ==
  ASSUME NEW f, NEW S, IsFiniteSet(S), NEW s \in SUBSET S
  PROVE  Iter(f, S)[s] = IF s = {} THEN 0 ELSE f[Pick(s)] + Iter(f, S)[s \ {Pick(s)}]
  <1>1. IsIter(Iter(f, S), f, S)
    BY IterExists DEF Iter
  <1> QED BY <1>1 DEF IsIter

\* It has the same values whether it is built for a set or for a larger one.
LEMMA IterSame ==
  ASSUME NEW f, NEW S, IsFiniteSet(S), NEW T \in SUBSET S
  PROVE  \A s \in SUBSET T : Iter(f, S)[s] = Iter(f, T)[s]
  <1> DEFINE Q == {s \in SUBSET T : Iter(f, S)[s] = Iter(f, T)[s]}
  <1>1. IsFiniteSet(T)
    BY FS_Subset
  <1>2. ASSUME NEW s \in SUBSET T, \A t \in SUBSET s : t # s => t \in Q
        PROVE  s \in Q
    <2>1. s \in SUBSET S
      OBVIOUS
    <2>2. s # {} => s \ {Pick(s)} \in Q
      BY <1>2, PickIn
    <2>3. Iter(f, S)[s] = IF s = {} THEN 0 ELSE f[Pick(s)] + Iter(f, S)[s \ {Pick(s)}]
      BY <2>1, IterValue
    <2>4. Iter(f, T)[s] = IF s = {} THEN 0 ELSE f[Pick(s)] + Iter(f, T)[s \ {Pick(s)}]
      BY <1>1, IterValue
    <2>5. CASE s = {}
      BY <2>3, <2>4, <2>5
    <2>6. CASE s # {}
      BY <2>2, <2>3, <2>4, <2>6
    <2> QED BY <2>5, <2>6
  <1>3. \A s \in SUBSET T : s \in Q
    <2>1. Q \in SUBSET (SUBSET T)
      OBVIOUS
    <2> HIDE DEF Q
    <2> QED BY <1>1, <1>2, <2>1, SubsetInduction
  <1> QED BY <1>3

\* Nothing adds up to nothing.
THEOREM SumEmpty ==
  ASSUME NEW f
  PROVE  SumFunctionOnSet(f, {}) = 0
  BY SumUnfold, IterValue, FS_EmptySet DEF Iter

\* The fold adds the element it takes first to the sum of the rest.
LEMMA SumPick ==
  ASSUME NEW f, NEW S, IsFiniteSet(S), S # {}
  PROVE  SumFunctionOnSet(f, S) = f[Pick(S)] + SumFunctionOnSet(f, S \ {Pick(S)})
  <1> DEFINE T == S \ {Pick(S)}
  <1>1. SumFunctionOnSet(f, S) = Iter(f, S)[S] /\ SumFunctionOnSet(f, T) = Iter(f, T)[T]
    BY SumUnfold DEF Iter
  <1>2. Iter(f, S)[S] = f[Pick(S)] + Iter(f, S)[T]
    BY IterValue
  <1>3. Iter(f, S)[T] = Iter(f, T)[T]
    BY IterSame
  <1> QED BY <1>1, <1>2, <1>3

\* Sums of integers are integers.
THEOREM SumType ==
  ASSUME NEW f, NEW S, IsFiniteSet(S), \A x \in S : f[x] \in Int
  PROVE  SumFunctionOnSet(f, S) \in Int
  <1> DEFINE Q == {s \in SUBSET S : SumFunctionOnSet(f, s) \in Int}
  <1>1. ASSUME NEW s \in SUBSET S, \A t \in SUBSET s : t # s => t \in Q
        PROVE  s \in Q
    <2>1. CASE s = {}
      BY <2>1, SumEmpty
    <2>2. CASE s # {}
      <3>1. s \ {Pick(s)} \in Q /\ Pick(s) \in S
        BY <1>1, <2>2, PickIn
      <3>2. IsFiniteSet(s)
        BY FS_Subset
      <3> QED BY <2>2, <3>1, <3>2, SumPick
    <2> QED BY <2>1, <2>2
  <1>2. \A s \in SUBSET S : s \in Q
    <2>1. Q \in SUBSET (SUBSET S)
      OBVIOUS
    <2> HIDE DEF Q
    <2> QED BY <1>1, <2>1, SubsetInduction
  <1> QED BY <1>2

\* Any element may be taken first, so a sum loses what an element that leaves it
\* was worth: a stake that is released.
THEOREM SumRemove ==
  ASSUME NEW f, NEW S, IsFiniteSet(S), \A x \in S : f[x] \in Int, NEW x \in S
  PROVE  SumFunctionOnSet(f, S) = f[x] + SumFunctionOnSet(f, S \ {x})
  <1> DEFINE Q == {s \in SUBSET S :
                     \A y \in s : SumFunctionOnSet(f, s) = f[y] + SumFunctionOnSet(f, s \ {y})}
  <1>1. ASSUME NEW s \in SUBSET S, \A t \in SUBSET s : t # s => t \in Q
        PROVE  s \in Q
    <2> SUFFICES ASSUME NEW y \in s
                 PROVE  SumFunctionOnSet(f, s) = f[y] + SumFunctionOnSet(f, s \ {y})
      OBVIOUS
    <2> DEFINE p == Pick(s)
    <2>1. p \in s /\ IsFiniteSet(s)
      BY PickIn, FS_Subset
    <2>2. SumFunctionOnSet(f, s) = f[p] + SumFunctionOnSet(f, s \ {p})
      BY <2>1, SumPick
    <2> HIDE DEF p
    <2>3. CASE y = p
      BY <2>2, <2>3
    <2>4. CASE y # p
      <3> DEFINE r == (s \ {p}) \ {y}
      <3>1. s \ {p} \in Q /\ y \in s \ {p}
        BY <1>1, <2>1, <2>4
      <3>2. SumFunctionOnSet(f, s \ {p}) = f[y] + SumFunctionOnSet(f, r)
        BY <3>1
      <3>3. s \ {y} \in Q /\ p \in s \ {y} /\ (s \ {y}) \ {p} = r
        BY <1>1, <2>1, <2>4
      <3>4. SumFunctionOnSet(f, s \ {y}) = f[p] + SumFunctionOnSet(f, r)
        BY <3>3
      <3>5. SumFunctionOnSet(f, r) \in Int
        <4>1. IsFiniteSet(r) /\ r \subseteq S
          BY <2>1, FS_Subset
        <4> HIDE DEF r
        <4> QED BY <4>1, SumType
      <3>6. f[p] \in Int /\ f[y] \in Int
        BY <2>1
      <3> HIDE DEF r
      <3> QED BY <2>2, <3>2, <3>4, <3>5, <3>6
    <2> QED BY <2>3, <2>4
  <1>2. \A s \in SUBSET S : s \in Q
    <2>1. Q \in SUBSET (SUBSET S)
      OBVIOUS
    <2> HIDE DEF Q
    <2> QED BY <1>1, <2>1, SubsetInduction
  <1> QED BY <1>2

\* A new element adds its value: a row that is written, a stake that is locked.
THEOREM SumAdd ==
  ASSUME NEW f, NEW S, IsFiniteSet(S), NEW x, x \notin S, \A y \in S \cup {x} : f[y] \in Int
  PROVE  SumFunctionOnSet(f, S \cup {x}) = f[x] + SumFunctionOnSet(f, S)
  <1>1. IsFiniteSet(S \cup {x}) /\ (S \cup {x}) \ {x} = S
    BY FS_AddElement
  <1> QED BY <1>1, SumRemove

\* A sum depends on the values summed alone.
THEOREM SumSame ==
  ASSUME NEW f, NEW g, NEW S, IsFiniteSet(S), \A x \in S : f[x] = g[x]
  PROVE  SumFunctionOnSet(f, S) = SumFunctionOnSet(g, S)
  <1> DEFINE Q == {s \in SUBSET S : SumFunctionOnSet(f, s) = SumFunctionOnSet(g, s)}
  <1>1. ASSUME NEW s \in SUBSET S, \A t \in SUBSET s : t # s => t \in Q
        PROVE  s \in Q
    <2>1. CASE s = {}
      BY <2>1, SumEmpty
    <2>2. CASE s # {}
      <3>1. s \ {Pick(s)} \in Q /\ Pick(s) \in S
        BY <1>1, <2>2, PickIn
      <3>2. IsFiniteSet(s)
        BY FS_Subset
      <3> QED BY <2>2, <3>1, <3>2, SumPick
    <2> QED BY <2>1, <2>2
  <1>2. \A s \in SUBSET S : s \in Q
    <2>1. Q \in SUBSET (SUBSET S)
      OBVIOUS
    <2> HIDE DEF Q
    <2> QED BY <1>1, <2>1, SubsetInduction
  <1> QED BY <1>2

\* Sums over sets with nothing in common add up.
THEOREM SumDisjoint ==
  ASSUME NEW f, NEW S, IsFiniteSet(S), NEW T, IsFiniteSet(T), S \cap T = {},
         \A x \in S \cup T : f[x] \in Int
  PROVE  SumFunctionOnSet(f, S \cup T) = SumFunctionOnSet(f, S) + SumFunctionOnSet(f, T)
  <1> DEFINE Q == {s \in SUBSET T : SumFunctionOnSet(f, S \cup s)
                                     = SumFunctionOnSet(f, S) + SumFunctionOnSet(f, s)}
  <1>1. ASSUME NEW s \in SUBSET T, \A t \in SUBSET s : t # s => t \in Q
        PROVE  s \in Q
    <2>0. SumFunctionOnSet(f, S) \in Int
      BY SumType
    <2>1. CASE s = {}
      <3>1. S \cup s = S
        BY <2>1
      <3> QED BY <2>1, <2>0, <3>1, SumEmpty
    <2>2. CASE s # {}
      <3> DEFINE p == Pick(s)
                 r == s \ {p}
      <3>1. r \in Q /\ p \in s
        BY <1>1, <2>2, PickIn
      <3>2. IsFiniteSet(s) /\ IsFiniteSet(r) /\ IsFiniteSet(S \cup r)
        BY FS_Subset, FS_Union, FS_RemoveElement
      <3>3. p \notin r /\ p \notin S \cup r /\ s = r \cup {p} /\ S \cup s = (S \cup r) \cup {p}
        BY <3>1
      <3>4. f[p] \in Int /\ \A x \in S \cup s : f[x] \in Int
        BY <3>1
      <3>5. SumFunctionOnSet(f, r) \in Int
        <4> HIDE DEF p
        <4> QED BY <3>2, <3>4, SumType
      <3>6. SumFunctionOnSet(f, S \cup r) = SumFunctionOnSet(f, S) + SumFunctionOnSet(f, r)
        BY <3>1
      <3> HIDE DEF p, r
      <3>7. SumFunctionOnSet(f, s) = f[p] + SumFunctionOnSet(f, r)
        BY <3>2, <3>3, <3>4, SumAdd
      <3>8. SumFunctionOnSet(f, S \cup s) = f[p] + SumFunctionOnSet(f, S \cup r)
        BY <3>2, <3>3, <3>4, SumAdd
      <3> QED BY <2>0, <3>4, <3>5, <3>6, <3>7, <3>8
    <2> QED BY <2>1, <2>2
  <1>2. \A s \in SUBSET T : s \in Q
    <2>1. Q \in SUBSET (SUBSET T)
      OBVIOUS
    <2> HIDE DEF Q
    <2> QED BY <1>1, <2>1, SubsetInduction
  <1> QED BY <1>2

\* Sums of natural numbers are natural numbers.
THEOREM SumNat ==
  ASSUME NEW f, NEW S, IsFiniteSet(S), \A x \in S : f[x] \in Nat
  PROVE  SumFunctionOnSet(f, S) \in Nat
  <1> DEFINE Q == {s \in SUBSET S : SumFunctionOnSet(f, s) \in Nat}
  <1>1. ASSUME NEW s \in SUBSET S, \A t \in SUBSET s : t # s => t \in Q
        PROVE  s \in Q
    <2>1. CASE s = {}
      BY <2>1, SumEmpty
    <2>2. CASE s # {}
      <3>1. s \ {Pick(s)} \in Q /\ Pick(s) \in S
        BY <1>1, <2>2, PickIn
      <3>2. IsFiniteSet(s)
        BY FS_Subset
      <3> QED BY <2>2, <3>1, <3>2, SumPick
    <2> QED BY <2>1, <2>2
  <1>2. \A s \in SUBSET S : s \in Q
    <2>1. Q \in SUBSET (SUBSET S)
      OBVIOUS
    <2> HIDE DEF Q
    <2> QED BY <1>1, <2>1, SubsetInduction
  <1> QED BY <1>2

\* One summand changes: the sum moves by as much.
THEOREM SumChange ==
  ASSUME NEW f, NEW g, NEW S, IsFiniteSet(S), NEW x \in S,
         \A y \in S : f[y] \in Int /\ g[y] \in Int,
         \A y \in S : y # x => f[y] = g[y]
  PROVE  SumFunctionOnSet(g, S) = SumFunctionOnSet(f, S) - f[x] + g[x]
  <1> DEFINE T == S \ {x}
  <1>1. IsFiniteSet(T)
    BY FS_Subset
  <1>2. SumFunctionOnSet(f, T) = SumFunctionOnSet(g, T)
    BY <1>1, SumSame
  <1>3. SumFunctionOnSet(f, T) \in Int
    BY <1>1, SumType
  <1>4. SumFunctionOnSet(f, S) = f[x] + SumFunctionOnSet(f, T)
    BY SumRemove
  <1>5. SumFunctionOnSet(g, S) = g[x] + SumFunctionOnSet(g, T)
    BY SumRemove
  <1> QED BY <1>2, <1>3, <1>4, <1>5

\* Summands of zero may be left out.
THEOREM SumSupport ==
  ASSUME NEW f, NEW S, IsFiniteSet(S), NEW T \in SUBSET S,
         \A x \in S : f[x] \in Int, \A x \in S \ T : f[x] = 0
  PROVE  SumFunctionOnSet(f, S) = SumFunctionOnSet(f, T)
  <1> DEFINE R == S \ T
             Q == {s \in SUBSET R : SumFunctionOnSet(f, s) = 0}
  <1>1. IsFiniteSet(T) /\ IsFiniteSet(R) /\ S = T \cup R /\ T \cap R = {}
    BY FS_Subset
  <1>2. SumFunctionOnSet(f, S) = SumFunctionOnSet(f, T) + SumFunctionOnSet(f, R)
    BY <1>1, SumDisjoint
  <1>3. ASSUME NEW s \in SUBSET R, \A t \in SUBSET s : t # s => t \in Q
        PROVE  s \in Q
    <2>1. CASE s = {}
      BY <2>1, SumEmpty
    <2>2. CASE s # {}
      <3>1. s \ {Pick(s)} \in Q /\ Pick(s) \in R
        BY <1>3, <2>2, PickIn
      <3>2. IsFiniteSet(s)
        BY <1>1, FS_Subset
      <3> QED BY <2>2, <3>1, <3>2, SumPick
    <2> QED BY <2>1, <2>2
  <1>4. \A s \in SUBSET R : s \in Q
    <2>1. Q \in SUBSET (SUBSET R)
      OBVIOUS
    <2> HIDE DEF Q, R
    <2> QED BY <1>1, <1>3, <2>1, SubsetInduction
  <1>5. SumFunctionOnSet(f, R) = 0
    BY <1>4
  <1>6. SumFunctionOnSet(f, T) \in Int
    BY <1>1, SumType
  <1> QED BY <1>2, <1>5, <1>6

\* Some elements come in and some of all of them leave.
THEOREM SumMove ==
  ASSUME NEW f, NEW A, IsFiniteSet(A), NEW B, IsFiniteSet(B), A \cap B = {},
         NEW C \in SUBSET (A \cup B), \A x \in A \cup B : f[x] \in Int
  PROVE  SumFunctionOnSet(f, (A \cup B) \ C)
           = (SumFunctionOnSet(f, A) + SumFunctionOnSet(f, B)) - SumFunctionOnSet(f, C)
  <1>0. PICK D : D = (A \cup B) \ C
    OBVIOUS
  <1>1. IsFiniteSet(A \cup B)
    BY FS_Union
  <1>2. IsFiniteSet(C) /\ IsFiniteSet(D)
    BY <1>0, <1>1, FS_Subset
  <1>3. C \cup D = A \cup B /\ C \cap D = {}
    BY <1>0
  <1>4. \A x \in C \cup D : f[x] \in Int
    BY <1>3
  <1>5. SumFunctionOnSet(f, C \cup D) = SumFunctionOnSet(f, C) + SumFunctionOnSet(f, D)
    BY <1>2, <1>3, <1>4, SumDisjoint
  <1>6. SumFunctionOnSet(f, A \cup B) = SumFunctionOnSet(f, A) + SumFunctionOnSet(f, B)
    BY SumDisjoint
  <1>7. /\ SumFunctionOnSet(f, A) \in Int /\ SumFunctionOnSet(f, B) \in Int
        /\ SumFunctionOnSet(f, C) \in Int /\ SumFunctionOnSet(f, D) \in Int
    BY <1>2, <1>4, SumType
  <1>8. SumFunctionOnSet(f, C) + SumFunctionOnSet(f, D)
          = SumFunctionOnSet(f, A) + SumFunctionOnSet(f, B)
    BY <1>3, <1>5, <1>6
  <1>9. SumFunctionOnSet(f, D)
          = (SumFunctionOnSet(f, A) + SumFunctionOnSet(f, B)) - SumFunctionOnSet(f, C)
    BY <1>7, <1>8
  <1> QED BY <1>0, <1>9

\* The sum of a difference is the difference of the sums.
THEOREM SumMinus ==
  ASSUME NEW f, NEW g, NEW h, NEW S, IsFiniteSet(S),
         \A x \in S : f[x] \in Int /\ g[x] \in Int /\ h[x] = f[x] - g[x]
  PROVE  SumFunctionOnSet(h, S) = SumFunctionOnSet(f, S) - SumFunctionOnSet(g, S)
  <1> DEFINE Q == {s \in SUBSET S :
                     SumFunctionOnSet(h, s) = SumFunctionOnSet(f, s) - SumFunctionOnSet(g, s)}
  <1>1. ASSUME NEW s \in SUBSET S, \A t \in SUBSET s : t # s => t \in Q
        PROVE  s \in Q
    <2>1. CASE s = {}
      BY <2>1, SumEmpty
    <2>2. CASE s # {}
      <3>1. PICK x \in s : TRUE
        BY <2>2
      <3> DEFINE r == s \ {x}
      <3>2. r \in SUBSET s /\ r # s /\ r \in Q
        BY <1>1, <3>1
      <3>3. IsFiniteSet(s) /\ IsFiniteSet(r)
        BY FS_Subset
      <3>4. \A y \in s : f[y] \in Int /\ g[y] \in Int /\ h[y] \in Int
        OBVIOUS
      <3>5. /\ SumFunctionOnSet(f, s) = f[x] + SumFunctionOnSet(f, r)
            /\ SumFunctionOnSet(g, s) = g[x] + SumFunctionOnSet(g, r)
            /\ SumFunctionOnSet(h, s) = h[x] + SumFunctionOnSet(h, r)
        BY <3>1, <3>3, <3>4, SumRemove
      <3>6. SumFunctionOnSet(f, r) \in Int /\ SumFunctionOnSet(g, r) \in Int
        BY <3>3, <3>4, SumType
      <3>7. /\ SumFunctionOnSet(h, r) = SumFunctionOnSet(f, r) - SumFunctionOnSet(g, r)
            /\ f[x] \in Int /\ g[x] \in Int /\ h[x] = f[x] - g[x]
        BY <3>1, <3>2
      <3> HIDE DEF r
      <3>8. SumFunctionOnSet(h, s) = SumFunctionOnSet(f, s) - SumFunctionOnSet(g, s)
        BY <3>5, <3>6, <3>7
      <3> QED BY <3>8
    <2> QED BY <2>1, <2>2
  <1>2. Q \in SUBSET (SUBSET S)
    OBVIOUS
  <1> HIDE DEF Q
  <1>3. \A s \in SUBSET S : s \in Q
    BY <1>1, <1>2, SubsetInduction
  <1> QED BY <1>3 DEF Q

\* T is the union of the disjoint finite sets F[t], and g[t] is what f adds up
\* to on F[t].
IsFamily(T, F, S, f, g) ==
  /\ \A t \in S : /\ IsFiniteSet(F[t])
                  /\ \A x \in F[t] : f[x] \in Int
                  /\ g[t] = SumFunctionOnSet(f, F[t])
  /\ \A t, u \in S : t # u => F[t] \cap F[u] = {}
  /\ \A x : x \in T <=> \E t \in S : x \in F[t]

\* A sum over the union of a family, part by part.
THEOREM SumFamily ==
  ASSUME NEW f, NEW g, NEW F, NEW S, IsFiniteSet(S), NEW T, IsFamily(T, F, S, f, g)
  PROVE  IsFiniteSet(T) /\ SumFunctionOnSet(f, T) = SumFunctionOnSet(g, S)
  <1> USE DEF IsFamily
  <1> DEFINE U(s) == UNION {F[t] : t \in s}
             Q == {s \in SUBSET S : /\ IsFiniteSet(U(s))
                                    /\ SumFunctionOnSet(f, U(s)) = SumFunctionOnSet(g, s)}
  <1>1. ASSUME NEW s \in SUBSET S, \A t \in SUBSET s : t # s => t \in Q
        PROVE  s \in Q
    <2>1. CASE s = {}
      <3>1. U(s) = {}
        BY <2>1
      <3> HIDE DEF U
      <3> QED BY <2>1, <3>1, SumEmpty, FS_EmptySet
    <2>2. CASE s # {}
      <3>1. PICK x \in s : TRUE
        BY <2>2
      <3> DEFINE r == s \ {x}
      <3>2. r \in SUBSET s /\ r # s /\ r \in Q
        BY <1>1, <3>1
      <3>3. IsFiniteSet(s) /\ IsFiniteSet(F[x])
        BY <3>1, FS_Subset
      <3>4. U(s) = U(r) \cup F[x] /\ U(r) \cap F[x] = {}
        BY <3>1
      <3>5. \A y \in U(r) \cup F[x] : f[y] \in Int
        BY <3>1
      <3>6. \A y \in s : g[y] \in Int
        BY SumType
      <3>7. SumFunctionOnSet(g, s) = g[x] + SumFunctionOnSet(g, r)
        BY <3>1, <3>3, <3>6, SumRemove
      <3>8. IsFiniteSet(U(r)) /\ SumFunctionOnSet(f, U(r)) = SumFunctionOnSet(g, r)
        BY <3>2
      <3>9. g[x] = SumFunctionOnSet(f, F[x]) /\ g[x] \in Int
        BY <3>1, <3>6
      <3> HIDE DEF U, r
      <3>10. /\ IsFiniteSet(U(r) \cup F[x])
             /\ SumFunctionOnSet(f, U(r) \cup F[x]) = SumFunctionOnSet(f, U(r)) + g[x]
        <4>1. SumFunctionOnSet(f, U(r) \cup F[x])
                = SumFunctionOnSet(f, U(r)) + SumFunctionOnSet(f, F[x])
          BY <3>3, <3>4, <3>5, <3>8, SumDisjoint
        <4> QED BY <4>1, <3>3, <3>8, <3>9, FS_Union
      <3>11. SumFunctionOnSet(f, U(r)) \in Int
        BY <3>5, <3>8, SumType
      <3>12. IsFiniteSet(U(s)) /\ SumFunctionOnSet(f, U(s)) = SumFunctionOnSet(g, s)
        BY <3>4, <3>7, <3>8, <3>9, <3>10, <3>11
      <3> QED BY <3>12
    <2> QED BY <2>1, <2>2
  <1>2. Q \in SUBSET (SUBSET S)
    OBVIOUS
  <1>3. \A s \in SUBSET S : s \in Q
    <2> HIDE DEF Q
    <2> QED BY <1>1, <1>2, SubsetInduction
  <1>4. T = U(S)
    OBVIOUS
  <1>5. IsFiniteSet(U(S)) /\ SumFunctionOnSet(f, U(S)) = SumFunctionOnSet(g, S)
    BY <1>3
  <1> HIDE DEF U
  <1> QED BY <1>4, <1>5

\* The sum of the opposites.
THEOREM SumNegate ==
  ASSUME NEW f, NEW h, NEW S, IsFiniteSet(S), \A x \in S : f[x] \in Int /\ h[x] = - f[x]
  PROVE  SumFunctionOnSet(h, S) = - SumFunctionOnSet(f, S)
  <1>1. PICK z : z = [x \in S |-> 0]
    OBVIOUS
  <1>2. {} \in SUBSET S /\ \A x \in S : z[x] \in Int /\ z[x] = 0
    BY <1>1
  <1>3. SumFunctionOnSet(z, S) = 0
    <2>1. SumFunctionOnSet(z, S) = SumFunctionOnSet(z, {})
      BY <1>2, SumSupport
    <2> QED BY <2>1, SumEmpty
  <1>4. \A x \in S : z[x] \in Int /\ f[x] \in Int /\ h[x] = z[x] - f[x]
    BY <1>2
  <1>5. SumFunctionOnSet(h, S) = SumFunctionOnSet(z, S) - SumFunctionOnSet(f, S)
    BY <1>4, SumMinus
  <1>6. SumFunctionOnSet(f, S) \in Int
    BY SumType
  <1> QED BY <1>3, <1>5, <1>6

-----------------------------------------------------------------------------
(* Products: what the legs of a combo multiply to *)

\* The recursive function of a product, and the function up to a level.
IsTimes(g, f, S) ==
  g = [s \in SUBSET S |-> IF s = {} THEN 1 ELSE f[Pick(s)] * g[s \ {Pick(s)}]]

IsTimesTo(g, f, S, n) ==
  g = [s \in Level(S, n) |-> IF s = {} THEN 1 ELSE f[Pick(s)] * g[s \ {Pick(s)}]]

\* The recursive equation of a product has a solution, as that of a sum has.
LEMMA TimesExists ==
  ASSUME NEW f, NEW S, IsFiniteSet(S)
  PROVE  \E g : IsTimes(g, f, S)
  <1> DEFINE Q == {n \in Nat : \E g : IsTimesTo(g, f, S, n)}
  <1>1. 0 \in Q
    <2> DEFINE g == [s \in Level(S, 0) |-> 1]
    <2>1. \A s \in Level(S, 0) : s = {}
      BY FS_Subset, FS_EmptySet, FS_CardinalityType DEF Level
    <2>2. IsTimesTo(g, f, S, 0)
      BY <2>1 DEF IsTimesTo
    <2> QED BY <2>2
  <1>2. \A n \in Q : n + 1 \in Q
    <2> TAKE n \in Q
    <2>1. PICK g : IsTimesTo(g, f, S, n)
      OBVIOUS
    <2> DEFINE h == [s \in Level(S, n + 1) |->
                       IF s \in Level(S, n) THEN g[s] ELSE f[Pick(s)] * g[s \ {Pick(s)}]]
    <2>2. ASSUME NEW s \in Level(S, n + 1)
          PROVE  h[s] = IF s = {} THEN 1 ELSE f[Pick(s)] * h[s \ {Pick(s)}]
      <3>1. CASE s = {}
        <4>1. s \in Level(S, n)
          BY <3>1, FS_EmptySet DEF Level
        <4> QED BY <4>1, <3>1, <2>1 DEF IsTimesTo
      <3>2. CASE s # {}
        <4>1. s \ {Pick(s)} \in Level(S, n)
          BY <3>2, LevelStep
        <4>2. s \ {Pick(s)} \in Level(S, n + 1)
          BY <4>1, FS_Subset, FS_CardinalityType DEF Level
        <4>3. h[s \ {Pick(s)}] = g[s \ {Pick(s)}]
          BY <4>1, <4>2
        <4>4. h[s] = f[Pick(s)] * g[s \ {Pick(s)}]
          BY <2>1, <3>2 DEF IsTimesTo
        <4> QED BY <3>2, <4>3, <4>4
      <3> QED BY <3>1, <3>2
    <2>3. h = [s \in Level(S, n + 1) |-> IF s = {} THEN 1 ELSE f[Pick(s)] * h[s \ {Pick(s)}]]
      <3>1. h = [s \in Level(S, n + 1) |-> h[s]]
        OBVIOUS
      <3> HIDE DEF h
      <3> QED BY <3>1, <2>2
    <2>4. IsTimesTo(h, f, S, n + 1)
      <3> HIDE DEF h
      <3> QED BY <2>3 DEF IsTimesTo
    <2> HIDE DEF h
    <2> QED BY <2>4
  <1> DEFINE N == Cardinality(S)
  <1>3. N \in Nat
    BY FS_CardinalityType
  <1>4. PICK g : IsTimesTo(g, f, S, N)
    <2> HIDE DEF N
    <2>1. N \in Q
      BY <1>1, <1>2, <1>3, NatSetInduction
    <2> QED BY <2>1
  <1>5. Level(S, N) = SUBSET S
    BY FS_Subset DEF Level
  <1>6. IsTimes(g, f, S)
    BY <1>4, <1>5 DEF IsTimesTo, IsTimes
  <1> QED BY <1>6

\* Products of naturals are naturals, and positive when every factor is.
LEMMA NatTimes ==
  ASSUME NEW x \in Nat, NEW y \in Nat
  PROVE  x * y \in Nat /\ (x > 0 /\ y > 0 => x * y > 0)
  OBVIOUS

\* A product of natural factors is a natural number, positive when every factor
\* is.
THEOREM ProductNat ==
  ASSUME NEW f, NEW S, IsFiniteSet(S), \A x \in S : f[x] \in Nat, NEW g, IsTimes(g, f, S)
  PROVE  g[S] \in Nat /\ ((\A x \in S : f[x] > 0) => g[S] > 0)
  <1> DEFINE Q == {s \in SUBSET S : g[s] \in Nat /\ ((\A x \in S : f[x] > 0) => g[s] > 0)}
  <1>1. ASSUME NEW s \in SUBSET S, \A t \in SUBSET s : t # s => t \in Q
        PROVE  s \in Q
    <2>1. g[s] = IF s = {} THEN 1 ELSE f[Pick(s)] * g[s \ {Pick(s)}]
      BY DEF IsTimes
    <2>2. CASE s = {}
      BY <2>1, <2>2
    <2>3. CASE s # {}
      <3>1. s \ {Pick(s)} \in Q /\ Pick(s) \in S
        BY <1>1, <2>3, PickIn
      <3>2. f[Pick(s)] \in Nat /\ g[s \ {Pick(s)}] \in Nat
        BY <3>1
      <3>3. /\ g[s] \in Nat
            /\ f[Pick(s)] > 0 /\ g[s \ {Pick(s)}] > 0 => g[s] > 0
        BY <2>1, <2>3, <3>2, NatTimes
      <3> QED BY <3>1, <3>3
    <2> QED BY <2>2, <2>3
  <1>2. \A s \in SUBSET S : s \in Q
    <2>1. Q \in SUBSET (SUBSET S)
      OBVIOUS
    <2> HIDE DEF Q
    <2> QED BY <1>1, <2>1, SubsetInduction
  <1> QED BY <1>2
=============================================================================
