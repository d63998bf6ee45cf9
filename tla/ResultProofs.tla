---------------------------- MODULE ResultProofs ----------------------------
(***************************************************************************)
(* What results are worth, for every family of lines and every ticket. The *)
(* first part is about Ladder: the pass of the sweeper infers exactly what *)
(* the settled lines imply (IntervalIsExact), so that no result it writes  *)
(* is a guess (InferenceIsNoGuess).                                        *)
(***************************************************************************)
EXTENDS Grading, Ladder, SumTheorems

-----------------------------------------------------------------------------
(* One line: the grade is monotone in the number *)

\* gradeHigh in closed form. A quarter line is decided by the distance of the
\* number like any other, except that one quarter away is a half result; the
\* two half-stakes never contradict each other.
LEMMA GradeShape ==
  ASSUME NEW k, NEW v \in Int, NEW x \in Int
  PROVE  LET d == Diff(k, v, x) IN
         /\ d \in Int
         /\ x % 2 # 1 => GradeHigh(k, v, x) =
                           IF d > 0 THEN "won" ELSE IF d < 0 THEN "lost" ELSE "void"
         /\ x % 2 = 1 => /\ d # 0
                         /\ GradeHigh(k, v, x) =
                              IF d > 1 THEN "won" ELSE IF d = 1 THEN "half_won"
                              ELSE IF d = -1 THEN "half_lost" ELSE "lost"
<1> DEFINE d == Diff(k, v, x)
<1>1. d \in Int
  BY DEF Diff
<1>2. x % 2 # 1 => GradeHigh(k, v, x) = IF d > 0 THEN "won" ELSE IF d < 0 THEN "lost" ELSE "void"
  BY DEF GradeHigh, GradeWhole
<1>3. ASSUME x % 2 = 1
      PROVE  /\ d # 0
             /\ GradeHigh(k, v, x) = IF d > 1 THEN "won" ELSE IF d = 1 THEN "half_won"
                                     ELSE IF d = -1 THEN "half_lost" ELSE "lost"
  <2>1. d # 0 /\ d % 2 = 1
    BY <1>3 DEF Diff
  <2>2. {Diff(k, v, x - 1), Diff(k, v, x + 1)} = {d - 1, d + 1}
    BY DEF Diff
  <2>3. \/ GradeHigh(k, v, x) = Combine(GradeWhole(d - 1), GradeWhole(d + 1))
        \/ GradeHigh(k, v, x) = Combine(GradeWhole(d + 1), GradeWhole(d - 1))
    BY <1>3 DEF GradeHigh, Diff
  <2> HIDE DEF d
  <2>4. CASE d > 1
    <3>1. GradeWhole(d - 1) = "won" /\ GradeWhole(d + 1) = "won"
      BY <1>1, <2>4 DEF GradeWhole
    <3>2. Combine("won", "won") = "won"
      BY DEF Combine
    <3>3. GradeHigh(k, v, x) = "won"
      BY <2>3, <3>1, <3>2
    <3> QED BY <2>1, <2>4, <3>3
  <2>5. CASE d = 1
    <3>1. GradeWhole(d - 1) = "void" /\ GradeWhole(d + 1) = "won"
      BY <1>1, <2>5 DEF GradeWhole
    <3> QED BY <2>1, <2>3, <2>5, <3>1 DEF Combine
  <2>6. CASE d = -1
    <3>1. GradeWhole(d - 1) = "lost" /\ GradeWhole(d + 1) = "void"
      BY <1>1, <2>6 DEF GradeWhole
    <3> QED BY <2>1, <2>3, <2>6, <3>1 DEF Combine
  <2>7. CASE d < -1
    <3>1. GradeWhole(d - 1) = "lost" /\ GradeWhole(d + 1) = "lost"
      BY <1>1, <2>7 DEF GradeWhole
    <3>2. ~(d > 1) /\ d # 1 /\ d # -1
      BY <1>1, <2>7
    <3>3. Combine("lost", "lost") = "lost"
      BY DEF Combine
    <3>4. GradeHigh(k, v, x) = "lost"
      BY <2>3, <3>1, <3>3
    <3> QED BY <2>1, <3>2, <3>4
  <2> QED BY <1>1, <2>1, <2>4, <2>5, <2>6, <2>7
<1> QED BY <1>1, <1>2, <1>3

\* Every number grades every line.
LEMMA GradeTyped ==
  ASSUME NEW k, NEW v \in Int, NEW x \in Int
  PROVE  GradeHigh(k, v, x) \in Grades
<1> DEFINE d == Diff(k, v, x)
<1> HIDE DEF d
<1> QED BY GradeShape DEF d, Grades

\* Two numbers that grade a line alike grade it as all numbers between them do.
LEMMA GradeBetween ==
  ASSUME NEW k, NEW x \in Int, NEW v \in Int, NEW w \in Int, NEW u \in Int,
         v <= w, w <= u, GradeHigh(k, v, x) = GradeHigh(k, u, x)
  PROVE  GradeHigh(k, w, x) = GradeHigh(k, v, x)
<1> DEFINE dv == Diff(k, v, x)
           dw == Diff(k, w, x)
           du == Diff(k, u, x)
<1>1. dv <= dw /\ dw <= du /\ (dv = dw => v = w)
  BY DEF Diff
<1>2. dv \in Int /\ dw \in Int /\ du \in Int
  BY DEF Diff
<1>3. CASE x % 2 = 1
  <2>1. /\ dv # 0 /\ dw # 0 /\ du # 0
        /\ GradeHigh(k, v, x) = IF dv > 1 THEN "won" ELSE IF dv = 1 THEN "half_won"
                                ELSE IF dv = -1 THEN "half_lost" ELSE "lost"
        /\ GradeHigh(k, w, x) = IF dw > 1 THEN "won" ELSE IF dw = 1 THEN "half_won"
                                ELSE IF dw = -1 THEN "half_lost" ELSE "lost"
        /\ GradeHigh(k, u, x) = IF du > 1 THEN "won" ELSE IF du = 1 THEN "half_won"
                                ELSE IF du = -1 THEN "half_lost" ELSE "lost"
    BY <1>3, GradeShape
  <2> HIDE DEF dv, dw, du
  <2>2. CASE dv > 1
    BY <1>1, <1>2, <2>1, <2>2
  <2>3. CASE dv < -1
    <3>1. GradeHigh(k, u, x) = "lost"
      BY <1>2, <2>1, <2>3
    <3>2. du < -1
      BY <1>2, <2>1, <3>1
    <3>3. dw < -1
      BY <1>1, <1>2, <3>2
    <3> QED BY <1>2, <2>1, <2>3, <3>3
  <2>4. CASE dv = 1
    <3>1. GradeHigh(k, u, x) = "half_won"
      BY <1>2, <2>1, <2>4
    <3>2. du = 1
      BY <1>2, <2>1, <3>1
    <3>3. dw = 1
      BY <1>1, <1>2, <2>4, <3>2
    <3> QED BY <2>1, <2>4, <3>3
  <2>5. CASE dv = -1
    <3>1. GradeHigh(k, u, x) = "half_lost"
      BY <1>2, <2>1, <2>5
    <3>2. du = -1
      BY <1>2, <2>1, <3>1
    <3>3. dw = -1
      BY <1>1, <1>2, <2>5, <3>2
    <3> QED BY <2>1, <2>5, <3>3
  <2> QED BY <1>2, <2>1, <2>2, <2>3, <2>4, <2>5
<1>4. CASE x % 2 # 1
  <2>1. /\ GradeHigh(k, v, x) = IF dv > 0 THEN "won" ELSE IF dv < 0 THEN "lost" ELSE "void"
        /\ GradeHigh(k, w, x) = IF dw > 0 THEN "won" ELSE IF dw < 0 THEN "lost" ELSE "void"
        /\ GradeHigh(k, u, x) = IF du > 0 THEN "won" ELSE IF du < 0 THEN "lost" ELSE "void"
    BY <1>4, GradeShape
  <2> HIDE DEF dv, dw, du
  <2>2. CASE dv > 0
    BY <1>1, <1>2, <2>1, <2>2
  <2>3. CASE dv < 0
    <3>1. GradeHigh(k, u, x) = "lost"
      BY <1>2, <2>1, <2>3
    <3>2. du < 0
      BY <1>2, <2>1, <3>1
    <3>3. dw < 0
      BY <1>1, <1>2, <3>2
    <3> QED BY <1>2, <2>1, <2>3, <3>3
  <2>4. CASE dv = 0
    <3>1. GradeHigh(k, u, x) = "void"
      BY <1>2, <2>1, <2>4
    <3>2. du = 0
      BY <1>2, <2>1, <3>1
    <3>3. dw = 0
      BY <1>1, <1>2, <2>4, <3>2
    <3> QED BY <2>1, <2>4, <3>3
  <2> QED BY <1>2, <2>2, <2>3, <2>4
<1> QED BY <1>3, <1>4

\* Only a whole line can be pushed: no number voids a half or a quarter line.
LEMMA OnlyWholeLinesPush ==
  ASSUME NEW k, NEW v \in Int, NEW x \in Int, x % 4 # 0
  PROVE  GradeHigh(k, v, x) # "void"
<1> DEFINE d == Diff(k, v, x)
<1>1. d # 0
  BY DEF Diff
<1>2. d \in Int
  BY DEF Diff
<1>3. CASE x % 2 = 1
  <2>1. GradeHigh(k, v, x) = IF d > 1 THEN "won" ELSE IF d = 1 THEN "half_won"
                             ELSE IF d = -1 THEN "half_lost" ELSE "lost"
    BY <1>3, GradeShape
  <2> HIDE DEF d
  <2> QED BY <2>1
<1>4. CASE x % 2 # 1
  <2>1. GradeHigh(k, v, x) = IF d > 0 THEN "won" ELSE IF d < 0 THEN "lost" ELSE "void"
    BY <1>4, GradeShape
  <2> HIDE DEF d
  <2> QED BY <1>1, <1>2, <2>1
<1> QED BY <1>3, <1>4

-----------------------------------------------------------------------------
(* The interval of inferLine *)

\* The search visits a least and a greatest number of any set it finds.
LEMMA Extremes ==
  ASSUME NEW S \in SUBSET Searched, S # {}
  PROVE  /\ Min(S) \in S /\ \A v \in S : Min(S) <= v
         /\ Max(S) \in S /\ \A v \in S : v <= Max(S)
<1> DEFINE R == ValueRange
           Up == {v + R : v \in S}
           Down == {R - v : v \in S}
<1>1. R \in Nat /\ \A v \in S : v \in Int /\ -R <= v /\ v <= R
  BY LadderAssumption DEF Searched
<1> HIDE DEF R
<1>2. Up \in SUBSET Nat /\ Up # {} /\ Down \in SUBSET Nat /\ Down # {}
  BY <1>1
<1>3. \E n \in Up : \A m \in Up : n <= m
  <2> HIDE DEF Up
  <2> QED BY <1>2, NatLeast
<1>4. \E n \in Down : \A m \in Down : n <= m
  <2> HIDE DEF Down
  <2> QED BY <1>2, NatLeast
<1>5. \E v \in S : \A w \in S : v <= w
  <2>1. PICK v \in S : \A w \in S : v + R <= w + R
    BY <1>3
  <2> QED BY <1>1, <2>1
<1>6. \E v \in S : \A w \in S : v >= w
  <2>1. PICK v \in S : \A w \in S : R - v <= R - w
    BY <1>4
  <2> QED BY <1>1, <2>1
<1>7. Min(S) \in S /\ \A w \in S : Min(S) <= w
  BY <1>5 DEF Min
<1>8. Max(S) \in S /\ \A w \in S : Max(S) >= w
  BY <1>6 DEF Max
<1> QED BY <1>1, <1>7, <1>8

\* The numbers that reproduce a stored result have no gaps.
LEMMA ConsistentInterval ==
  ASSUME NEW k, NEW x \in Int, NEW r, Consistent(k, x, r) # {}
  PROVE  /\ Min(Consistent(k, x, r)) \in Searched /\ Max(Consistent(k, x, r)) \in Searched
         /\ \A v \in Searched :
              v \in Consistent(k, x, r)
                <=> Min(Consistent(k, x, r)) <= v /\ v <= Max(Consistent(k, x, r))
<1> DEFINE C == Consistent(k, x, r)
<1>1. C \in SUBSET Searched /\ C # {}
  BY DEF Consistent
<1>2. Searched \subseteq Int
  BY LadderAssumption DEF Searched
<1> DEFINE a == Min(C)
           b == Max(C)
<1>3. a \in C /\ b \in C /\ \A v \in C : a <= v /\ v <= b
  <2> HIDE DEF C
  <2> QED BY <1>1, Extremes
<1>4. GradeHigh(k, a, x) = r.hi /\ GradeHigh(k, b, x) = r.hi /\ a \in Int /\ b \in Int
  <2> HIDE DEF a, b
  <2> QED BY <1>2, <1>3 DEF Consistent
<1>5. ASSUME NEW v \in Searched, a <= v, v <= b
      PROVE  v \in C
  <2>1. v \in Int
    BY <1>2
  <2> HIDE DEF a, b
  <2>2. GradeHigh(k, v, x) = r.hi
    BY <1>4, <1>5, <2>1, GradeBetween
  <2> QED BY <2>2 DEF Consistent
<1> HIDE DEF C
<1> QED BY <1>1, <1>3, <1>5 DEF C

\* The two ends that inferLine narrows are those of the numbers which
\* reproduce every sibling it uses.
LEMMA EndsBound ==
  ASSUME NEW k, NEW sib, \A x \in DOMAIN sib : x \in Int
  PROVE  /\ LowEnd(k, sib) \in Searched /\ HighEnd(k, sib) \in Searched
         /\ \A v \in Searched :
              LowEnd(k, sib) <= v /\ v <= HighEnd(k, sib)
                <=> \A x \in Used(k, sib) : v \in Consistent(k, x, sib[x])
<1> DEFINE U == Used(k, sib)
           lo(x) == Min(Consistent(k, x, sib[x]))
           hi(x) == Max(Consistent(k, x, sib[x]))
           A == {-ValueRange} \cup {lo(x) : x \in U}
           B == {ValueRange} \cup {hi(x) : x \in U}
           a == Max(A)
           b == Min(B)
<1>1. \A v \in Searched : v \in Int /\ -ValueRange <= v /\ v <= ValueRange
  BY LadderAssumption DEF Searched
<1>2. \A x \in U : /\ lo(x) \in Searched /\ hi(x) \in Searched
                   /\ \A v \in Searched : v \in Consistent(k, x, sib[x])
                                            <=> lo(x) <= v /\ v <= hi(x)
  <2> TAKE x \in U
  <2>1. x \in Int /\ Consistent(k, x, sib[x]) # {}
    BY DEF Used
  <2> QED BY <2>1, ConsistentInterval
<1>3. -ValueRange \in Searched /\ ValueRange \in Searched
  BY LadderAssumption DEF Searched
<1> HIDE DEF lo, hi, U
<1>4. A \in SUBSET Searched /\ A # {} /\ B \in SUBSET Searched /\ B # {}
  BY <1>2, <1>3
<1>5. a \in A /\ \A v \in A : v <= a
  <2> HIDE DEF A
  <2> QED BY <1>4, Extremes
<1>6. b \in B /\ \A v \in B : b <= v
  <2> HIDE DEF B
  <2> QED BY <1>4, Extremes
<1>7. a \in Searched /\ b \in Searched
  BY <1>4, <1>5, <1>6
<1>8. LowEnd(k, sib) = a /\ HighEnd(k, sib) = b
  BY DEF LowEnd, HighEnd, lo, hi, U
<1>9. \A v \in Searched : a <= v <=> \A x \in U : lo(x) <= v
  <2> TAKE v \in Searched
  <2>1. ASSUME a <= v, NEW x \in U PROVE lo(x) <= v
    <3>1. lo(x) <= a /\ lo(x) \in Int /\ a \in Int /\ v \in Int
      BY <1>1, <1>2, <1>5, <1>7
    <3> HIDE DEF a
    <3> QED BY <2>1, <3>1
  <2>2. ASSUME \A x \in U : lo(x) <= v PROVE a <= v
    <3>1. CASE a = -ValueRange
      BY <1>1, <3>1
    <3>2. CASE a # -ValueRange
      <4>1. PICK x \in U : a = lo(x)
        BY <1>5, <3>2
      <4> QED BY <2>2, <4>1
    <3> QED BY <3>1, <3>2
  <2> HIDE DEF a
  <2> QED BY <2>1, <2>2
<1>10. \A v \in Searched : v <= b <=> \A x \in U : v <= hi(x)
  <2> TAKE v \in Searched
  <2>1. ASSUME v <= b, NEW x \in U PROVE v <= hi(x)
    <3>1. b <= hi(x) /\ hi(x) \in Int /\ b \in Int /\ v \in Int
      BY <1>1, <1>2, <1>6, <1>7
    <3> HIDE DEF b
    <3> QED BY <2>1, <3>1
  <2>2. ASSUME \A x \in U : v <= hi(x) PROVE v <= b
    <3>1. CASE b = ValueRange
      BY <1>1, <3>1
    <3>2. CASE b # ValueRange
      <4>1. PICK x \in U : b = hi(x)
        BY <1>6, <3>2
      <4> QED BY <2>2, <4>1
    <3> QED BY <3>1, <3>2
  <2> HIDE DEF b
  <2> QED BY <2>1, <2>2
<1> HIDE DEF a, b
<1> QED BY <1>2, <1>7, <1>8, <1>9, <1>10 DEF U

\* A line that inferLine decides has the same grade on every number left.
LEMMA DecidedAlike ==
  ASSUME NEW k, NEW y \in Int, NEW sib, \A x \in DOMAIN sib : x \in Int, Decides(k, y, sib),
         NEW v \in Searched, \A x \in Used(k, sib) : v \in Consistent(k, x, sib[x])
  PROVE  GradeHigh(k, v, y) = GradeHigh(k, LowEnd(k, sib), y)
<1> DEFINE a == LowEnd(k, sib)
           b == HighEnd(k, sib)
<1>1. a \in Searched /\ b \in Searched /\ a <= v /\ v <= b
  BY EndsBound
<1>2. a \in Int /\ b \in Int /\ v \in Int
  BY <1>1, LadderAssumption DEF Searched
<1>3. GradeHigh(k, a, y) = GradeHigh(k, b, y)
  BY DEF Decides
<1> HIDE DEF a, b
<1>4. GradeHigh(k, v, y) = GradeHigh(k, a, y)
  BY <1>1, <1>2, <1>3, GradeBetween
<1> QED BY <1>4 DEF a

-----------------------------------------------------------------------------
(* The family over time *)

SidesSet == {Sides(g) : g \in Grades}

\* What the family and the answer of the query look like. A stored result
\* always has both sides, mirrored: the feed and the pass write no other.
LadderTyped ==
  /\ kind \in Kinds /\ number \in Values[kind]
  /\ result \in [Family -> {Open} \cup SidesSet]
  /\ todo \subseteq Family
  /\ DOMAIN found \subseteq Family
  /\ \A x \in DOMAIN found : found[x] \in SidesSet

\* A result a line may have: the one of the number, or a void of the feed.
Honest(x, r) ==
  \/ r = Sides(GradeHigh(kind, number, x))
  \/ x \in Voidable /\ r = Sides("void")

\* What the query returned misleads nobody.
FoundTrue == ~ \E x \in DOMAIN found : FalsePush(x, found[x])

\* The inductive invariant. The pass works from what its query returned, which
\* is older than the results it writes to: nothing it returned changes any
\* more, so that a line that misled one pass misleads every later one.
LadderInv ==
  /\ LadderTyped
  /\ InferenceIsNoGuess
  /\ \A x \in DOMAIN found : x \notin todo /\ found[x] = result[x]

\* Lines are integers, the number is one the search visits, and it grades
\* every line.
LEMMA FamilyTyped ==
  ASSUME LadderTyped
  PROVE  /\ \A x \in Family : x \in Int
         /\ number \in Searched /\ number \in Int
         /\ \A x \in Family, v \in Searched : Sides(GradeHigh(kind, v, x)) \in SidesSet
         /\ \A g \in Grades : Sides(g) # Open
<1>1. \A x \in Family : x \in Int
  BY LadderAssumption DEF LadderTyped, Family
<1>2. number \in Searched /\ number \in Int /\ Searched \subseteq Int
  BY LadderAssumption DEF LadderTyped, Searched
<1>3. \A x \in Family, v \in Searched : GradeHigh(kind, v, x) \in Grades
  BY <1>1, <1>2, GradeTyped
<1>4. \A g \in Grades : Sides(g) # Open
  BY DEF Sides, Open, Grades
<1> QED BY <1>1, <1>2, <1>3, <1>4 DEF SidesSet

\* What the pass infers is a grade.
LEMMA InferTyped ==
  ASSUME LadderTyped, NEW y \in Family
  PROVE  InferLine(kind, y, found) \in SidesSet
<1>1. LowEnd(kind, found) \in Searched
  BY FamilyTyped, EndsBound DEF LadderTyped
<1> QED BY <1>1, FamilyTyped DEF InferLine

\* The family keeps its shape.
LEMMA LadderTypedStep ==
  ASSUME LadderTyped, [LadderNext]_ladderVars
  PROVE  LadderTyped'
<1>1. ASSUME NEW x \in Family, FeedSettle(x)
      PROVE  LadderTyped'
  <2>1. Sides(GradeHigh(kind, number, x)) \in SidesSet
    BY FamilyTyped
  <2> QED BY <1>1, <2>1 DEF FeedSettle, LadderTyped, Family, SidesSet
<1>2. ASSUME NEW x \in Family, FeedVoid(x)
      PROVE  LadderTyped'
  <2>1. Sides("void") \in SidesSet
    BY DEF SidesSet, Grades
  <2> QED BY <1>2, <2>1 DEF FeedVoid, LadderTyped, Family, SidesSet
<1>3. ASSUME NEW y \in Family, ReconcileLine(y)
      PROVE  LadderTyped'
  <2>1. InferLine(kind, y, found) \in SidesSet
    BY InferTyped
  <2>2. result' \in [Family -> {Open} \cup SidesSet]
    BY <1>3, <2>1 DEF ReconcileLine, LadderTyped
  <2> QED BY <1>3, <2>2 DEF ReconcileLine, LadderTyped, Family, SidesSet
<1>4. CASE ReconcileLadderLines
  <2>1. \A x \in Settled : x \in Family /\ result[x] \in SidesSet
    BY DEF Settled, LadderTyped
  <2>2. DOMAIN found' = Settled /\ \A x \in Settled : found'[x] = result[x]
    BY <1>4 DEF ReconcileLadderLines, Siblings
  <2>3. todo' \subseteq Family /\ UNCHANGED <<kind, number, result>>
    BY <1>4 DEF ReconcileLadderLines
  <2> QED BY <2>1, <2>2, <2>3 DEF LadderTyped, Family, SidesSet
<1>5. CASE UNCHANGED ladderVars
  BY <1>5 DEF ladderVars, LadderTyped, Family, SidesSet
<1> QED BY <1>1, <1>2, <1>3, <1>4, <1>5 DEF LadderNext

\* The family starts with that shape.
LEMMA LadderTypedInit ==
  ASSUME LadderInit
  PROVE  LadderTyped
<1>1. result = [x \in Family |-> Open] /\ found = Siblings /\ todo = {}
  BY DEF LadderInit
<1>2. Settled = {}
  BY <1>1 DEF Settled
<1>3. DOMAIN found = {}
  BY <1>1, <1>2 DEF Siblings
<1> QED BY <1>1, <1>3 DEF LadderInit, LadderTyped

\* The settled lines that some number explains are those inferLine uses.
LEMMA ExplainedIsUsed ==
  ASSUME LadderTyped
  PROVE  /\ Explained = Used(kind, Siblings)
         /\ \A x \in Explained, v \in Searched :
              v \in Consistent(kind, x, Siblings[x]) <=> GradeHigh(kind, v, x) = result[x].hi
<1>1. DOMAIN Siblings = Settled /\ \A x \in Settled : Siblings[x] = result[x]
  BY DEF Siblings
<1>2. \A x \in Settled : SiblingUsable(result[x])
  <2> TAKE x \in Settled
  <2>1. PICK g \in Grades : result[x] = Sides(g)
    BY DEF LadderTyped, Settled, SidesSet
  <2> QED BY <2>1 DEF SiblingUsable, Sides
<1>3. \A x \in Settled : Consistent(kind, x, Siblings[x])
                           = {v \in Searched : GradeHigh(kind, v, x) = result[x].hi}
  BY <1>1 DEF Consistent
<1> QED BY <1>1, <1>2, <1>3 DEF Explained, Used

\* inferLine decides a line exactly when the numbers that explain the settled
\* lines all grade it alike, for every family, number and range of the search.
LEMMA IntervalExact ==
  ASSUME LadderTyped
  PROVE  IntervalIsExact
<1> SUFFICES ASSUME NEW y \in Family
             PROVE  Decides(kind, y, Siblings)
                      <=> /\ Possible \notin {{}, Searched}
                          /\ \E g \in Grades : \A v \in Possible : GradeHigh(kind, v, y) = g
  BY DEF IntervalIsExact
<1> DEFINE a == LowEnd(kind, Siblings)
           b == HighEnd(kind, Siblings)
<1>1. \A x \in DOMAIN Siblings : x \in Int
  BY FamilyTyped DEF Siblings, Settled
<1>2. /\ a \in Searched /\ b \in Searched
      /\ \A v \in Searched : a <= v /\ v <= b
           <=> \A x \in Used(kind, Siblings) : v \in Consistent(kind, x, Siblings[x])
  BY <1>1, EndsBound
<1>3. \A v : v \in Possible <=> v \in Searched /\ a <= v /\ v <= b
  BY <1>2, ExplainedIsUsed DEF Possible
<1>4. y \in Int /\ a \in Int /\ b \in Int /\ \A v \in Searched : v \in Int
  BY <1>2, FamilyTyped, LadderAssumption DEF Searched
<1>5. Used(kind, Siblings) = {} => Possible = Searched
  BY ExplainedIsUsed DEF Possible
<1>6. Possible = Searched <=> a = -ValueRange /\ b = ValueRange
  <2>1. /\ -ValueRange \in Searched /\ ValueRange \in Searched /\ ValueRange \in Nat
        /\ \A v \in Searched : -ValueRange <= v /\ v <= ValueRange
    BY LadderAssumption DEF Searched
  <2>2. Possible \subseteq Searched
    BY DEF Possible
  <2> HIDE DEF a, b
  <2>3. ASSUME Possible = Searched PROVE a = -ValueRange /\ b = ValueRange
    <3>1. a <= -ValueRange /\ ValueRange <= b
      BY <1>3, <2>1, <2>3
    <3> QED BY <1>2, <1>4, <2>1, <3>1
  <2> QED BY <1>3, <2>1, <2>2, <2>3
<1>7. Possible # {} <=> a <= b
  <2> HIDE DEF a, b
  <2>1. a <= b => a \in Possible
    BY <1>2, <1>3, <1>4
  <2>2. ASSUME NEW v \in Possible PROVE a <= b
    <3>1. v \in Int /\ a <= v /\ v <= b
      BY <1>3, <1>4
    <3> QED BY <1>4, <3>1
  <2> QED BY <2>1, <2>2
<1>8. Decides(kind, y, Siblings)
        <=> /\ Used(kind, Siblings) # {} /\ Possible # {} /\ Possible # Searched
            /\ GradeHigh(kind, a, y) = GradeHigh(kind, b, y)
  <2>1. Decides(kind, y, Siblings)
          <=> /\ Used(kind, Siblings) # {} /\ a <= b /\ <<a, b>> # <<-ValueRange, ValueRange>>
              /\ GradeHigh(kind, a, y) = GradeHigh(kind, b, y)
    BY DEF Decides
  <2> HIDE DEF a, b
  <2> QED BY <1>6, <1>7, <2>1
<1> HIDE DEF a, b
<1>9. ASSUME Possible # {}, GradeHigh(kind, a, y) = GradeHigh(kind, b, y)
      PROVE  \E g \in Grades : \A v \in Possible : GradeHigh(kind, v, y) = g
  <2>1. GradeHigh(kind, a, y) \in Grades
    BY <1>4, GradeTyped
  <2>2. ASSUME NEW v \in Possible PROVE GradeHigh(kind, v, y) = GradeHigh(kind, a, y)
    <3>1. v \in Int /\ a <= v /\ v <= b
      BY <1>3, <1>4
    <3> QED BY <1>4, <1>9, <3>1, GradeBetween
  <2> QED BY <2>1, <2>2
<1>10. ASSUME Possible # {}, NEW g \in Grades, \A v \in Possible : GradeHigh(kind, v, y) = g
       PROVE  GradeHigh(kind, a, y) = GradeHigh(kind, b, y)
  <2>1. a \in Possible /\ b \in Possible
    BY <1>2, <1>3, <1>4, <1>7, <1>10
  <2> QED BY <1>10, <2>1
<1> QED BY <1>5, <1>8, <1>9, <1>10

\* What the pass infers is the result of the number the match ended on: every
\* sibling it uses was graded on that number, since a void of the feed on a
\* half or quarter line is a result no number has.
LEMMA InferHonest ==
  ASSUME LadderInv, FoundTrue, NEW y \in Family, Decides(kind, y, found)
  PROVE  InferLine(kind, y, found) = Sides(GradeHigh(kind, number, y))
<1>1. /\ \A x \in Family : x \in Int
      /\ number \in Searched /\ number \in Int /\ DOMAIN found \subseteq Family
  BY FamilyTyped DEF LadderInv, LadderTyped
<1>2. ASSUME NEW x \in Used(kind, found)
      PROVE  number \in Consistent(kind, x, found[x])
  <2>1. x \in DOMAIN found /\ x \in Int /\ Consistent(kind, x, found[x]) # {}
    BY <1>1 DEF Used
  <2>2. found[x] \in SidesSet
    BY <2>1 DEF LadderInv, LadderTyped
  <2>3. found[x] = result[x] /\ found[x] # Open
    BY <2>1, <2>2, FamilyTyped DEF LadderInv, SidesSet
  <2>4. Honest(x, found[x])
    <3>1. x \in Settled
      BY <1>1, <2>1, <2>3 DEF Settled
    <3> QED BY <2>3, <3>1 DEF LadderInv, InferenceIsNoGuess, NothingIsAGuess, FoundTrue, Honest
  <2>5. CASE found[x] = Sides(GradeHigh(kind, number, x))
    BY <1>1, <2>5 DEF Consistent, Sides
  <2>6. CASE x \in Voidable /\ found[x] = Sides("void")
    <3>1. CASE x % 4 = 0
      <4>1. GradeHigh(kind, number, x) = "void"
        BY <2>1, <2>6, <3>1 DEF FoundTrue, FalsePush
      <4> QED BY <2>5, <2>6, <4>1
    <3>2. CASE x % 4 # 0
      <4>1. PICK v \in Searched : GradeHigh(kind, v, x) = "void"
        BY <2>1, <2>6 DEF Consistent, Sides
      <4>2. v \in Int
        BY LadderAssumption DEF Searched
      <4> QED BY <2>1, <3>2, <4>1, <4>2, OnlyWholeLinesPush
    <3> QED BY <3>1, <3>2
  <2> QED BY <2>4, <2>5, <2>6 DEF Honest
<1>3. GradeHigh(kind, number, y) = GradeHigh(kind, LowEnd(kind, found), y)
  BY <1>1, <1>2, DecidedAlike
<1> QED BY <1>3 DEF InferLine

\* What the running pass reads stays as it is, and true if it was.
LEMMA FoundKept ==
  ASSUME LadderInv, NEW y \in Family, UNCHANGED <<kind, number, found>>,
         todo' \subseteq todo, result[y] = Open \/ y \in todo,
         \A x \in Family : x # y => result'[x] = result[x]
  PROVE  /\ (\A x \in DOMAIN found : x \notin todo /\ found[x] = result[x])'
         /\ FoundTrue' <=> FoundTrue
<1>1. DOMAIN found \subseteq Family /\ \A x \in DOMAIN found : found[x] # Open
  BY FamilyTyped DEF LadderInv, LadderTyped, SidesSet
<1>2. \A x \in DOMAIN found : x \notin todo /\ found[x] = result[x]
  BY DEF LadderInv
<1>3. y \notin DOMAIN found
  BY <1>1, <1>2
<1>4. DOMAIN found' = DOMAIN found /\ \A x \in DOMAIN found : found'[x] = found[x]
  OBVIOUS
<1>5. (\A x \in DOMAIN found : x \notin todo /\ found[x] = result[x])'
  <2>1. \A x \in DOMAIN found : x \notin todo' /\ found'[x] = result'[x]
    BY <1>1, <1>2, <1>3, <1>4
  <2> QED BY <1>4, <2>1
<1>6. FoundTrue' <=> FoundTrue
  BY <1>4 DEF FoundTrue, FalsePush
<1> QED BY <1>5, <1>6

\* Every step keeps the results honest.
LEMMA LadderInvStep ==
  ASSUME LadderInv, [LadderNext]_ladderVars
  PROVE  LadderInv'
<1>1. LadderTyped'
  BY LadderTypedStep DEF LadderInv
<1>2. ASSUME NEW y \in Family, NEW r, FoundTrue => Honest(y, r),
             result' = [result EXCEPT ![y] = r], UNCHANGED <<kind, number, found>>,
             todo' \subseteq todo, result[y] = Open \/ y \in todo
      PROVE  LadderInv'
  <2>1. \A x \in Family : result'[x] = IF x = y THEN r ELSE result[x]
    BY <1>2 DEF LadderInv, LadderTyped
  <2>2. Family' = Family
    BY <1>2 DEF Family
  <2>3. /\ (\A x \in DOMAIN found : x \notin todo /\ found[x] = result[x])'
        /\ FoundTrue' <=> FoundTrue
    <3>1. \A x \in Family : x # y => result'[x] = result[x]
      BY <2>1
    <3> QED BY <1>2, <3>1, FoundKept
  <2>4. ASSUME FoundTrue
        PROVE  NothingIsAGuess'
    <3>1. \A x \in Family : result[x] # Open => Honest(x, result[x])
      BY <2>4 DEF LadderInv, InferenceIsNoGuess, NothingIsAGuess, FoundTrue, Settled, Honest
    <3>2. \A x \in Family : result'[x] # Open => Honest(x, result'[x])
      BY <1>2, <2>1, <2>4, <3>1
    <3> QED BY <1>2, <2>2, <3>2 DEF NothingIsAGuess, Settled, Honest
  <2>5. InferenceIsNoGuess'
    BY <2>3, <2>4 DEF InferenceIsNoGuess, FoundTrue
  <2> QED BY <1>1, <2>3, <2>5 DEF LadderInv
<1>3. ASSUME NEW x \in Family, FeedSettle(x)
      PROVE  LadderInv'
  BY <1>2, <1>3 DEF FeedSettle, Honest
<1>4. ASSUME NEW x \in Family, FeedVoid(x)
      PROVE  LadderInv'
  BY <1>2, <1>4 DEF FeedVoid, Honest
<1>5. ASSUME NEW y \in Family, ReconcileLine(y)
      PROVE  LadderInv'
  <2>1. CASE Decides(kind, y, found)
    <3>1. FoundTrue => Honest(y, InferLine(kind, y, found))
      BY <2>1, InferHonest DEF Honest
    <3> QED BY <1>2, <1>5, <2>1, <3>1 DEF ReconcileLine
  <2>2. CASE ~Decides(kind, y, found)
    <3>1. UNCHANGED <<kind, number, result, found>> /\ todo' \subseteq todo /\ y \in todo
      BY <1>5, <2>2 DEF ReconcileLine
    <3>2. /\ (\A x \in DOMAIN found : x \notin todo /\ found[x] = result[x])'
          /\ FoundTrue' <=> FoundTrue
      BY <3>1, FoundKept
    <3>3. NothingIsAGuess' <=> NothingIsAGuess
      BY <3>1 DEF NothingIsAGuess, Settled, Family
    <3>4. InferenceIsNoGuess'
      BY <3>2, <3>3 DEF LadderInv, InferenceIsNoGuess, FoundTrue
    <3> QED BY <1>1, <3>2, <3>4 DEF LadderInv
  <2> QED BY <2>1, <2>2
<1>6. CASE ReconcileLadderLines
  <2>1. UNCHANGED <<kind, number, result>> /\ todo' = Family \ Settled
    BY <1>6 DEF ReconcileLadderLines
  <2>2. DOMAIN found' = Settled /\ \A x \in Settled : found'[x] = result[x]
    BY <1>6 DEF ReconcileLadderLines, Siblings
  <2>3. DOMAIN found \subseteq Settled /\ \A x \in DOMAIN found : found[x] = result[x]
    <3>1. DOMAIN found \subseteq Family /\ \A x \in DOMAIN found : found[x] # Open
      BY FamilyTyped DEF LadderInv, LadderTyped, SidesSet
    <3> QED BY <3>1 DEF LadderInv, Settled
  <2>4. FoundTrue' => FoundTrue
    BY <2>1, <2>2, <2>3 DEF FoundTrue, FalsePush
  <2>5. NothingIsAGuess' <=> NothingIsAGuess
    BY <2>1 DEF NothingIsAGuess, Settled, Family
  <2>6. InferenceIsNoGuess'
    BY <2>4, <2>5 DEF LadderInv, InferenceIsNoGuess, FoundTrue
  <2>7. (\A x \in DOMAIN found : x \notin todo /\ found[x] = result[x])'
    <3>1. \A x \in DOMAIN found' : x \notin todo' /\ found'[x] = result'[x]
      BY <2>1, <2>2
    <3> QED BY <3>1
  <2> QED BY <1>1, <2>6, <2>7 DEF LadderInv
<1>7. CASE UNCHANGED ladderVars
  <2>1. NothingIsAGuess' <=> NothingIsAGuess
    BY <1>7 DEF ladderVars, NothingIsAGuess, Settled, Family
  <2>2. FoundTrue' <=> FoundTrue
    BY <1>7 DEF ladderVars, FoundTrue, FalsePush
  <2> QED BY <1>1, <1>7, <2>1, <2>2 DEF ladderVars, LadderInv, InferenceIsNoGuess, FoundTrue
<1> QED BY <1>3, <1>4, <1>5, <1>6, <1>7 DEF LadderNext

\* store/ladder.go, inferLine: the two ends of the interval decide a line
\* exactly when all the numbers that explain the settled lines grade it alike,
\* in every state that feed and inference reach, for every family of lines,
\* with or without voids.
THEOREM InferenceExact == LadderSpec => []IntervalIsExact
<1>1. LadderInit => LadderTyped
  BY LadderTypedInit
<1>2. LadderTyped /\ [LadderNext]_ladderVars => LadderTyped'
  BY LadderTypedStep
<1>3. LadderTyped => IntervalIsExact
  BY IntervalExact
<1> QED BY <1>1, <1>2, <1>3, PTL DEF LadderSpec

\* "Nothing here is a guess": whatever mixture of feed and passes settled a
\* family, every line has the result of the number or the void the feed sent,
\* for every family of lines and every choice of voids, until a pass reads a
\* whole line that was voided without a push. (Such a void pins the number, so
\* that nothing can be said from there on.)
THEOREM InferenceHonest == LadderSpec => []InferenceIsNoGuess
<1>1. LadderInit => LadderInv
  <2> SUFFICES ASSUME LadderInit PROVE LadderInv
    OBVIOUS
  <2>1. LadderTyped
    BY LadderTypedInit
  <2>2. Settled = {}
    BY DEF LadderInit, Settled
  <2>3. DOMAIN found = {}
    BY <2>2 DEF LadderInit, Siblings
  <2> QED BY <2>1, <2>2, <2>3 DEF LadderInv, InferenceIsNoGuess, NothingIsAGuess
<1>2. LadderInv /\ [LadderNext]_ladderVars => LadderInv'
  BY LadderInvStep
<1>3. LadderInv => InferenceIsNoGuess
  BY DEF LadderInv
<1> QED BY <1>1, <1>2, <1>3, PTL DEF LadderSpec

-----------------------------------------------------------------------------
(* Arithmetic of payouts *)

\* The order of products.
LEMMA TimesMono ==
  ASSUME NEW a \in Nat, NEW b \in Nat, NEW c \in Nat, NEW d \in Nat, a <= b, c <= d
  PROVE  a * c <= b * d
<1>1. a * c <= b * c
  OBVIOUS
<1>2. b * c <= b * d
  OBVIOUS
<1>3. a * c \in Nat /\ b * c \in Nat /\ b * d \in Nat
  BY NatTimes
<1> QED BY <1>1, <1>2, <1>3

\* Truncated division is the quotient of Euclid.
LEMMA DivBounds ==
  ASSUME NEW a \in Nat, NEW b \in Nat, b > 0
  PROVE  /\ a \div b \in Nat
         /\ b * (a \div b) <= a /\ a < b * (a \div b) + b
OBVIOUS

\* A positive factor can be dropped from both sides of an inequality.
LEMMA TimesCancel ==
  ASSUME NEW a \in Int, NEW b \in Int, NEW c \in Nat, c > 0
  PROVE  /\ c * a < c * b => a < b
         /\ c * a <= c * b => a <= b
         /\ a <= b => c * a <= c * b
         /\ a < b => c * a < c * b
OBVIOUS

\* The quotient is the only one.
LEMMA DivUnique ==
  ASSUME NEW a \in Nat, NEW b \in Nat, b > 0, NEW q \in Nat, b * q <= a, a < b * q + b
  PROVE  a \div b = q
<1> DEFINE p == a \div b
<1>1. p \in Nat /\ b * p <= a /\ a < b * p + b
  BY DivBounds
<1> HIDE DEF p
<1>2. b * p \in Int /\ b * q \in Int
  BY <1>1
<1>3. b * (p + 1) = b * p + b /\ b * (q + 1) = b * q + b
  BY <1>1
<1>4. b * p < b * (q + 1) /\ b * q < b * (p + 1)
  BY <1>1, <1>2, <1>3
<1>5. p < q + 1 /\ q < p + 1
  <2>1. p + 1 \in Int /\ q + 1 \in Int /\ p \in Int /\ q \in Int
    BY <1>1
  <2> QED BY <1>4, <2>1, TimesCancel
<1>6. p = q
  BY <1>1, <1>5
<1> QED BY <1>6 DEF p

\* Exact division.
LEMMA DivExact ==
  ASSUME NEW a \in Nat, NEW b \in Nat, b > 0
  PROVE  (a * b) \div b = a
<1>1. a * b \in Nat /\ b * a = a * b
  BY NatTimes
<1> QED BY <1>1, DivUnique

\* Truncation keeps the order.
LEMMA DivMono ==
  ASSUME NEW a \in Nat, NEW c \in Nat, NEW b \in Nat, b > 0, a <= c
  PROVE  a \div b <= c \div b
<1> DEFINE p == a \div b
           q == c \div b
<1>1. p \in Nat /\ b * p <= a /\ q \in Nat /\ c < b * q + b
  BY DivBounds
<1> HIDE DEF p, q
<1>2. b * p \in Int /\ b * q \in Int /\ b * (q + 1) = b * q + b
  BY <1>1
<1>3. b * p < b * (q + 1)
  BY <1>1, <1>2
<1>4. p < q + 1
  <2>1. p \in Int /\ q + 1 \in Int
    BY <1>1
  <2> QED BY <1>3, <2>1, TimesCancel
<1>5. p <= q
  BY <1>1, <1>4
<1> QED BY <1>5 DEF p, q

\* A factor of both terms cancels.
LEMMA DivCancel ==
  ASSUME NEW a \in Nat, NEW b \in Nat, b > 0, NEW c \in Nat, c > 0
  PROVE  (c * a) \div (c * b) = a \div b
<1> DEFINE q == a \div b
<1>1. q \in Nat /\ b * q <= a /\ a < b * q + b
  BY DivBounds
<1> HIDE DEF q
<1>2. c * a \in Nat /\ c * b \in Nat /\ c * b > 0 /\ b * q \in Nat
  BY <1>1, NatTimes
<1>3. (c * b) * q = c * (b * q)
  BY <1>1
<1>4. (c * b) * q + c * b = c * (b * q + b)
  BY <1>1, <1>2, <1>3
<1>5. c * (b * q) <= c * a /\ c * a < c * (b * q + b)
  <2>1. a \in Int /\ b * q \in Int /\ b * q + b \in Int
    BY <1>2
  <2> QED BY <1>1, <2>1, TimesCancel
<1>6. (c * b) * q <= c * a /\ c * a < (c * b) * q + c * b
  BY <1>3, <1>4, <1>5
<1>7. (c * a) \div (c * b) = q
  BY <1>1, <1>2, <1>6, DivUnique
<1> QED BY <1>7 DEF q

-----------------------------------------------------------------------------
(* Products over the legs *)

\* Product is the recursive function of the fold.
LEMMA ProductRecursion ==
  ASSUME NEW f, IsFiniteSet(DOMAIN f)
  PROVE  \E g : IsTimes(g, f, DOMAIN f) /\ Product(f) = g[DOMAIN f]
<1> DEFINE g == CHOOSE h : IsTimes(h, f, DOMAIN f)
<1>1. IsTimes(g, f, DOMAIN f)
  BY TimesExists
<1>2. Product(f) = g[DOMAIN f]
  BY DEF Product, FoldFunction, FoldFunctionOnSet, MapThenFoldSet, IsTimes, Pick
<1> QED BY <1>1, <1>2

\* A product of natural factors is natural, and positive when they are.
LEMMA ProductIsNat ==
  ASSUME NEW S, IsFiniteSet(S), NEW f \in [S -> Nat]
  PROVE  Product(f) \in Nat /\ ((\A x \in S : f[x] > 0) => Product(f) > 0)
<1>1. DOMAIN f = S
  OBVIOUS
<1>2. PICK g : IsTimes(g, f, S) /\ Product(f) = g[S]
  BY <1>1, ProductRecursion
<1> QED BY <1>2, ProductNat

\* The product over one leg is its factor.
LEMMA ProductOne ==
  ASSUME NEW l, NEW f \in [{l} -> Nat]
  PROVE  Product(f) = f[l]
<1>1. DOMAIN f = {l} /\ IsFiniteSet({l})
  BY FS_Singleton
<1>2. PICK g : IsTimes(g, f, {l}) /\ Product(f) = g[{l}]
  BY <1>1, ProductRecursion
<1>3. Pick({l}) = l /\ {l} \ {l} = {}
  BY DEF Pick
<1>4. g[{}] = 1
  BY <1>2 DEF IsTimes
<1>5. g[{l}] = f[l] * g[{}]
  BY <1>2, <1>3 DEF IsTimes
<1> QED BY <1>2, <1>4, <1>5

\* Products multiply factor by factor.
LEMMA ProductTimes ==
  ASSUME NEW S, IsFiniteSet(S), NEW f \in [S -> Nat], NEW h \in [S -> Nat], NEW k \in [S -> Nat],
         \A x \in S : k[x] = f[x] * h[x]
  PROVE  Product(k) = Product(f) * Product(h)
<1>1. DOMAIN f = S /\ DOMAIN h = S /\ DOMAIN k = S
  OBVIOUS
<1>2. PICK F : IsTimes(F, f, S) /\ Product(f) = F[S]
  BY <1>1, ProductRecursion
<1>3. PICK H : IsTimes(H, h, S) /\ Product(h) = H[S]
  BY <1>1, ProductRecursion
<1>4. PICK K : IsTimes(K, k, S) /\ Product(k) = K[S]
  BY <1>1, ProductRecursion
<1> DEFINE T == {s \in SUBSET S : F[s] \in Nat /\ H[s] \in Nat /\ K[s] = F[s] * H[s]}
<1>5. ASSUME NEW s \in SUBSET S, \A t \in SUBSET s : t # s => t \in T
      PROVE  s \in T
  <2>1. CASE s = {}
    <3>1. F[s] = 1 /\ H[s] = 1 /\ K[s] = 1
      BY <1>2, <1>3, <1>4, <2>1 DEF IsTimes
    <3> QED BY <3>1
  <2>2. CASE s # {}
    <3> DEFINE p == Pick(s)
               r == s \ {p}
    <3>1. r \in T /\ p \in S
      BY <1>5, <2>2, PickIn
    <3>2. F[s] = f[p] * F[r] /\ H[s] = h[p] * H[r] /\ K[s] = k[p] * K[r]
      BY <1>2, <1>3, <1>4, <2>2 DEF IsTimes
    <3> HIDE DEF p, r
    <3>3. F[r] \in Nat /\ H[r] \in Nat /\ K[r] = F[r] * H[r] /\ f[p] \in Nat /\ h[p] \in Nat
      BY <3>1
    <3>4. F[s] \in Nat /\ H[s] \in Nat
      BY <3>2, <3>3, NatTimes
    <3>5. \A a, b, c, d \in Nat : (a * b) * (c * d) = (a * c) * (b * d)
      OBVIOUS
    <3>6. K[s] = F[s] * H[s]
      BY <3>1, <3>2, <3>3, <3>5
    <3> QED BY <3>4, <3>6
  <2> QED BY <2>1, <2>2
<1>6. \A s \in SUBSET S : s \in T
  <2>1. T \in SUBSET (SUBSET S)
    OBVIOUS
  <2> HIDE DEF T
  <2> QED BY <1>5, <2>1, SubsetInduction
<1> QED BY <1>2, <1>3, <1>4, <1>6

\* Larger factors have a larger product.
LEMMA ProductMono ==
  ASSUME NEW S, IsFiniteSet(S), NEW f \in [S -> Nat], NEW h \in [S -> Nat],
         \A x \in S : f[x] <= h[x]
  PROVE  Product(f) <= Product(h)
<1>1. DOMAIN f = S /\ DOMAIN h = S
  OBVIOUS
<1>2. PICK F : IsTimes(F, f, S) /\ Product(f) = F[S]
  BY <1>1, ProductRecursion
<1>3. PICK H : IsTimes(H, h, S) /\ Product(h) = H[S]
  BY <1>1, ProductRecursion
<1> DEFINE T == {s \in SUBSET S : F[s] \in Nat /\ H[s] \in Nat /\ F[s] <= H[s]}
<1>4. ASSUME NEW s \in SUBSET S, \A t \in SUBSET s : t # s => t \in T
      PROVE  s \in T
  <2>1. CASE s = {}
    <3>1. F[s] = 1 /\ H[s] = 1
      BY <1>2, <1>3, <2>1 DEF IsTimes
    <3> QED BY <3>1
  <2>2. CASE s # {}
    <3> DEFINE p == Pick(s)
               r == s \ {p}
    <3>1. r \in T /\ p \in S
      BY <1>4, <2>2, PickIn
    <3>2. F[s] = f[p] * F[r] /\ H[s] = h[p] * H[r]
      BY <1>2, <1>3, <2>2 DEF IsTimes
    <3> HIDE DEF p, r
    <3>3. /\ F[r] \in Nat /\ H[r] \in Nat /\ F[r] <= H[r]
          /\ f[p] \in Nat /\ h[p] \in Nat /\ f[p] <= h[p]
      BY <3>1
    <3>4. F[s] \in Nat /\ H[s] \in Nat
      BY <3>2, <3>3, NatTimes
    <3>5. F[s] <= H[s]
      BY <3>2, <3>3, TimesMono
    <3> QED BY <3>4, <3>5
  <2> QED BY <2>1, <2>2
<1>5. \A s \in SUBSET S : s \in T
  <2>1. T \in SUBSET (SUBSET S)
    OBVIOUS
  <2> HIDE DEF T
  <2> QED BY <1>4, <2>1, SubsetInduction
<1> QED BY <1>2, <1>3, <1>5

\* One factor a quarter short leaves the whole product a quarter short.
LEMMA ProductShort ==
  ASSUME NEW S, IsFiniteSet(S), NEW f \in [S -> Nat], NEW h \in [S -> Nat],
         \A x \in S : f[x] <= h[x], NEW y \in S, 4 * f[y] <= 3 * h[y]
  PROVE  4 * Product(f) <= 3 * Product(h)
<1>1. DOMAIN f = S /\ DOMAIN h = S
  OBVIOUS
<1>2. PICK F : IsTimes(F, f, S) /\ Product(f) = F[S]
  BY <1>1, ProductRecursion
<1>3. PICK H : IsTimes(H, h, S) /\ Product(h) = H[S]
  BY <1>1, ProductRecursion
<1> DEFINE T == {s \in SUBSET S : /\ F[s] \in Nat /\ H[s] \in Nat /\ F[s] <= H[s]
                                  /\ y \in s => 4 * F[s] <= 3 * H[s]}
<1>4. ASSUME NEW s \in SUBSET S, \A t \in SUBSET s : t # s => t \in T
      PROVE  s \in T
  <2>1. CASE s = {}
    <3>1. F[s] = 1 /\ H[s] = 1
      BY <1>2, <1>3, <2>1 DEF IsTimes
    <3> QED BY <2>1, <3>1
  <2>2. CASE s # {}
    <3> DEFINE p == Pick(s)
               r == s \ {p}
    <3>1. r \in T /\ p \in S /\ (y \in s => p = y \/ y \in r)
      BY <1>4, <2>2, PickIn
    <3>2. F[s] = f[p] * F[r] /\ H[s] = h[p] * H[r]
      BY <1>2, <1>3, <2>2 DEF IsTimes
    <3> HIDE DEF p, r
    <3>3. /\ F[r] \in Nat /\ H[r] \in Nat /\ F[r] <= H[r] /\ (y \in r => 4 * F[r] <= 3 * H[r])
          /\ f[p] \in Nat /\ h[p] \in Nat /\ f[p] <= h[p] /\ (p = y => 4 * f[p] <= 3 * h[p])
      BY <3>1
    <3>4. F[s] \in Nat /\ H[s] \in Nat
      BY <3>2, <3>3, NatTimes
    <3>5. F[s] <= H[s]
      BY <3>2, <3>3, TimesMono
    <3>6. CASE p = y
      <4>1. (4 * f[p]) * F[r] <= (3 * h[p]) * H[r]
        <5>1. 4 * f[p] \in Nat /\ 3 * h[p] \in Nat /\ 4 * f[p] <= 3 * h[p]
          BY <3>3, <3>6
        <5> QED BY <3>3, <5>1, TimesMono
      <4>2. (4 * f[p]) * F[r] = 4 * (f[p] * F[r]) /\ (3 * h[p]) * H[r] = 3 * (h[p] * H[r])
        BY <3>3
      <4>3. 4 * F[s] <= 3 * H[s]
        BY <3>2, <4>1, <4>2
      <4> QED BY <3>4, <3>5, <4>3
    <3>7. CASE y \in r
      <4>1. f[p] * (4 * F[r]) <= h[p] * (3 * H[r])
        <5>1. 4 * F[r] \in Nat /\ 3 * H[r] \in Nat /\ 4 * F[r] <= 3 * H[r]
          BY <3>3, <3>7
        <5> QED BY <3>3, <5>1, TimesMono
      <4>2. f[p] * (4 * F[r]) = 4 * (f[p] * F[r]) /\ h[p] * (3 * H[r]) = 3 * (h[p] * H[r])
        BY <3>3
      <4>3. 4 * F[s] <= 3 * H[s]
        BY <3>2, <4>1, <4>2
      <4> QED BY <3>4, <3>5, <4>3
    <3>8. CASE y \notin s
      BY <3>4, <3>5, <3>8
    <3> QED BY <3>1, <3>6, <3>7, <3>8
  <2> QED BY <2>1, <2>2
<1>5. \A s \in SUBSET S : s \in T
  <2>1. T \in SUBSET (SUBSET S)
    OBVIOUS
  <2> HIDE DEF T
  <2> QED BY <1>4, <2>1, SubsetInduction
<1> QED BY <1>2, <1>3, <1>5

-----------------------------------------------------------------------------
(* Graded legs *)

\* A resolved leg: any of the five results, and a factor below 1 unless it is
\* void. The stored factor of a half result may be missing (0).
LegGrades ==
  {g \in [result: {"won", "lost", "void", "half_won", "half_lost"}, vf: 0 .. 4] :
     g.result # "void" => g.vf <= 3}

\* What the feed makes of a leg is one of these.
LEMMA GradingShape == Gradings \subseteq LegGrades
<1> SUFFICES ASSUME NEW r \in FeedResults, NEW vf \in VoidFactors
             PROVE  Graded(r, vf) \in LegGrades
  BY DEF Gradings
<1> DEFINE g == MapOutcomeResult(r, vf)
<1>1. vf \in 0 .. 4 /\ (r = "1" \/ r = "0" \/ r = "none")
  BY DEF VoidFactors, FeedResults
<1>2. g \in {"won", "lost", "void", "half_won", "half_lost"} /\ (g # "void" => vf <= 3)
  <2>1. CASE vf = 4
    BY <2>1 DEF MapOutcomeResult
  <2>2. CASE vf # 4
    <3>1. vf <= 3
      BY <1>1, <2>2
    <3>2. CASE r = "1"
      BY <2>2, <3>1, <3>2 DEF MapOutcomeResult
    <3>3. CASE r = "0"
      BY <2>2, <3>1, <3>3 DEF MapOutcomeResult
    <3>4. CASE r = "none"
      BY <2>2, <3>1, <3>4 DEF MapOutcomeResult
    <3> QED BY <1>1, <3>2, <3>3, <3>4
  <2> QED BY <2>1, <2>2
<1>3. Graded(r, vf) = [result |-> g, vf |-> vf]
  BY DEF Graded
<1> HIDE DEF g
<1> QED BY <1>1, <1>2, <1>3 DEF LegGrades

\* The fields of a resolved leg.
LEMMA LegShape ==
  ASSUME NEW g \in LegGrades
  PROVE  /\ g.vf \in 0 .. 4
         /\ g.result \in {"won", "lost", "void", "half_won", "half_lost"}
         /\ g.result # "void" => g.vf <= 3
BY DEF LegGrades

\* What a leg multiplies the stake by is never negative; a void leg returns the
\* stake, and a lost one at most three quarters of it.
LEMMA FactorShape ==
  ASSUME NEW o \in Nat, NEW g \in LegGrades
  PROVE  /\ EffectiveFactor(o, g) \in Nat
         /\ g.result = "void" => EffectiveFactor(o, g) = 4 * Q
         /\ g.result \in {"lost", "half_lost"} => EffectiveFactor(o, g) <= 3 * Q
<1>1. Q \in Nat
  BY QuantumAssumption
<1> DEFINE vf == CASE g.result = "void" -> 4
                   [] g.result \in {"half_won", "half_lost"} /\ g.vf = 0 -> 2
                   [] OTHER -> g.vf
           res == IF g.result \in {"won", "half_won"} THEN 1 ELSE 0
<1>2. EffectiveFactor(o, g) = (4 - vf) * res * o + vf * Q
  BY DEF EffectiveFactor
<1>3. vf \in 0 .. 4 /\ (g.result = "void" => vf = 4)
      /\ (g.result \in {"lost", "half_lost"} => vf <= 3)
  <2>1. g.vf \in 0 .. 4 /\ (g.result # "void" => g.vf <= 3)
    BY LegShape
  <2>2. CASE g.result = "void"
    BY <2>2
  <2>3. CASE g.result # "void" /\ g.result \in {"half_won", "half_lost"} /\ g.vf = 0
    BY <2>3
  <2>4. CASE g.result # "void" /\ ~(g.result \in {"half_won", "half_lost"} /\ g.vf = 0)
    <3>1. vf = g.vf
      BY <2>4
    <3> HIDE DEF vf
    <3> QED BY <2>1, <2>4, <3>1
  <2> QED BY <2>2, <2>3, <2>4
<1>4. res \in 0 .. 1 /\ (g.result \in {"void", "lost", "half_lost"} => res = 0)
  OBVIOUS
<1> HIDE DEF vf, res
<1>5. (4 - vf) * res \in Nat
  BY <1>3, <1>4
<1>6. ((4 - vf) * res) * o \in Nat /\ vf * Q \in Nat
  <2>1. vf \in Nat
    BY <1>3
  <2> QED BY <1>1, <1>5, <2>1, NatTimes
<1>7. res = 0 => EffectiveFactor(o, g) = vf * Q
  BY <1>2, <1>3, <1>6
<1>8. vf <= 3 => vf * Q <= 3 * Q
  BY <1>1, <1>3
<1>9. vf = 4 => vf * Q = 4 * Q
  OBVIOUS
<1>10. EffectiveFactor(o, g) \in Nat
  BY <1>2, <1>6
<1>11. g.result = "void" => EffectiveFactor(o, g) = 4 * Q
  BY <1>3, <1>4, <1>7, <1>9
<1>12. g.result \in {"lost", "half_lost"} => EffectiveFactor(o, g) <= 3 * Q
  BY <1>3, <1>4, <1>7, <1>8
<1> QED BY <1>10, <1>11, <1>12

\* A leg won in full multiplies by its odds.
LEMMA WonFactor ==
  ASSUME NEW o \in Nat
  PROVE  Graded("1", 0).result = "won" /\ EffectiveFactor(o, Graded("1", 0)) = 4 * o
<1>1. Graded("1", 0) = [result |-> "won", vf |-> 0]
  BY DEF Graded, MapOutcomeResult
<1>2. Q \in Nat
  BY QuantumAssumption
<1>3. EffectiveFactor(o, [result |-> "won", vf |-> 0]) = (4 - 0) * 1 * o + 0 * Q
  BY DEF EffectiveFactor
<1> QED BY <1>1, <1>2, <1>3

-----------------------------------------------------------------------------
(* One ticket: what it pays is a natural number, and a refund is the stake *)

\* What the payout of a ticket relies on, of the ticket as placement writes it.
Ticket(b) ==
  /\ b.type \in {"single", "combo", "tiple", "tippot", "betbuilder"}
  /\ b.stake \in Nat /\ b.boost \in Nat
  /\ IsFiniteSet(Legs(b)) /\ Legs(b) # {} /\ b.odds \in [Legs(b) -> Nat \ {0}]
  /\ b.type = "single" => \E l \in Legs(b) : Legs(b) = {l}
  /\ b.type \in {"tiple", "betbuilder"} => b.session \in Nat /\ b.session >= Q
  /\ b.type = "tippot" =>
       /\ b.tiers \in Seq(Nat) /\ Len(b.tiers) = Cardinality(Legs(b))
       /\ \A i, j \in DOMAIN b.tiers : i <= j => b.tiers[i] <= b.tiers[j]

\* The result of a payout function that is right so far: a natural number, the
\* stake when it is booked as a refund.
GoodOutcome(b, o) ==
  /\ o \in [payout: Nat, type: {"bet_payout", "bet_refund"}]
  /\ o.type = "bet_refund" => o.payout = b.stake

\* Freezing the boost leaves the rest of the ticket alone.
LEMMA PlacedFields ==
  ASSUME NEW b \in Bets
  PROVE  /\ Placed(b).type = b.type /\ Placed(b).stake = b.stake /\ Placed(b).odds = b.odds
         /\ Placed(b).session = b.session /\ Placed(b).tiers = b.tiers
         /\ Placed(b).boost = FreezeBoost(b.boost) /\ Placed(b).boost \in Nat
         /\ Legs(Placed(b)) = Legs(b)
<1>1. b = [type |-> b.type, stake |-> b.stake, odds |-> b.odds, boost |-> b.boost,
           session |-> b.session, tiers |-> b.tiers]
  BY GradingAssumption
<1> DEFINE p == Placed(b)
<1>2. p = [type |-> b.type, stake |-> b.stake, odds |-> b.odds, boost |-> FreezeBoost(b.boost),
           session |-> b.session, tiers |-> b.tiers]
  BY <1>1 DEF Placed
<1>3. FreezeBoost(b.boost) \in Nat
  <2>1. b.boost \in Nat /\ BoostUnit \in Nat /\ BoostUnit > 0
    BY GradingAssumption
  <2> DEFINE n == 2 * b.boost + BoostUnit
             d == 2 * BoostUnit
  <2>2. n \in Nat /\ d \in Nat /\ d > 0
    BY <2>1
  <2> HIDE DEF n, d
  <2>3. n \div d \in Nat
    BY <2>2, DivBounds
  <2> QED BY <2>1, <2>3, NatTimes DEF FreezeBoost, n, d
<1> HIDE DEF p
<1>4. p.type = b.type /\ p.stake = b.stake /\ p.odds = b.odds /\ p.session = b.session
      /\ p.tiers = b.tiers /\ p.boost = FreezeBoost(b.boost)
  BY <1>2
<1> QED BY <1>3, <1>4 DEF p, Legs

\* Placement writes a ticket.
LEMMA PlacedTicket ==
  ASSUME NEW b \in Bets
  PROVE  Ticket(b) /\ Ticket(Placed(b))
<1>1. Ticket(b)
  BY GradingAssumption DEF Ticket
<1> DEFINE p == Placed(b)
<1>2. p.type = b.type /\ p.stake = b.stake /\ p.odds = b.odds /\ p.session = b.session
      /\ p.tiers = b.tiers /\ p.boost \in Nat /\ Legs(p) = Legs(b)
  BY PlacedFields
<1> HIDE DEF p
<1>3. Ticket(p)
  BY <1>1, <1>2 DEF Ticket
<1> QED BY <1>1, <1>3 DEF p

\* The unit of a product over the legs is positive.
LEMMA UnitPositive ==
  ASSUME NEW b, Ticket(b), NEW u \in Nat, u > 0
  PROVE  ProductUnit(b, u) \in Nat /\ ProductUnit(b, u) > 0
<1> DEFINE f == [l \in Legs(b) |-> u]
<1>1. f \in [Legs(b) -> Nat] /\ \A l \in Legs(b) : f[l] > 0
  OBVIOUS
<1>2. IsFiniteSet(Legs(b))
  BY DEF Ticket
<1> HIDE DEF f
<1>3. Product(f) \in Nat /\ Product(f) > 0
  BY <1>1, <1>2, ProductIsNat
<1> QED BY <1>3 DEF ProductUnit, f

\* The factors of the legs.
Factors(b, legs) == [l \in Legs(b) |-> EffectiveFactor(b.odds[l], legs[l])]

\* They are natural numbers, and so is their product.
LEMMA FactorsTyped ==
  ASSUME NEW b, Ticket(b), NEW legs \in [Legs(b) -> LegGrades]
  PROVE  Factors(b, legs) \in [Legs(b) -> Nat] /\ Product(Factors(b, legs)) \in Nat
<1>1. \A l \in Legs(b) : b.odds[l] \in Nat /\ legs[l] \in LegGrades
  BY DEF Ticket
<1>2. Factors(b, legs) \in [Legs(b) -> Nat]
  BY <1>1, FactorShape DEF Factors
<1>3. IsFiniteSet(Legs(b))
  BY DEF Ticket
<1> QED BY <1>2, <1>3, ProductIsNat

\* The boost is never below 1, and 1 on a refund.
LEMMA BoostShape ==
  ASSUME NEW b, Ticket(b), NEW legs
  PROVE  /\ Boost(b, legs) \in Nat /\ Boost(b, legs) >= Q
         /\ AllVoid(legs) => Boost(b, legs) = Q
BY QuantumAssumption DEF Boost, Ticket

\* SinglePayout.
LEMMA SingleGood ==
  ASSUME NEW b, Ticket(b), NEW legs \in [Legs(b) -> LegGrades]
  PROVE  GoodOutcome(b, SinglePayout(b, legs))
<1> DEFINE l == CHOOSE x \in Legs(b) : TRUE
           e == EffectiveFactor(b.odds[l], legs[l])
           p == (b.stake * e) \div (4 * Q)
<1>1. l \in Legs(b)
  BY DEF Ticket
<1> HIDE DEF l
<1>2. b.odds[l] \in Nat /\ legs[l] \in LegGrades /\ b.stake \in Nat
  BY <1>1 DEF Ticket
<1>3. e \in Nat /\ (legs[l].result = "void" => e = 4 * Q)
  BY <1>2, FactorShape
<1> HIDE DEF e
<1>4. 4 * Q \in Nat /\ 4 * Q > 0
  BY QuantumAssumption
<1>5. p \in Nat
  <2>1. b.stake * e \in Nat
    BY <1>2, <1>3, NatTimes
  <2> QED BY <1>4, <2>1, DivBounds
<1>6. legs[l].result = "void" => p = b.stake
  BY <1>2, <1>3, <1>4, DivExact
<1> HIDE DEF p
<1>7. SinglePayout(b, legs) = [payout |-> p, type |-> IF legs[l].result = "void" THEN "bet_refund"
                                                      ELSE "bet_payout"]
  BY DEF SinglePayout, p, e, l
<1> QED BY <1>5, <1>6, <1>7 DEF GoodOutcome

\* A combo whose legs are all void multiplies to its unit.
LEMMA VoidProduct ==
  ASSUME NEW b, Ticket(b), NEW legs \in [Legs(b) -> LegGrades], AllVoid(legs)
  PROVE  Product(Factors(b, legs)) = ProductUnit(b, 4 * Q)
<1>1. \A l \in Legs(b) : EffectiveFactor(b.odds[l], legs[l]) = 4 * Q
  <2> TAKE l \in Legs(b)
  <2>1. b.odds[l] \in Nat /\ legs[l] \in LegGrades /\ legs[l].result = "void"
    BY DEF Ticket, AllVoid
  <2> QED BY <2>1, FactorShape
<1>2. Factors(b, legs) = [l \in Legs(b) |-> 4 * Q]
  BY <1>1 DEF Factors
<1> QED BY <1>2 DEF ProductUnit

\* The payout of a combo, by its parts.
LEMMA ComboParts ==
  ASSUME NEW b, Ticket(b), NEW legs \in [Legs(b) -> LegGrades]
  PROVE  LET F == Product(Factors(b, legs))
             U == ProductUnit(b, 4 * Q) IN
         /\ F \in Nat /\ U \in Nat /\ U > 0 /\ U * Q \in Nat /\ U * Q > 0
         /\ b.stake * F * Boost(b, legs) \in Nat
         /\ ComboPayout(b, legs)
              = [payout |-> (b.stake * F * Boost(b, legs)) \div (U * Q),
                 type   |-> IF AllVoid(legs) THEN "bet_refund" ELSE "bet_payout"]
<1> DEFINE F == Product(Factors(b, legs))
           U == ProductUnit(b, 4 * Q)
<1>1. Q \in Nat /\ Q > 0 /\ 4 * Q \in Nat /\ 4 * Q > 0
  BY QuantumAssumption
<1>2. F \in Nat /\ U \in Nat /\ U > 0
  BY <1>1, FactorsTyped, UnitPositive
<1>3. ComboPayout(b, legs)
        = [payout |-> (b.stake * F * Boost(b, legs)) \div (U * Q),
           type   |-> IF AllVoid(legs) THEN "bet_refund" ELSE "bet_payout"]
  BY DEF ComboPayout, Factors
<1> HIDE DEF F, U
<1>4. U * Q \in Nat /\ U * Q > 0
  BY <1>1, <1>2, NatTimes
<1>5. b.stake * F * Boost(b, legs) \in Nat
  <2>1. b.stake * F \in Nat
    BY <1>2, NatTimes DEF Ticket
  <2> QED BY <2>1, BoostShape, NatTimes
<1> QED BY <1>2, <1>3, <1>4, <1>5 DEF F, U

\* ComboPayout: an all-void ticket refunds the stake, whatever the boost.
LEMMA ComboGood ==
  ASSUME NEW b, Ticket(b), NEW legs \in [Legs(b) -> LegGrades]
  PROVE  GoodOutcome(b, ComboPayout(b, legs))
<1> DEFINE F == Product(Factors(b, legs))
           U == ProductUnit(b, 4 * Q)
           n == b.stake * F * Boost(b, legs)
           p == n \div (U * Q)
<1>1. /\ F \in Nat /\ U \in Nat /\ U > 0 /\ U * Q \in Nat /\ U * Q > 0 /\ n \in Nat
      /\ ComboPayout(b, legs)
           = [payout |-> p, type |-> IF AllVoid(legs) THEN "bet_refund" ELSE "bet_payout"]
  BY ComboParts
<1>2. p \in Nat
  <2> HIDE DEF n, U
  <2> QED BY <1>1, DivBounds
<1>3. ASSUME AllVoid(legs) PROVE p = b.stake
  <2>1. F = U /\ Boost(b, legs) = Q
    BY <1>3, VoidProduct, BoostShape
  <2>2. b.stake \in Nat /\ Q \in Nat
    BY QuantumAssumption DEF Ticket
  <2> HIDE DEF U, F
  <2>3. n = b.stake * (U * Q)
    BY <1>1, <2>1, <2>2
  <2> HIDE DEF n
  <2> QED BY <1>1, <2>2, <2>3, DivExact
<1> HIDE DEF p
<1> QED BY <1>1, <1>2, <1>3 DEF GoodOutcome

\* The number of winning legs.
LEMMA WinsTyped ==
  ASSUME NEW b, Ticket(b), NEW legs \in [Legs(b) -> LegGrades]
  PROVE  /\ Wins(legs) \in Nat /\ Wins(legs) <= Cardinality(Legs(b))
         /\ Wins(legs) = 0 <=> \A l \in Legs(b) : ~Winning(legs[l])
<1> DEFINE W == {l \in Legs(b) : Winning(legs[l])}
<1>1. DOMAIN legs = Legs(b)
  OBVIOUS
<1>2. Wins(legs) = Cardinality(W)
  BY <1>1 DEF Wins
<1>3. IsFiniteSet(Legs(b)) /\ W \in SUBSET Legs(b)
  BY DEF Ticket
<1> HIDE DEF W
<1>4. IsFiniteSet(W) /\ Cardinality(W) <= Cardinality(Legs(b)) /\ Cardinality(W) \in Nat
  BY <1>3, FS_Subset, FS_CardinalityType
<1>5. Cardinality(W) = 0 <=> W = {}
  BY <1>4, FS_EmptySet
<1> QED BY <1>2, <1>4, <1>5 DEF W

\* The tier a Tippot pays.
TierOf(b, legs) == IF Wins(legs) > Len(b.tiers) THEN Len(b.tiers) ELSE Wins(legs)

\* The tier exists once a leg wins.
LEMMA TierTyped ==
  ASSUME NEW b, Ticket(b), b.type = "tippot", NEW legs \in [Legs(b) -> LegGrades], Wins(legs) # 0
  PROVE  TierOf(b, legs) = Wins(legs) /\ TierOf(b, legs) \in DOMAIN b.tiers
         /\ b.tiers[TierOf(b, legs)] \in Nat
<1>1. b.tiers \in Seq(Nat) /\ Len(b.tiers) = Cardinality(Legs(b))
  BY DEF Ticket
<1>2. Wins(legs) \in Nat /\ Wins(legs) <= Len(b.tiers)
  BY <1>1, WinsTyped
<1>3. DOMAIN b.tiers = 1 .. Len(b.tiers) /\ Len(b.tiers) \in Nat
  BY <1>1
<1>4. TierOf(b, legs) = Wins(legs)
  BY <1>2, <1>3 DEF TierOf
<1>5. Wins(legs) \in DOMAIN b.tiers
  BY <1>2, <1>3
<1> QED BY <1>1, <1>4, <1>5

\* TippotPayout, BetBuilderPayout and TiplePayout.
LEMMA OthersGood ==
  ASSUME NEW b, Ticket(b), NEW legs \in [Legs(b) -> LegGrades], NEW potential \in Nat
  PROVE  /\ b.type = "tiple" => GoodOutcome(b, TiplePayout(b, potential, legs))
         /\ b.type = "tippot" => GoodOutcome(b, TippotPayout(b, legs))
         /\ b.type = "betbuilder" => GoodOutcome(b, BetBuilderPayout(b, legs))
<1>1. b.stake \in Nat /\ Q \in Nat /\ Q > 0
  BY QuantumAssumption DEF Ticket
<1>2. GoodOutcome(b, Refund(b)) /\ \A n \in Nat : GoodOutcome(b, Pay(n))
  BY <1>1 DEF GoodOutcome, Refund, Pay
<1>3. \A m \in Nat : (b.stake * m) \div Q \in Nat
  <2> TAKE m \in Nat
  <2>1. b.stake * m \in Nat
    BY <1>1, NatTimes
  <2> QED BY <1>1, <2>1, DivBounds
<1>4. GoodOutcome(b, TiplePayout(b, potential, legs))
  BY <1>2 DEF TiplePayout
<1>5. ASSUME b.type = "tippot" PROVE GoodOutcome(b, TippotPayout(b, legs))
  <2>1. Wins(legs) # 0 => GoodOutcome(b, Pay((b.stake * b.tiers[TierOf(b, legs)]) \div Q))
    BY <1>2, <1>3, <1>5, TierTyped
  <2>2. TippotPayout(b, legs)
          = IF AllVoid(legs) THEN Refund(b)
            ELSE IF Wins(legs) = 0 THEN Pay(0)
            ELSE Pay((b.stake * b.tiers[TierOf(b, legs)]) \div Q)
    BY DEF TippotPayout, TierOf
  <2>3. GoodOutcome(b, Pay(0))
    BY <1>2
  <2> QED BY <1>2, <2>1, <2>2, <2>3
<1>6. ASSUME b.type = "betbuilder" PROVE GoodOutcome(b, BetBuilderPayout(b, legs))
  <2>1. b.session \in Nat
    BY <1>6 DEF Ticket
  <2>2. GoodOutcome(b, Pay(0)) /\ GoodOutcome(b, Pay((b.stake * b.session) \div Q))
    BY <1>2, <1>3, <2>1
  <2> QED BY <1>2, <2>2 DEF BetBuilderPayout
<1> QED BY <1>4, <1>5, <1>6

-----------------------------------------------------------------------------
(* What placement promises *)

\* Math.round to the precision 1/Q: at most half a unit away.
LEMMA QuantiseBounds ==
  ASSUME NEW n \in Nat, NEW d \in Nat, d > 0
  PROVE  /\ Quantise(n, d) \in Nat
         /\ 2 * (d * Quantise(n, d)) <= 2 * (n * Q) + d
         /\ 2 * (n * Q) < 2 * (d * Quantise(n, d)) + d
<1>1. Q \in Nat
  BY QuantumAssumption
<1> DEFINE x == 2 * n * Q + d
           y == 2 * d
           q == x \div y
<1>2. n * Q \in Nat /\ 2 * n * Q = 2 * (n * Q)
  BY <1>1, NatTimes
<1>3. x \in Nat /\ x = 2 * (n * Q) + d /\ y \in Nat /\ y > 0
  BY <1>2
<1> HIDE DEF x
<1>4. q \in Nat /\ y * q <= x /\ x < y * q + y
  BY <1>3, DivBounds
<1>5. Quantise(n, d) = q
  BY DEF Quantise, x
<1> HIDE DEF q
<1>6. y * q = 2 * (d * q) /\ d * q \in Nat
  BY <1>4, NatTimes
<1> QED BY <1>2, <1>3, <1>4, <1>5, <1>6

\* A number of that precision is not rounded at all.
LEMMA QuantiseExact ==
  ASSUME NEW s \in Nat, NEW t \in Nat
  PROVE  MultiplyMicroByOdds(s, t, Q) = (s * t) \div Q
<1>1. Q \in Nat /\ Q > 0
  BY QuantumAssumption
<1> DEFINE q == Quantise(t, Q)
<1>2. q \in Nat /\ 2 * (Q * q) <= 2 * (t * Q) + Q /\ 2 * (t * Q) < 2 * (Q * q) + Q
  BY <1>1, QuantiseBounds
<1> HIDE DEF q
<1>3. /\ 2 * (Q * q) = Q * (2 * q) /\ 2 * (t * Q) = Q * (2 * t)
      /\ Q * (2 * t) + Q = Q * (2 * t + 1) /\ Q * (2 * q) + Q = Q * (2 * q + 1)
  BY <1>1, <1>2
<1>4. Q * (2 * q) <= Q * (2 * t + 1) /\ Q * (2 * t) < Q * (2 * q + 1)
  BY <1>2, <1>3
<1>5. 2 * q <= 2 * t + 1 /\ 2 * t < 2 * q + 1
  <2>1. 2 * q \in Int /\ 2 * t \in Int /\ 2 * q + 1 \in Int /\ 2 * t + 1 \in Int
    BY <1>2
  <2> QED BY <1>1, <1>4, <2>1, TimesCancel
<1>6. q = t
  BY <1>2, <1>5
<1> QED BY <1>6 DEF MultiplyMicroByOdds, q

\* MultiplyMicroByOdds gives a natural number of micro-units.
LEMMA MultiplyTyped ==
  ASSUME NEW s \in Nat, NEW n \in Nat, NEW d \in Nat, d > 0
  PROVE  MultiplyMicroByOdds(s, n, d) \in Nat
<1> DEFINE r == Quantise(n, d)
<1>1. r \in Nat
  BY QuantiseBounds
<1> HIDE DEF r
<1>2. s * r \in Nat /\ Q \in Nat /\ Q > 0
  BY <1>1, NatTimes, QuantumAssumption
<1>3. (s * r) \div Q \in Nat
  BY <1>2, DivBounds
<1> QED BY <1>3 DEF MultiplyMicroByOdds, r

\* The parts of the potential of a single or a combo.
LEMMA PotentialParts ==
  ASSUME NEW b, Ticket(b)
  PROVE  /\ b.odds \in [Legs(b) -> Nat] /\ Product(b.odds) \in Nat
         /\ Product(b.odds) * b.boost \in Nat
         /\ ProductUnit(b, Q) \in Nat /\ ProductUnit(b, Q) > 0
         /\ ProductUnit(b, Q) * Q \in Nat /\ ProductUnit(b, Q) * Q > 0
<1>1. b.odds \in [Legs(b) -> Nat] /\ IsFiniteSet(Legs(b)) /\ b.boost \in Nat
  BY DEF Ticket
<1>2. Product(b.odds) \in Nat
  BY <1>1, ProductIsNat
<1>3. Q \in Nat /\ Q > 0
  BY QuantumAssumption
<1>4. ProductUnit(b, Q) \in Nat /\ ProductUnit(b, Q) > 0
  BY <1>3, UnitPositive
<1> QED BY <1>1, <1>2, <1>3, <1>4, NatTimes

\* The top tier of a Tippot exists.
LEMMA TopTier ==
  ASSUME NEW b, Ticket(b), b.type = "tippot"
  PROVE  Len(b.tiers) \in DOMAIN b.tiers /\ b.tiers[Len(b.tiers)] \in Nat
<1>1. b.tiers \in Seq(Nat) /\ Len(b.tiers) = Cardinality(Legs(b)) /\ IsFiniteSet(Legs(b))
      /\ Legs(b) # {}
  BY DEF Ticket
<1>2. Cardinality(Legs(b)) \in Nat /\ Cardinality(Legs(b)) # 0
  BY <1>1, FS_CardinalityType, FS_EmptySet
<1>3. Len(b.tiers) \in 1 .. Len(b.tiers)
  BY <1>1, <1>2
<1> QED BY <1>1, <1>3

\* Every potential is a natural number of micro-units.
LEMMA PotentialTyped ==
  ASSUME NEW b, Ticket(b)
  PROVE  PlacementPotential(b) \in Nat
<1>1. b.stake \in Nat /\ Q \in Nat /\ Q > 0
  BY QuantumAssumption DEF Ticket
<1>2. b.type \in {"single", "combo", "tiple", "tippot", "betbuilder"}
  BY DEF Ticket
<1>3. CASE b.type \in {"single", "combo"}
  <2>1. ProductPotential(b) \in Nat
    BY <1>1, PotentialParts, MultiplyTyped DEF ProductPotential
  <2> QED BY <1>3, <2>1 DEF PlacementPotential
<1>4. CASE b.type \in {"tiple", "betbuilder"}
  <2>1. MultiplyMicroByOdds(b.stake, b.session, Q) \in Nat
    BY <1>1, <1>4, MultiplyTyped DEF Ticket
  <2> QED BY <1>4, <2>1 DEF PlacementPotential
<1>5. CASE b.type = "tippot"
  <2>1. MultiplyMicroByOdds(b.stake, b.tiers[Len(b.tiers)], Q) \in Nat
    BY <1>1, <1>5, TopTier, MultiplyTyped
  <2> QED BY <1>5, <2>1 DEF PlacementPotential
<1> QED BY <1>2, <1>3, <1>4, <1>5

\* What a ticket settles for, of every type.
LEMMA PayoutGood ==
  ASSUME NEW b, Ticket(b), NEW legs \in [Legs(b) -> LegGrades], NEW potential \in Nat
  PROVE  GoodOutcome(b, ComputePayoutOf(b, potential, legs))
<1>1. b.type \in {"single", "combo", "tiple", "tippot", "betbuilder"}
  BY DEF Ticket
<1>2. CASE b.type = "single"
  BY <1>2, SingleGood DEF ComputePayoutOf
<1>3. CASE b.type = "combo"
  BY <1>3, ComboGood DEF ComputePayoutOf
<1>4. CASE b.type = "tiple"
  BY <1>4, OthersGood DEF ComputePayoutOf
<1>5. CASE b.type = "tippot"
  BY <1>5, OthersGood DEF ComputePayoutOf
<1>6. CASE b.type = "betbuilder"
  BY <1>6, OthersGood DEF ComputePayoutOf
<1> QED BY <1>1, <1>2, <1>3, <1>4, <1>5, <1>6

-----------------------------------------------------------------------------
(* The ticket over time *)

\* The state that the feed re-grades: TypeOK without the outcome.
GradingInv == bet \in Bets /\ leg \in [Legs(bet) -> Gradings]

\* Every re-grade writes a grading.
LEMMA GradingInvariant == Spec => []GradingInv
<1>1. Init => GradingInv
  BY DEF Init, GradingInv
<1>2. GradingInv /\ [Next]_vars => GradingInv'
  <2> SUFFICES ASSUME GradingInv, [Next]_vars PROVE GradingInv'
    OBVIOUS
  <2>1. ASSUME NEW l \in Legs(bet), NEW r \in FeedResults, NEW vf \in VoidFactors,
               Regrade(l, r, vf)
        PROVE  GradingInv'
    <3>1. Graded(r, vf) \in Gradings
      BY DEF Gradings
    <3> QED BY <2>1, <3>1 DEF Regrade, GradingInv, Legs
  <2>2. CASE UNCHANGED vars
    BY <2>2 DEF vars, GradingInv, Legs
  <2> QED BY <2>1, <2>2 DEF Next
<1> QED BY <1>1, <1>2, PTL DEF Spec

\* The outcome of the ticket in any state.
LEMMA OutcomeGood ==
  ASSUME GradingInv
  PROVE  GoodOutcome(bet, Outcome(leg))
<1>0. leg \in [Legs(bet) -> LegGrades]
  BY GradingShape DEF GradingInv
<1> DEFINE p == Placed(bet)
<1>1. Ticket(bet) /\ Ticket(p)
  BY PlacedTicket DEF GradingInv
<1>2. p.stake = bet.stake /\ Legs(p) = Legs(bet)
  BY PlacedFields DEF GradingInv
<1>3. PlacementPotential(bet) \in Nat
  BY <1>1, PotentialTyped
<1>4. Outcome(leg) = ComputePayoutOf(p, PlacementPotential(bet), leg)
  BY DEF Outcome
<1> HIDE DEF p
<1>5. GoodOutcome(p, Outcome(leg))
  BY <1>0, <1>1, <1>2, <1>3, <1>4, PayoutGood
<1> QED BY <1>2, <1>5 DEF GoodOutcome

\* payout.go: whatever results and void factors the feed sends, and however
\* often it re-grades, every ticket settles for a natural number of
\* micro-units, booked as a payout or as a refund.
THEOREM PayoutTyped == Spec => []TypeOK
<1>1. GradingInv => TypeOK
  BY OutcomeGood DEF GradingInv, TypeOK, GoodOutcome
<1> QED BY <1>1, GradingInvariant, PTL

\* A credit booked as bet_refund is the stake to the micro-unit, for every
\* ticket of every type: the boost and the rounding never touch a refund.
THEOREM RefundsAreStakes == Spec => []RefundIsStake
<1>1. GradingInv => RefundIsStake
  BY OutcomeGood DEF RefundIsStake, GoodOutcome
<1> QED BY <1>1, GradingInvariant, PTL

-----------------------------------------------------------------------------
(* A winning ticket pays the promise *)

Slack(s) == s \div (2 * Q) + 1
Within(x, y, e) == - e <= x - y /\ x - y <= e

\* Rounding n / d to the precision 1/Q before multiplying by the stake moves
\* the truncated payout by no more than the slack.
LEMMA RoundingSlack ==
  ASSUME NEW s \in Nat, NEW n \in Nat, NEW d \in Nat, d > 0
  PROVE  Within((s * n) \div d, MultiplyMicroByOdds(s, n, d), Slack(s))
<1> DEFINE r == Quantise(n, d)
           w == (s * n) \div d
           p == (s * r) \div Q
           m == s \div (2 * Q)
<1>1. Q \in Nat /\ Q > 0 /\ 2 * Q \in Nat /\ 2 * Q > 0
  BY QuantumAssumption
<1>2. r \in Nat /\ 2 * (d * r) <= 2 * (n * Q) + d /\ 2 * (n * Q) < 2 * (d * r) + d
  BY QuantiseBounds
<1> HIDE DEF r
<1>3. w \in Nat /\ d * w <= s * n /\ s * n < d * w + d
  <2>1. s * n \in Nat
    BY NatTimes
  <2> QED BY <2>1, DivBounds
<1>4. p \in Nat /\ Q * p <= s * r /\ s * r < Q * p + Q
  <2>1. s * r \in Nat
    BY <1>2, NatTimes
  <2> QED BY <1>1, <2>1, DivBounds
<1>5. m \in Nat /\ (2 * Q) * m <= s /\ s < (2 * Q) * m + 2 * Q
  BY <1>1, DivBounds
<1> HIDE DEF w, p, m
<1>6. d * r \in Nat /\ n * Q \in Nat /\ s * n \in Nat /\ s * r \in Nat /\ d * w \in Nat /\ Q * p \in Nat
      /\ (2 * Q) * m \in Nat /\ (2 * Q) * w \in Nat /\ (2 * Q) * p \in Nat /\ s * d \in Nat
  BY <1>1, <1>2, <1>3, <1>4, <1>5, NatTimes
<1>7. w < p + m + 2
  <2>1. (2 * Q) * (d * w) <= (2 * Q) * (s * n)
    BY <1>1, <1>3, <1>6, TimesMono
  <2>2. s * (2 * (n * Q)) <= s * (2 * (d * r) + d)
    <3>1. 2 * (n * Q) \in Nat /\ 2 * (d * r) + d \in Nat /\ 2 * (n * Q) <= 2 * (d * r) + d
      BY <1>2, <1>6
    <3> QED BY <3>1, TimesMono
  <2>3. /\ (2 * Q) * (s * n) = s * (2 * (n * Q))
        /\ s * (2 * (d * r) + d) = d * (2 * (s * r) + s)
        /\ (2 * Q) * (d * w) = d * ((2 * Q) * w)
    BY <1>1, <1>2, <1>3
  <2>4. d * ((2 * Q) * w) <= d * (2 * (s * r) + s)
    <3>1. (2 * Q) * (s * n) \in Nat /\ (2 * Q) * (d * w) \in Nat
      BY <1>1, <1>6, NatTimes
    <3>2. 2 * (s * r) + s \in Nat
      BY <1>6
    <3>3. d * (2 * (s * r) + s) \in Nat
      BY <3>2, NatTimes
    <3> QED BY <2>1, <2>2, <2>3, <3>1, <3>3
  <2>5. (2 * Q) * w <= 2 * (s * r) + s
    <3>1. (2 * Q) * w \in Int /\ 2 * (s * r) + s \in Int
      BY <1>6
    <3> QED BY <2>4, <3>1, TimesCancel
  <2>6. 2 * (s * r) + s < (2 * Q) * p + 2 * Q + ((2 * Q) * m + 2 * Q)
    <3>1. 2 * (Q * p) = (2 * Q) * p
      BY <1>1, <1>4
    <3> QED BY <1>1, <1>4, <1>5, <1>6, <3>1
  <2>7. (2 * Q) * p + 2 * Q + ((2 * Q) * m + 2 * Q) = (2 * Q) * (p + m + 2)
    BY <1>1, <1>4, <1>5
  <2>8. (2 * Q) * w < (2 * Q) * (p + m + 2)
    <3>1. (2 * Q) * (p + m + 2) \in Int
      BY <1>1, <1>4, <1>5
    <3> QED BY <1>6, <2>5, <2>6, <2>7, <3>1
  <2>9. w \in Int /\ p + m + 2 \in Int
    BY <1>3, <1>4, <1>5
  <2> QED BY <1>1, <2>8, <2>9, TimesCancel
<1>8. p < w + m + 2
  <2>1. s * (2 * (d * r)) <= s * (2 * (n * Q) + d)
    <3>1. 2 * (d * r) \in Nat /\ 2 * (n * Q) + d \in Nat
      BY <1>6
    <3> QED BY <1>2, <3>1, TimesMono
  <2>2. (2 * Q) * (s * n) < (2 * Q) * (d * w + d)
    <3>1. s * n \in Int /\ d * w + d \in Int
      BY <1>6
    <3> QED BY <1>1, <1>3, <3>1, TimesCancel
  <2>3. /\ s * (2 * (n * Q) + d) = (2 * Q) * (s * n) + s * d
        /\ (2 * Q) * (d * w + d) + s * d = d * ((2 * Q) * w + 2 * Q + s)
        /\ s * (2 * (d * r)) = d * (2 * (s * r))
    BY <1>1, <1>2, <1>3
  <2>4. d * (2 * (s * r)) < d * ((2 * Q) * w + 2 * Q + s)
    <3>1. (2 * Q) * (s * n) \in Nat /\ (2 * Q) * (d * w + d) \in Nat
      <4>1. d * w + d \in Nat
        BY <1>6
      <4> QED BY <1>1, <1>6, <4>1, NatTimes
    <3>2. s * (2 * (d * r)) \in Nat
      <4>1. 2 * (d * r) \in Nat
        BY <1>6
      <4> QED BY <4>1, NatTimes
    <3> QED BY <1>6, <2>1, <2>2, <2>3, <3>1, <3>2
  <2>5. 2 * (s * r) < (2 * Q) * w + 2 * Q + s
    <3>1. 2 * (s * r) \in Int /\ (2 * Q) * w + 2 * Q + s \in Int
      BY <1>1, <1>6
    <3> QED BY <2>4, <3>1, TimesCancel
  <2>6. (2 * Q) * p < (2 * Q) * w + 2 * Q + ((2 * Q) * m + 2 * Q)
    <3>1. 2 * (Q * p) = (2 * Q) * p
      BY <1>1, <1>4
    <3> QED BY <1>1, <1>4, <1>5, <1>6, <2>5, <3>1
  <2>7. (2 * Q) * w + 2 * Q + ((2 * Q) * m + 2 * Q) = (2 * Q) * (w + m + 2)
    BY <1>1, <1>3, <1>5
  <2>8. (2 * Q) * p < (2 * Q) * (w + m + 2)
    BY <2>6, <2>7
  <2>9. p \in Int /\ w + m + 2 \in Int
    BY <1>3, <1>4, <1>5
  <2> QED BY <1>1, <2>8, <2>9, TimesCancel
<1>9. Within(w, p, m + 1)
  BY <1>3, <1>4, <1>5, <1>7, <1>8 DEF Within
<1> QED BY <1>9 DEF MultiplyMicroByOdds, Slack, w, p, m, r

AllWon(b, legs) == \A l \in Legs(b) : legs[l] = Graded("1", 0)

\* Legs won in full are winning ones, none of them lost or void.
LEMMA AllWonShape ==
  ASSUME NEW b, Ticket(b), NEW legs \in [Legs(b) -> LegGrades], AllWon(b, legs)
  PROVE  /\ ~AllVoid(legs) /\ Wins(legs) = Cardinality(Legs(b)) /\ Wins(legs) # 0
         /\ \A l \in Legs(b) : legs[l].result = "won"
<1>1. \A l \in Legs(b) : legs[l].result = "won"
  BY WonFactor DEF AllWon
<1>2. DOMAIN legs = Legs(b) /\ Legs(b) # {} /\ IsFiniteSet(Legs(b))
  BY DEF Ticket
<1>3. {l \in DOMAIN legs : Winning(legs[l])} = Legs(b)
  BY <1>1, <1>2 DEF Winning
<1>4. Wins(legs) = Cardinality(Legs(b))
  BY <1>3 DEF Wins
<1>5. Cardinality(Legs(b)) # 0
  BY <1>2, FS_EmptySet
<1> QED BY <1>1, <1>2, <1>4, <1>5 DEF AllVoid

\* A won combo pays stake times the exact product of its odds and its boost.
LEMMA ComboWin ==
  ASSUME NEW b, Ticket(b), b.boost >= Q, NEW legs \in [Legs(b) -> LegGrades], AllWon(b, legs)
  PROVE  ComboPayout(b, legs).payout
           = (b.stake * (Product(b.odds) * b.boost)) \div (ProductUnit(b, Q) * Q)
<1> DEFINE S == Legs(b)
           F == Product(Factors(b, legs))
           U == ProductUnit(b, 4 * Q)
           P4 == ProductUnit(b, 4)
           PQ == ProductUnit(b, Q)
           PO == Product(b.odds)
<1>1. Q \in Nat /\ Q > 0 /\ IsFiniteSet(S) /\ b.odds \in [S -> Nat] /\ b.stake \in Nat /\ b.boost \in Nat
  BY QuantumAssumption DEF Ticket
<1>2. P4 \in Nat /\ P4 > 0 /\ PQ \in Nat /\ PQ > 0 /\ PO \in Nat
  BY <1>1, UnitPositive, PotentialParts
<1>3. F = P4 * PO
  <2> DEFINE four == [l \in S |-> 4]
             k == Factors(b, legs)
  <2>1. \A l \in S : k[l] = four[l] * b.odds[l]
    <3> TAKE l \in S
    <3>1. b.odds[l] \in Nat /\ legs[l] = Graded("1", 0)
      BY <1>1 DEF AllWon
    <3>2. k[l] = EffectiveFactor(b.odds[l], legs[l])
      BY DEF Factors
    <3> QED BY <3>1, <3>2, WonFactor
  <2>2. four \in [S -> Nat] /\ k \in [S -> Nat]
    BY FactorsTyped
  <2>3. P4 = Product(four)
    BY DEF ProductUnit
  <2> HIDE DEF four, k, S
  <2>4. Product(k) = Product(four) * Product(b.odds)
    BY <1>1, <2>1, <2>2, ProductTimes
  <2> QED BY <2>3, <2>4 DEF k
<1>4. U = P4 * PQ
  <2> DEFINE four == [l \in S |-> 4]
             q == [l \in S |-> Q]
             k == [l \in S |-> 4 * Q]
  <2>1. \A l \in S : k[l] = four[l] * q[l]
    OBVIOUS
  <2>2. four \in [S -> Nat] /\ q \in [S -> Nat] /\ k \in [S -> Nat]
    BY <1>1
  <2>3. P4 = Product(four) /\ PQ = Product(q) /\ U = Product(k)
    BY DEF ProductUnit
  <2> HIDE DEF four, q, k, S, P4, PQ, U
  <2>4. Product(k) = Product(four) * Product(q)
    BY <1>1, <2>1, <2>2, ProductTimes
  <2> QED BY <2>3, <2>4
<1>5. Boost(b, legs) = b.boost
  <2>1. ~AllVoid(legs) /\ ~(b.boost < Q)
    BY <1>1, AllWonShape
  <2> QED BY <2>1 DEF Boost
<1>6. ComboPayout(b, legs).payout = (b.stake * F * b.boost) \div (U * Q)
  BY <1>5, ComboParts
<1> HIDE DEF F, U, P4, PQ, PO
<1>7. /\ b.stake * F * b.boost = P4 * (b.stake * (PO * b.boost))
      /\ U * Q = P4 * (PQ * Q)
  BY <1>1, <1>2, <1>3, <1>4
<1>8. b.stake * (PO * b.boost) \in Nat /\ PQ * Q \in Nat /\ PQ * Q > 0
  <2>1. PO * b.boost \in Nat
    BY <1>1, <1>2, NatTimes
  <2> QED BY <1>1, <1>2, <2>1, NatTimes
<1>9. (P4 * (b.stake * (PO * b.boost))) \div (P4 * (PQ * Q)) = (b.stake * (PO * b.boost)) \div (PQ * Q)
  <2> DEFINE x == b.stake * (PO * b.boost)
             y == PQ * Q
  <2> HIDE DEF x, y
  <2>1. x \in Nat /\ y \in Nat /\ y > 0
    BY <1>8 DEF x, y
  <2>2. (P4 * x) \div (P4 * y) = x \div y
    BY <1>2, <2>1, DivCancel
  <2> QED BY <2>2 DEF x, y
<1> QED BY <1>6, <1>7, <1>9 DEF PO, PQ

\* So does a won single, whose boost is 1.
LEMMA SingleWin ==
  ASSUME NEW b, Ticket(b), b.type = "single", b.boost = Q,
         NEW legs \in [Legs(b) -> LegGrades], AllWon(b, legs)
  PROVE  SinglePayout(b, legs).payout
           = (b.stake * (Product(b.odds) * b.boost)) \div (ProductUnit(b, Q) * Q)
<1>1. PICK l \in Legs(b) : Legs(b) = {l}
  BY DEF Ticket
<1>2. (CHOOSE x \in Legs(b) : TRUE) = l
  BY <1>1
<1> DEFINE o == b.odds[l]
<1>3. Q \in Nat /\ Q > 0 /\ o \in Nat /\ b.stake \in Nat
  BY QuantumAssumption DEF Ticket
<1>4. EffectiveFactor(o, legs[l]) = 4 * o
  BY <1>3, WonFactor DEF AllWon
<1>5. Product(b.odds) = o
  <2>1. b.odds \in [{l} -> Nat]
    BY <1>1, PotentialParts
  <2> QED BY <2>1, ProductOne
<1>6. ProductUnit(b, Q) = Q
  <2> DEFINE f == [x \in {l} |-> Q]
  <2>1. f \in [{l} -> Nat] /\ f[l] = Q
    BY <1>3
  <2>2. ProductUnit(b, Q) = Product(f)
    BY <1>1 DEF ProductUnit
  <2> HIDE DEF f
  <2> QED BY <2>1, <2>2, ProductOne
<1>7. SinglePayout(b, legs).payout = (b.stake * (4 * o)) \div (4 * Q)
  BY <1>2, <1>4 DEF SinglePayout
<1> HIDE DEF o
<1>8. b.stake * o \in Nat
  BY <1>3, NatTimes
<1> DEFINE x == b.stake * o
<1>9. b.stake * (4 * o) = 4 * x /\ b.stake * (o * Q) = Q * x
  BY <1>3
<1> HIDE DEF x
<1>10. (4 * x) \div (4 * Q) = x \div Q /\ (Q * x) \div (Q * Q) = x \div Q
  BY <1>3, <1>8, DivCancel DEF x
<1> QED BY <1>5, <1>6, <1>7, <1>9, <1>10

\* A won ticket of any type is within the slack of its potential.
LEMMA WinWithin ==
  ASSUME NEW b, Ticket(b), b.boost >= Q, b.type = "single" => b.boost = Q,
         NEW legs \in [Legs(b) -> LegGrades], AllWon(b, legs)
  PROVE  Within(ComputePayoutOf(b, PlacementPotential(b), legs).payout, PlacementPotential(b),
                Slack(b.stake))
<1>1. b.stake \in Nat /\ Q \in Nat /\ Q > 0
  BY QuantumAssumption DEF Ticket
<1>2. b.type \in {"single", "combo", "tiple", "tippot", "betbuilder"}
  BY DEF Ticket
<1>3. Slack(b.stake) \in Nat
  <2>1. 2 * Q \in Nat /\ 2 * Q > 0
    BY <1>1
  <2> QED BY <1>1, <2>1, DivBounds DEF Slack
<1>4. ASSUME NEW x \in Nat PROVE Within(x, x, Slack(b.stake))
  <2> DEFINE e == Slack(b.stake)
  <2> HIDE DEF e
  <2>1. e \in Nat
    BY <1>3 DEF e
  <2>2. Within(x, x, e)
    BY <1>4, <2>1 DEF Within
  <2> QED BY <2>2 DEF e
<1>5. PlacementPotential(b) \in Nat
  BY PotentialTyped
<1> DEFINE n == Product(b.odds) * b.boost
           d == ProductUnit(b, Q) * Q
<1>6. Within((b.stake * n) \div d, ProductPotential(b), Slack(b.stake))
  <2>1. n \in Nat /\ d \in Nat /\ d > 0
    BY PotentialParts
  <2>2. ProductPotential(b) = MultiplyMicroByOdds(b.stake, n, d)
    BY DEF ProductPotential
  <2> HIDE DEF n, d
  <2> QED BY <1>1, <2>1, <2>2, RoundingSlack
<1>7. CASE b.type = "single"
  <2>1. ComputePayoutOf(b, PlacementPotential(b), legs) = SinglePayout(b, legs)
    BY <1>7 DEF ComputePayoutOf
  <2>2. PlacementPotential(b) = ProductPotential(b)
    BY <1>7 DEF PlacementPotential
  <2>3. SinglePayout(b, legs).payout = (b.stake * n) \div d
    BY <1>7, SingleWin
  <2> QED BY <1>6, <2>1, <2>2, <2>3
<1>8. CASE b.type = "combo"
  <2>1. ComputePayoutOf(b, PlacementPotential(b), legs) = ComboPayout(b, legs)
    BY <1>8 DEF ComputePayoutOf
  <2>2. PlacementPotential(b) = ProductPotential(b)
    BY <1>8 DEF PlacementPotential
  <2>3. ComboPayout(b, legs).payout = (b.stake * n) \div d
    BY ComboWin
  <2> QED BY <1>6, <2>1, <2>2, <2>3
<1>9. CASE b.type = "tiple"
  <2>1. Wins(legs) > 0
    BY AllWonShape, WinsTyped
  <2>2. ComputePayoutOf(b, PlacementPotential(b), legs).payout = PlacementPotential(b)
    BY <1>9, <2>1 DEF ComputePayoutOf, TiplePayout, Pay
  <2> QED BY <1>4, <1>5, <2>2
<1>10. CASE b.type = "tippot"
  <2>1. Wins(legs) = Len(b.tiers) /\ Wins(legs) # 0 /\ ~AllVoid(legs)
    BY <1>10, AllWonShape DEF Ticket
  <2>2. TippotPayout(b, legs).payout = (b.stake * b.tiers[Len(b.tiers)]) \div Q
    BY <2>1 DEF TippotPayout, Pay
  <2>3. PlacementPotential(b) = (b.stake * b.tiers[Len(b.tiers)]) \div Q
    BY <1>1, <1>10, TopTier, QuantiseExact DEF PlacementPotential
  <2>4. ComputePayoutOf(b, PlacementPotential(b), legs) = TippotPayout(b, legs)
    BY <1>10 DEF ComputePayoutOf
  <2> QED BY <1>4, <1>5, <2>2, <2>3, <2>4
<1>11. CASE b.type = "betbuilder"
  <2>1. \A l \in Legs(b) : legs[l].result = "won"
    BY AllWonShape
  <2>2. BetBuilderPayout(b, legs).payout = (b.stake * b.session) \div Q
    BY <2>1 DEF BetBuilderPayout, Pay
  <2>3. PlacementPotential(b) = (b.stake * b.session) \div Q
    BY <1>1, <1>11, QuantiseExact DEF PlacementPotential, Ticket
  <2>4. ComputePayoutOf(b, PlacementPotential(b), legs) = BetBuilderPayout(b, legs)
    BY <1>11 DEF ComputePayoutOf
  <2> QED BY <1>4, <1>5, <2>2, <2>3, <2>4
<1> QED BY <1>2, <1>7, <1>8, <1>9, <1>10, <1>11

\* Truncating n / d at 1/k before multiplying by the stake never raises the
\* truncated payout, and lowers it by no more than stake / k + 1.
LEMMA TruncationSlack ==
  ASSUME NEW s \in Nat, NEW n \in Nat, NEW d \in Nat, d > 0, NEW k \in Nat, k > 0
  PROVE  LET w == (s * n) \div d
             p == (s * ((n * k) \div d)) \div k
         IN  0 <= w - p /\ w - p <= s \div k + 1
<1> DEFINE x == (n * k) \div d
           w == (s * n) \div d
           p == (s * x) \div k
           m == s \div k
<1>1. x \in Nat /\ d * x <= n * k /\ n * k < d * x + d
  <2>1. n * k \in Nat
    BY NatTimes
  <2> QED BY <2>1, DivBounds
<1> HIDE DEF x
<1>2. w \in Nat /\ d * w <= s * n /\ s * n < d * w + d
  <2>1. s * n \in Nat
    BY NatTimes
  <2> QED BY <2>1, DivBounds
<1>3. p \in Nat /\ k * p <= s * x /\ s * x < k * p + k
  <2>1. s * x \in Nat
    BY <1>1, NatTimes
  <2> QED BY <2>1, DivBounds
<1>4. m \in Nat /\ k * m <= s /\ s < k * m + k
  BY DivBounds
<1> HIDE DEF w, p, m
<1>5. n * k \in Nat /\ d * x \in Nat /\ s * n \in Nat /\ d * w \in Nat /\ s * x \in Nat /\ k * p \in Nat
      /\ k * m \in Nat /\ k * w \in Nat /\ d * p \in Nat
  BY <1>1, <1>2, <1>3, <1>4, NatTimes
<1>6. p < w + 1
  <2>1. d * (k * p) <= d * (s * x)
    BY <1>3, <1>5, TimesMono
  <2>2. s * (d * x) <= s * (n * k)
    BY <1>1, <1>5, TimesMono
  <2>3. d * (s * x) = s * (d * x) /\ s * (n * k) = k * (s * n) /\ d * (k * p) = k * (d * p)
    BY <1>1, <1>3
  <2>4. k * (d * p) <= k * (s * n)
    <3>1. k * (d * p) \in Nat /\ k * (s * n) \in Nat /\ s * (d * x) \in Nat
      BY <1>5, NatTimes
    <3> QED BY <2>1, <2>2, <2>3, <3>1
  <2>5. d * p <= s * n
    <3>1. d * p \in Int /\ s * n \in Int
      BY <1>5
    <3> QED BY <2>4, <3>1, TimesCancel
  <2>6. d * (w + 1) = d * w + d
    BY <1>2
  <2>7. d * p < d * (w + 1)
    BY <1>2, <1>5, <2>5, <2>6
  <2>8. p \in Int /\ w + 1 \in Int
    BY <1>2, <1>3
  <2> QED BY <2>7, <2>8, TimesCancel
<1>7. w < p + m + 2
  <2>1. k * (d * w) <= k * (s * n)
    BY <1>2, <1>5, TimesMono
  <2>2. s * (n * k) <= s * (d * x + d)
    <3>1. d * x + d \in Nat /\ n * k <= d * x + d
      BY <1>1, <1>5
    <3> QED BY <1>5, <3>1, TimesMono
  <2>3. k * (d * w) = d * (k * w) /\ s * (n * k) = k * (s * n) /\ s * (d * x + d) = d * (s * x + s)
    BY <1>1, <1>2
  <2>4. d * (k * w) <= d * (s * x + s)
    <3>1. s * x + s \in Nat
      BY <1>5
    <3>2. d * (k * w) \in Nat /\ k * (s * n) \in Nat /\ d * (s * x + s) \in Nat
      BY <1>5, <3>1, NatTimes
    <3> QED BY <2>1, <2>2, <2>3, <3>2
  <2>5. k * w <= s * x + s
    <3>1. k * w \in Int /\ s * x + s \in Int
      BY <1>5
    <3> QED BY <2>4, <3>1, TimesCancel
  <2>6. k * w < (k * p + k) + (k * m + k)
    BY <1>3, <1>4, <1>5, <2>5
  <2>7. (k * p + k) + (k * m + k) = k * (p + m + 2)
    BY <1>3, <1>4
  <2>8. w \in Int /\ p + m + 2 \in Int
    BY <1>2, <1>3, <1>4
  <2> QED BY <2>6, <2>7, <2>8, TimesCancel
<1>8. 0 <= w - p /\ w - p <= m + 1
  BY <1>2, <1>3, <1>4, <1>6, <1>7
<1> QED BY <1>8 DEF w, p, m, x

\* The re-price of the bet-delay worker.
LEMMA RepriceShape ==
  ASSUME NEW b, Ticket(b)
  PROVE  LET n == Product(b.odds) * b.boost
             d == ProductUnit(b, Q) * Q
         IN  /\ RepricePotential(b) = (b.stake * ((n * (Q * Q)) \div d)) \div (Q * Q)
             /\ RepricePotential(b) \in Nat
<1> DEFINE n == Product(b.odds) * b.boost
           d == ProductUnit(b, Q) * Q
           x == (n * (Q * Q)) \div d
<1>1. Q \in Nat /\ Q > 0 /\ b.stake \in Nat
  BY QuantumAssumption DEF Ticket
<1>2. n \in Nat /\ d \in Nat /\ d > 0
  BY PotentialParts
<1>3. RepricePotential(b) = (b.stake * ((n * Q * Q) \div d)) \div (Q * Q)
  BY DEF RepricePotential
<1> HIDE DEF n, d
<1>4. n * Q * Q = n * (Q * Q) /\ Q * Q \in Nat /\ Q * Q > 0 /\ n * (Q * Q) \in Nat
  <2>1. Q * Q \in Nat /\ Q * Q > 0
    BY <1>1, NatTimes
  <2> QED BY <1>1, <1>2, <2>1, NatTimes
<1>5. x \in Nat
  BY <1>2, <1>4, DivBounds
<1> HIDE DEF x
<1>6. b.stake * x \in Nat
  BY <1>1, <1>5, NatTimes
<1>7. (b.stake * x) \div (Q * Q) \in Nat
  BY <1>4, <1>6, DivBounds
<1> QED BY <1>3, <1>4, <1>7 DEF n, d, x

\* A won single or combo pays what the re-price promised, and hardly more.
LEMMA RepriceWithin ==
  ASSUME NEW b, Ticket(b), b.boost >= Q, b.type = "single" => b.boost = Q,
         b.type \in {"single", "combo"}, NEW potential,
         NEW legs \in [Legs(b) -> LegGrades], AllWon(b, legs)
  PROVE  LET short == ComputePayoutOf(b, potential, legs).payout - RepricePotential(b)
         IN  0 <= short /\ short <= b.stake \div (Q * Q) + 1
<1> DEFINE n == Product(b.odds) * b.boost
           d == ProductUnit(b, Q) * Q
           k == Q * Q
<1>1. n \in Nat /\ d \in Nat /\ d > 0 /\ b.stake \in Nat
  BY PotentialParts DEF Ticket
<1>2. k \in Nat /\ k > 0
  BY NatTimes, QuantumAssumption
<1>3. RepricePotential(b) = (b.stake * ((n * k) \div d)) \div k
  BY RepriceShape
<1>4. ComputePayoutOf(b, potential, legs).payout = (b.stake * n) \div d
  <2>1. CASE b.type = "single"
    <3>1. ComputePayoutOf(b, potential, legs) = SinglePayout(b, legs)
      BY <2>1 DEF ComputePayoutOf
    <3> QED BY <2>1, <3>1, SingleWin
  <2>2. CASE b.type = "combo"
    <3>1. ComputePayoutOf(b, potential, legs) = ComboPayout(b, legs)
      BY <2>2 DEF ComputePayoutOf
    <3> QED BY <3>1, ComboWin
  <2> QED BY <2>1, <2>2
<1> HIDE DEF n, d, k
<1>5. LET w == (b.stake * n) \div d
          p == (b.stake * ((n * k) \div d)) \div k
      IN  0 <= w - p /\ w - p <= b.stake \div k + 1
  BY <1>1, <1>2, TruncationSlack
<1> QED BY <1>3, <1>4, <1>5 DEF k

\* toFixed(2) keeps a multiplier of 1 and takes none below it.
LEMMA FrozenBoost ==
  ASSUME NEW m \in Nat, m >= Q
  PROVE  FreezeBoost(m) >= Q /\ FreezeBoost(Q) = Q
<1> DEFINE u == BoostUnit
           j == Q \div u
           y == 2 * u
           f(x) == (2 * x + u) \div y
<1>1. Q \in Nat /\ u \in Nat /\ u > 0 /\ Q % u = 0
  BY QuantumAssumption, GradingAssumption
<1>2. j \in Nat /\ Q = u * j
  <2>1. j \in Nat
    BY <1>1, DivBounds
  <2>2. Q = u * j + (Q % u)
    BY <1>1
  <2>3. u * j \in Nat
    BY <1>1, <2>1, NatTimes
  <2> HIDE DEF j
  <2> QED BY <1>1, <2>1, <2>2, <2>3
<1> HIDE DEF j, u
<1>3. y \in Nat /\ y > 0 /\ 2 * Q + u \in Nat /\ 2 * m + u \in Nat
  BY <1>1
<1>4. f(Q) = j
  <2>1. y * j = 2 * Q
    BY <1>1, <1>2
  <2>2. y * j <= 2 * Q + u /\ 2 * Q + u < y * j + y
    BY <1>1, <2>1
  <2> HIDE DEF y
  <2> QED BY <1>2, <1>3, <2>2, DivUnique
<1>5. f(m) \in Nat /\ j <= f(m)
  <2>1. 2 * Q + u <= 2 * m + u
    BY <1>1
  <2> HIDE DEF y
  <2>2. f(m) \in Nat
    BY <1>3, DivBounds
  <2>3. (2 * Q + u) \div y <= (2 * m + u) \div y
    BY <1>3, <2>1, DivMono
  <2> QED BY <1>4, <2>2, <2>3
<1>6. FreezeBoost(m) = f(m) * u /\ FreezeBoost(Q) = f(Q) * u
  BY DEF FreezeBoost, u
<1> HIDE DEF f
<1>7. j * u <= f(m) * u /\ j * u = Q
  BY <1>1, <1>2, <1>5, TimesMono
<1>8. f(m) * u \in Nat
  BY <1>1, <1>5, NatTimes
<1> QED BY <1>1, <1>4, <1>6, <1>7, <1>8

\* A ticket all of whose legs win pays what it was promised, for every ticket
\* of every type and any number of legs: within stake / 2Q + 1 micro-units of
\* the potential frozen at placement, and never less than the re-price of the
\* bet-delay worker nor more than stake / Q^2 + 1 above it.
THEOREM WinsPayPromise == Spec => []WinPaysPotential
<1>1. ASSUME GradingInv PROVE WinPaysPotential
  <2> DEFINE p == Placed(bet)
             short == Outcome(leg).payout - RepricePotential(p)
  <2> SUFFICES ASSUME \A l \in Legs(bet) : leg[l] = Graded("1", 0)
               PROVE  /\ p = bet => Within(Outcome(leg).payout, PlacementPotential(bet),
                                           Slack(bet.stake))
                      /\ bet.type \in {"single", "combo"} =>
                           0 <= short /\ short <= bet.stake \div (Q * Q) + 1
    BY DEF WinPaysPotential, Within, Slack
  <2>1. bet \in Bets /\ leg \in [Legs(bet) -> LegGrades] /\ AllWon(bet, leg)
    BY <1>1, GradingShape DEF AllWon, GradingInv
  <2>2. /\ Ticket(bet) /\ Ticket(p) /\ bet.boost \in Nat /\ bet.boost >= Q
        /\ bet.type = "single" => bet.boost = Q
    BY <2>1, PlacedTicket, GradingAssumption
  <2>3. Outcome(leg) = ComputePayoutOf(p, PlacementPotential(bet), leg)
    BY DEF Outcome
  <2>4. p = bet => Within(Outcome(leg).payout, PlacementPotential(bet), Slack(bet.stake))
    <3> HIDE DEF p
    <3> QED BY <2>1, <2>2, <2>3, WinWithin
  <2>5. ASSUME bet.type \in {"single", "combo"}
        PROVE  0 <= short /\ short <= bet.stake \div (Q * Q) + 1
    <3>1. /\ p.type = bet.type /\ p.stake = bet.stake /\ Legs(p) = Legs(bet)
          /\ p.boost = FreezeBoost(bet.boost)
      BY <2>1, PlacedFields
    <3>2. p.boost >= Q /\ (p.type = "single" => p.boost = Q)
      BY <2>2, <3>1, FrozenBoost
    <3> HIDE DEF p
    <3>3. leg \in [Legs(p) -> LegGrades] /\ AllWon(p, leg) /\ p.type \in {"single", "combo"}
      BY <2>1, <2>5, <3>1 DEF AllWon
    <3>4. LET gap == ComputePayoutOf(p, PlacementPotential(bet), leg).payout - RepricePotential(p)
          IN  0 <= gap /\ gap <= p.stake \div (Q * Q) + 1
      BY <2>2, <3>2, <3>3, RepriceWithin
    <3> QED BY <2>3, <3>1, <3>4
  <2> QED BY <2>4, <2>5
<1> QED BY <1>1, GradingInvariant, PTL

\* What Settlement assumes of the payout functions (PayoutAssumption) holds of
\* the ones in the code: for every ticket, every resolved leg and whatever
\* potential is stored, they give natural numbers and one of the two credit
\* types, and so do the promises of placement and of the re-price.
THEOREM PayoutsMeetAssumption ==
  ASSUME NEW b, Ticket(b), NEW legs \in [Legs(b) -> LegGrades], NEW potential \in Nat
  PROVE  /\ PlacementPotential(b) \in Nat /\ RepricePotential(b) \in Nat
         /\ ComputePayoutOf(b, potential, legs)
              \in [payout: Nat, type: {"bet_payout", "bet_refund"}]
BY PotentialTyped, RepriceShape, PayoutGood DEF GoodOutcome

-----------------------------------------------------------------------------
(* A better leg never pays less *)

\* No leg of c is graded or worth less than in a.
Better(b, a, c) ==
  \A l \in Legs(b) :
    /\ Rank[a[l].result] <= Rank[c[l].result]
    /\ EffectiveFactor(b.odds[l], a[l]) <= EffectiveFactor(b.odds[l], c[l])

Lost(g) == g.result \in {"lost", "half_lost"}

\* What the order of the results says of one leg.
LEMMA RankShape ==
  ASSUME NEW g \in LegGrades, NEW h \in LegGrades, Rank[g.result] <= Rank[h.result]
  PROVE  /\ Winning(g) => Winning(h)
         /\ h.result = "void" => g.result = "void" \/ Lost(g)
         /\ Lost(h) => Lost(g)
         /\ g.result = "void" /\ h.result # "void" => Winning(h)
         /\ Winning(h) \/ Lost(h) \/ h.result = "void"
         /\ ~(Winning(h) /\ h.result = "void") /\ ~(Winning(h) /\ Lost(h))
<1>1. /\ g.result \in {"won", "lost", "void", "half_won", "half_lost"}
      /\ h.result \in {"won", "lost", "void", "half_won", "half_lost"}
  BY LegShape
<1> DEFINE x == g.result
           y == h.result
<1>2. Rank["lost"] = 0 /\ Rank["half_lost"] = 1 /\ Rank["void"] = 2 /\ Rank["half_won"] = 3
      /\ Rank["won"] = 4
  BY DEF Rank
<1>3. Winning(g) <=> x \in {"won", "half_won"}
  BY DEF Winning
<1>4. Winning(h) <=> y \in {"won", "half_won"}
  BY DEF Winning
<1>5. (Lost(g) <=> x \in {"lost", "half_lost"}) /\ (Lost(h) <=> y \in {"lost", "half_lost"})
  BY DEF Lost
<1> HIDE DEF x, y
<1>6. x \in {"won", "lost", "void", "half_won", "half_lost"}
      /\ y \in {"won", "lost", "void", "half_won", "half_lost"} /\ Rank[x] <= Rank[y]
  BY <1>1 DEF x, y
<1>7. x \in {"won", "half_won"} => y \in {"won", "half_won"}
  BY <1>2, <1>6
<1>8. y = "void" => x \in {"void", "lost", "half_lost"}
  BY <1>2, <1>6
<1>9. y \in {"lost", "half_lost"} => x \in {"lost", "half_lost"}
  BY <1>2, <1>6
<1>10. x = "void" /\ y # "void" => y \in {"won", "half_won"}
  BY <1>2, <1>6
<1>11. /\ y \in {"won", "half_won"} \/ y \in {"lost", "half_lost"} \/ y = "void"
       /\ ~(y \in {"won", "half_won"} /\ y = "void")
       /\ ~(y \in {"won", "half_won"} /\ y \in {"lost", "half_lost"})
  BY <1>6
<1> QED BY <1>3, <1>4, <1>5, <1>7, <1>8, <1>9, <1>10, <1>11 DEF x, y

\* The same of all legs.
LEMMA BetterShape ==
  ASSUME NEW b, Ticket(b), NEW a \in [Legs(b) -> LegGrades], NEW c \in [Legs(b) -> LegGrades],
         Better(b, a, c)
  PROVE  \A l \in Legs(b) :
           /\ Winning(a[l]) => Winning(c[l])
           /\ c[l].result = "void" => a[l].result = "void" \/ Lost(a[l])
           /\ Lost(c[l]) => Lost(a[l])
           /\ a[l].result = "void" /\ c[l].result # "void" => Winning(c[l])
           /\ Winning(c[l]) \/ Lost(c[l]) \/ c[l].result = "void"
           /\ ~(Winning(c[l]) /\ c[l].result = "void") /\ ~(Winning(c[l]) /\ Lost(c[l]))
<1> TAKE l \in Legs(b)
<1>1. a[l] \in LegGrades /\ c[l] \in LegGrades /\ Rank[a[l].result] <= Rank[c[l].result]
  BY DEF Better
<1> QED BY <1>1, RankShape

\* Winners stay winners.
LEMMA WinsMono ==
  ASSUME NEW b, Ticket(b), NEW a \in [Legs(b) -> LegGrades], NEW c \in [Legs(b) -> LegGrades],
         Better(b, a, c)
  PROVE  Wins(a) <= Wins(c)
<1> DEFINE A == {l \in Legs(b) : Winning(a[l])}
           C == {l \in Legs(b) : Winning(c[l])}
<1>1. Wins(a) = Cardinality(A) /\ Wins(c) = Cardinality(C)
  <2>1. DOMAIN a = Legs(b) /\ DOMAIN c = Legs(b)
    OBVIOUS
  <2> QED BY <2>1 DEF Wins
<1>2. A \in SUBSET C /\ C \in SUBSET Legs(b) /\ IsFiniteSet(Legs(b))
  BY BetterShape DEF Ticket
<1> HIDE DEF A, C
<1>3. IsFiniteSet(C)
  BY <1>2, FS_Subset
<1> QED BY <1>1, <1>2, <1>3, FS_Subset

\* A single.
LEMMA SingleBetter ==
  ASSUME NEW b, Ticket(b), NEW a \in [Legs(b) -> LegGrades], NEW c \in [Legs(b) -> LegGrades],
         Better(b, a, c)
  PROVE  SinglePayout(b, a).payout <= SinglePayout(b, c).payout
<1> DEFINE l == CHOOSE x \in Legs(b) : TRUE
           x == EffectiveFactor(b.odds[l], a[l])
           y == EffectiveFactor(b.odds[l], c[l])
<1>1. l \in Legs(b)
  BY DEF Ticket
<1>2. SinglePayout(b, a).payout = (b.stake * x) \div (4 * Q)
      /\ SinglePayout(b, c).payout = (b.stake * y) \div (4 * Q)
  BY DEF SinglePayout
<1> HIDE DEF l
<1>3. b.odds[l] \in Nat /\ a[l] \in LegGrades /\ c[l] \in LegGrades /\ b.stake \in Nat
  BY <1>1 DEF Ticket
<1>4. x \in Nat /\ y \in Nat /\ x <= y
  BY <1>1, <1>3, FactorShape DEF Better
<1> HIDE DEF x, y
<1>5. b.stake * x \in Nat /\ b.stake * y \in Nat /\ b.stake * x <= b.stake * y
  BY <1>3, <1>4, NatTimes, TimesMono
<1>6. 4 * Q \in Nat /\ 4 * Q > 0
  BY QuantumAssumption
<1> QED BY <1>2, <1>5, <1>6, DivMono

\* A combo that is not worse off by its boost.
LEMMA ComboBetterBoost ==
  ASSUME NEW b, Ticket(b), NEW a \in [Legs(b) -> LegGrades], NEW c \in [Legs(b) -> LegGrades],
         Better(b, a, c), Boost(b, a) <= Boost(b, c)
  PROVE  ComboPayout(b, a).payout <= ComboPayout(b, c).payout
<1> DEFINE F == Product(Factors(b, a))
           G == Product(Factors(b, c))
           u == ProductUnit(b, 4 * Q) * Q
           B == Boost(b, a)
           C == Boost(b, c)
<1>1. /\ ComboPayout(b, a).payout = (b.stake * F * B) \div u
      /\ ComboPayout(b, c).payout = (b.stake * G * C) \div u
      /\ F \in Nat /\ G \in Nat /\ u \in Nat /\ u > 0
      /\ b.stake * F * B \in Nat /\ b.stake * G * C \in Nat
  BY ComboParts
<1>2. F <= G
  <2>1. Factors(b, a) \in [Legs(b) -> Nat] /\ Factors(b, c) \in [Legs(b) -> Nat]
    BY FactorsTyped
  <2>2. \A l \in Legs(b) : Factors(b, a)[l] <= Factors(b, c)[l]
    BY DEF Factors, Better
  <2>3. IsFiniteSet(Legs(b))
    BY DEF Ticket
  <2> QED BY <2>1, <2>2, <2>3, ProductMono
<1>3. B \in Nat /\ C \in Nat /\ B <= C /\ b.stake \in Nat
  BY BoostShape DEF Ticket
<1> HIDE DEF F, G, u, B, C
<1>4. b.stake * F \in Nat /\ b.stake * G \in Nat /\ b.stake * F <= b.stake * G
  BY <1>1, <1>2, <1>3, NatTimes, TimesMono
<1>5. b.stake * F * B <= b.stake * G * C
  BY <1>3, <1>4, TimesMono
<1> QED BY <1>1, <1>5, DivMono

\* A combo whose last legs that lost become void too: it loses its boost, but
\* a boost of at most 4/3 makes no lost leg worth more than a void one.
LEMMA ComboBetterVoid ==
  ASSUME NEW b, Ticket(b), 3 * b.boost <= 4 * Q,
         NEW a \in [Legs(b) -> LegGrades], NEW c \in [Legs(b) -> LegGrades],
         Better(b, a, c), ~AllVoid(a), AllVoid(c)
  PROVE  ComboPayout(b, a).payout <= b.stake
<1> DEFINE F == Product(Factors(b, a))
           U == ProductUnit(b, 4 * Q)
           B == Boost(b, a)
<1>1. /\ ComboPayout(b, a).payout = (b.stake * F * B) \div (U * Q)
      /\ F \in Nat /\ U \in Nat /\ U * Q \in Nat /\ U * Q > 0 /\ b.stake * F * B \in Nat
  BY ComboParts
<1>2. Q \in Nat /\ b.stake \in Nat /\ b.boost \in Nat
  BY QuantumAssumption DEF Ticket
<1>3. 4 * F <= 3 * U
  <2> DEFINE f == Factors(b, a)
             h == [l \in Legs(b) |-> 4 * Q]
  <2>1. f \in [Legs(b) -> Nat] /\ h \in [Legs(b) -> Nat] /\ IsFiniteSet(Legs(b))
    BY <1>2, FactorsTyped DEF Ticket
  <2>2. DOMAIN a = Legs(b) /\ DOMAIN c = Legs(b)
    OBVIOUS
  <2>3. \A l \in Legs(b) : f[l] <= h[l]
    <3> TAKE l \in Legs(b)
    <3>1. c[l] \in LegGrades /\ c[l].result = "void" /\ b.odds[l] \in Nat
      BY <2>2 DEF AllVoid, Ticket
    <3>2. EffectiveFactor(b.odds[l], c[l]) = 4 * Q
      BY <3>1, FactorShape
    <3> QED BY <3>2 DEF Factors, Better
  <2>4. PICK y \in Legs(b) : a[y].result # "void"
    BY <2>2 DEF AllVoid
  <2>5. 4 * f[y] <= 3 * h[y]
    <3>1. Lost(a[y])
      BY <2>2, <2>4, BetterShape DEF AllVoid
    <3>2. a[y] \in LegGrades /\ b.odds[y] \in Nat
      BY DEF Ticket
    <3>3. f[y] <= 3 * Q
      BY <3>1, <3>2, FactorShape DEF Lost, Factors
    <3>4. f[y] \in Nat /\ h[y] = 4 * Q
      BY <2>1
    <3> HIDE DEF f, h
    <3> QED BY <1>2, <3>3, <3>4
  <2>6. U = Product(h)
    BY DEF ProductUnit
  <2> HIDE DEF f, h, U
  <2>7. 4 * Product(f) <= 3 * Product(h)
    BY <2>1, <2>3, <2>5, ProductShort
  <2> QED BY <2>6, <2>7 DEF f
<1>4. B \in Nat /\ 3 * B <= 4 * Q
  BY <1>2, BoostShape DEF Boost
<1> HIDE DEF F, U, B
<1>5. (4 * F) * (3 * B) <= (3 * U) * (4 * Q)
  <2>1. 4 * F \in Nat /\ 3 * U \in Nat /\ 3 * B \in Nat /\ 4 * Q \in Nat
    BY <1>1, <1>2, <1>4
  <2> QED BY <1>3, <1>4, <2>1, TimesMono
<1>6. (4 * F) * (3 * B) = 12 * (F * B) /\ (3 * U) * (4 * Q) = 12 * (U * Q)
  BY <1>1, <1>2, <1>4
<1>7. F * B \in Nat /\ F * B <= U * Q
  <2>1. F * B \in Nat
    BY <1>1, <1>4, NatTimes
  <2> QED BY <1>1, <1>5, <1>6, <2>1
<1>8. b.stake * F * B = b.stake * (F * B)
  BY <1>1, <1>2, <1>4
<1>9. b.stake * (F * B) <= b.stake * (U * Q) /\ b.stake * (U * Q) \in Nat
  BY <1>1, <1>2, <1>7, TimesMono, NatTimes
<1>10. (b.stake * F * B) \div (U * Q) <= (b.stake * (U * Q)) \div (U * Q)
  BY <1>1, <1>8, <1>9, DivMono
<1>11. (b.stake * (U * Q)) \div (U * Q) = b.stake
  BY <1>1, <1>2, DivExact
<1> QED BY <1>1, <1>10, <1>11

\* A combo.
LEMMA ComboBetter ==
  ASSUME NEW b, Ticket(b),
         NEW a \in [Legs(b) -> LegGrades], NEW c \in [Legs(b) -> LegGrades], Better(b, a, c),
         ~AllVoid(a) /\ AllVoid(c) => 3 * b.boost <= 4 * Q
  PROVE  ComboPayout(b, a).payout <= ComboPayout(b, c).payout
<1>1. CASE ~AllVoid(a) /\ AllVoid(c)
  <2>1. ComboPayout(b, c).payout = b.stake
    <3>1. ComboPayout(b, c).type = "bet_refund"
      BY <1>1, ComboParts
    <3> QED BY <3>1, ComboGood DEF GoodOutcome
  <2> QED BY <1>1, <2>1, ComboBetterVoid
<1>2. CASE AllVoid(a) \/ ~AllVoid(c)
  <2>1. Boost(b, a) <= Boost(b, c)
    <3>1. CASE AllVoid(a)
      BY <3>1, BoostShape
    <3>2. CASE ~AllVoid(a)
      <4>1. Boost(b, a) = Boost(b, c)
        BY <1>2, <3>2 DEF Boost
      <4> QED BY <4>1, BoostShape
    <3> QED BY <3>1, <3>2
  <2> QED BY <2>1, ComboBetterBoost
<1> QED BY <1>1, <1>2

\* Odds of at least 1 return at least the stake.
LEMMA OddsReturnStake ==
  ASSUME NEW s \in Nat, NEW o \in Nat, o >= Q
  PROVE  s <= (s * o) \div Q
<1>1. Q \in Nat /\ Q > 0
  BY QuantumAssumption
<1>2. s * Q \in Nat /\ s * o \in Nat /\ s * Q <= s * o
  BY <1>1, NatTimes, TimesMono
<1>3. (s * Q) \div Q = s
  BY <1>1, DivExact
<1> QED BY <1>1, <1>2, <1>3, DivMono

\* A Tiple.
LEMMA TipleBetter ==
  ASSUME NEW b, Ticket(b), NEW potential \in Nat, b.stake <= potential,
         NEW a \in [Legs(b) -> LegGrades], NEW c \in [Legs(b) -> LegGrades], Better(b, a, c)
  PROVE  TiplePayout(b, potential, a).payout <= TiplePayout(b, potential, c).payout
<1>1. Wins(a) \in Nat /\ Wins(c) \in Nat /\ Wins(a) <= Wins(c) /\ b.stake \in Nat
  <2>1. Wins(a) \in Nat /\ Wins(c) \in Nat
    BY WinsTyped
  <2>2. Wins(a) <= Wins(c)
    BY WinsMono
  <2>3. b.stake \in Nat
    BY DEF Ticket
  <2> QED BY <2>1, <2>2, <2>3
<1>2. DOMAIN a = Legs(b) /\ DOMAIN c = Legs(b)
  OBVIOUS
<1>3. AllVoid(a) => AllVoid(c) \/ Wins(c) > 0
  <2> SUFFICES ASSUME AllVoid(a), ~AllVoid(c) PROVE Wins(c) > 0
    OBVIOUS
  <2>1. PICK l \in Legs(b) : c[l].result # "void"
    BY <1>2 DEF AllVoid
  <2>2. Winning(c[l])
    BY <1>2, <2>1, BetterShape DEF AllVoid
  <2>3. Wins(c) # 0
    BY <2>2, WinsTyped
  <2> QED BY <1>1, <2>3
<1>4. CASE Wins(a) > 0
  <2>1. Wins(c) > 0
    BY <1>1, <1>4
  <2> QED BY <1>4, <2>1 DEF TiplePayout, Pay
<1>5. CASE ~(Wins(a) > 0) /\ AllVoid(a)
  <2>1. TiplePayout(b, potential, a).payout = b.stake
    BY <1>5 DEF TiplePayout, Refund
  <2>2. TiplePayout(b, potential, c).payout \in {b.stake, potential}
    BY <1>3, <1>5 DEF TiplePayout, Refund, Pay
  <2> QED BY <1>1, <2>1, <2>2
<1>6. CASE ~(Wins(a) > 0) /\ ~AllVoid(a)
  <2>1. TiplePayout(b, potential, a).payout = 0
    BY <1>6 DEF TiplePayout, Pay
  <2>2. TiplePayout(b, potential, c).payout \in {0, b.stake, potential}
    BY DEF TiplePayout, Refund, Pay
  <2> QED BY <1>1, <2>1, <2>2
<1> QED BY <1>4, <1>5, <1>6

\* A BetBuilder.
LEMMA BetBuilderBetter ==
  ASSUME NEW b, Ticket(b), b.type = "betbuilder",
         NEW a \in [Legs(b) -> LegGrades], NEW c \in [Legs(b) -> LegGrades], Better(b, a, c)
  PROVE  BetBuilderPayout(b, a).payout <= BetBuilderPayout(b, c).payout
<1> DEFINE lost(x) == \E l \in Legs(b) : x[l].result \in {"lost", "half_lost"}
           void(x) == \E l \in Legs(b) : x[l].result = "void"
           top == (b.stake * b.session) \div Q
           pays(x) == IF lost(x) THEN 0 ELSE IF void(x) THEN b.stake ELSE top
<1>1. b.stake \in Nat /\ b.session \in Nat /\ b.session >= Q
  BY DEF Ticket
<1>2. b.stake <= top
  BY <1>1, OddsReturnStake
<1>3. top \in Nat
  <2>1. b.stake * b.session \in Nat /\ Q \in Nat /\ Q > 0
    BY <1>1, NatTimes, QuantumAssumption
  <2> QED BY <2>1, DivBounds
<1>4. BetBuilderPayout(b, a).payout = pays(a) /\ BetBuilderPayout(b, c).payout = pays(c)
  BY DEF BetBuilderPayout, Refund, Pay
<1>5. lost(c) => lost(a)
  BY BetterShape DEF Lost
<1>6. void(c) => void(a) \/ lost(a)
  BY BetterShape DEF Lost
<1> HIDE DEF lost, void, top
<1>7. pays(a) <= pays(c)
  <2>1. CASE lost(a)
    BY <1>1, <1>3, <2>1
  <2>2. CASE ~lost(a) /\ void(a)
    BY <1>1, <1>2, <1>3, <1>5, <2>2
  <2>3. CASE ~lost(a) /\ ~void(a)
    BY <1>3, <1>5, <1>6, <2>3
  <2> QED BY <2>1, <2>2, <2>3
<1> QED BY <1>4, <1>7

\* A Tippot that is past its refund.
LEMMA TippotBetter ==
  ASSUME NEW b, Ticket(b), b.type = "tippot", NEW a \in [Legs(b) -> LegGrades],
         NEW c \in [Legs(b) -> LegGrades], Better(b, a, c), ~AllVoid(a)
  PROVE  TippotPayout(b, a).payout <= TippotPayout(b, c).payout
<1> DEFINE pays(x) == IF AllVoid(x) THEN b.stake ELSE IF Wins(x) = 0 THEN 0
                      ELSE (b.stake * b.tiers[TierOf(b, x)]) \div Q
<1>1. TippotPayout(b, a).payout = pays(a) /\ TippotPayout(b, c).payout = pays(c)
  BY DEF TippotPayout, TierOf, Refund, Pay
<1>2. Wins(a) \in Nat /\ Wins(c) \in Nat /\ Wins(a) <= Wins(c) /\ b.stake \in Nat /\ Q \in Nat /\ Q > 0
  <2>1. Wins(a) \in Nat /\ Wins(c) \in Nat
    BY WinsTyped
  <2>2. Wins(a) <= Wins(c)
    BY WinsMono
  <2>3. b.stake \in Nat /\ Q \in Nat /\ Q > 0
    BY QuantumAssumption DEF Ticket
  <2> QED BY <2>1, <2>2, <2>3
<1>3. CASE Wins(a) = 0
  <2>1. pays(a) = 0
    BY <1>3
  <2>2. pays(c) \in Nat
    BY <1>1, OthersGood DEF GoodOutcome
  <2> HIDE DEF pays
  <2> QED BY <1>1, <2>1, <2>2
<1>4. CASE Wins(a) # 0
  <2>1. Wins(c) # 0
    BY <1>2, <1>4
  <2>2. ~AllVoid(c)
    <3>1. PICK l \in Legs(b) : Winning(c[l])
      BY <2>1, WinsTyped
    <3> QED BY <3>1, BetterShape DEF AllVoid
  <2> DEFINE x == b.tiers[TierOf(b, a)]
             y == b.tiers[TierOf(b, c)]
  <2>3. /\ TierOf(b, a) = Wins(a) /\ TierOf(b, a) \in DOMAIN b.tiers /\ x \in Nat
        /\ TierOf(b, c) = Wins(c) /\ TierOf(b, c) \in DOMAIN b.tiers /\ y \in Nat
    BY <1>4, <2>1, TierTyped
  <2>4. x <= y
    BY <1>2, <2>3 DEF Ticket
  <2>5. pays(a) = (b.stake * x) \div Q /\ pays(c) = (b.stake * y) \div Q
    BY <1>4, <2>1, <2>2
  <2> HIDE DEF x, y, pays
  <2>6. b.stake * x \in Nat /\ b.stake * y \in Nat /\ b.stake * x <= b.stake * y
    BY <1>2, <2>3, <2>4, NatTimes, TimesMono
  <2> QED BY <1>1, <1>2, <2>5, <2>6, DivMono
<1> QED BY <1>3, <1>4

\* Every type of ticket.
LEMMA BetterPays ==
  ASSUME NEW b, Ticket(b), NEW potential \in Nat, b.type = "tiple" => b.stake <= potential,
         NEW a \in [Legs(b) -> LegGrades], NEW c \in [Legs(b) -> LegGrades], Better(b, a, c),
         ~(b.type = "tippot" /\ AllVoid(a)),
         b.type = "combo" /\ ~AllVoid(a) /\ AllVoid(c) => 3 * b.boost <= 4 * Q
  PROVE  ComputePayoutOf(b, potential, a).payout <= ComputePayoutOf(b, potential, c).payout
<1>1. b.type \in {"single", "combo", "tiple", "tippot", "betbuilder"}
  BY DEF Ticket
<1>2. CASE b.type = "single"
  BY <1>2, SingleBetter DEF ComputePayoutOf
<1>3. CASE b.type = "combo"
  BY <1>3, ComboBetter DEF ComputePayoutOf
<1>4. CASE b.type = "tiple"
  BY <1>4, TipleBetter DEF ComputePayoutOf
<1>5. CASE b.type = "tippot"
  BY <1>5, TippotBetter DEF ComputePayoutOf
<1>6. CASE b.type = "betbuilder"
  BY <1>6, BetBuilderBetter DEF ComputePayoutOf
<1> QED BY <1>1, <1>2, <1>3, <1>4, <1>5, <1>6

\* However the feed re-grades a leg, a ticket whose legs improve is not paid
\* less, for every ticket of every type and every boost, but for the two cases
\* the property names: the Tippot that leaves its refund, and the combo that
\* gives up a boost of more than 4/3 with its last lost leg.
THEOREM BetterLegs == Spec => BetterLegNeverPaysLess
<1> DEFINE Improves == \A l \in Legs(bet) : /\ ~(Rank[leg'[l].result] < Rank[leg[l].result])
                                            /\ ~(Worth(l, leg') < Worth(l, leg))
<1>1. ASSUME GradingInv, GradingInv', bet' = bet, Improves,
             ~(bet.type = "tippot" /\ AllVoid(leg)), ~BoostGivenUp(leg, leg')
      PROVE  Outcome(leg').payout >= Outcome(leg).payout
  <2> DEFINE p == Placed(bet)
             pot == PlacementPotential(bet)
  <2>1. bet \in Bets /\ leg \in [Legs(bet) -> LegGrades] /\ leg' \in [Legs(bet) -> LegGrades]
    BY <1>1, GradingShape DEF GradingInv
  <2>2. /\ p.type = bet.type /\ p.stake = bet.stake /\ p.odds = bet.odds /\ Legs(p) = Legs(bet)
        /\ Ticket(bet) /\ Ticket(p)
    BY <2>1, PlacedFields, PlacedTicket
  <2>3. pot \in Nat
    BY <2>2, PotentialTyped
  <2>4. bet.type = "tiple" => bet.stake <= pot
    <3> SUFFICES ASSUME bet.type = "tiple" PROVE bet.stake <= pot
      OBVIOUS
    <3>1. bet.stake \in Nat /\ bet.session \in Nat /\ bet.session >= Q
      BY <2>2 DEF Ticket
    <3>2. pot = (bet.stake * bet.session) \div Q
      BY <3>1, QuantiseExact DEF PlacementPotential
    <3> QED BY <3>1, <3>2, OddsReturnStake
  <2>5. p.type = "combo" /\ ~AllVoid(leg) /\ AllVoid(leg') => 3 * p.boost <= 4 * Q
    <3>1. p.boost \in Nat /\ Q \in Nat
      BY <2>2, QuantumAssumption DEF Ticket
    <3> QED BY <1>1, <2>2, <3>1 DEF BoostGivenUp
  <2>6. Better(bet, leg, leg')
    <3> SUFFICES ASSUME NEW l \in Legs(bet)
                 PROVE  /\ Rank[leg[l].result] <= Rank[leg'[l].result]
                        /\ Worth(l, leg) <= Worth(l, leg')
      BY DEF Better, Worth
    <3>1. leg[l] \in LegGrades /\ leg'[l] \in LegGrades /\ bet.odds[l] \in Nat
      BY <2>1, <2>2 DEF Ticket
    <3>2. Worth(l, leg) \in Nat /\ Worth(l, leg') \in Nat
      BY <3>1, FactorShape DEF Worth
    <3>3. /\ leg[l].result \in {"won", "lost", "void", "half_won", "half_lost"}
          /\ leg'[l].result \in {"won", "lost", "void", "half_won", "half_lost"}
      BY <3>1, LegShape
    <3>4. Rank[leg[l].result] \in Nat /\ Rank[leg'[l].result] \in Nat
      BY <3>3 DEF Rank
    <3>5. ~(Rank[leg'[l].result] < Rank[leg[l].result]) /\ ~(Worth(l, leg') < Worth(l, leg))
      BY <1>1
    <3> QED BY <3>2, <3>4, <3>5
  <2>7. Better(p, leg, leg')
    BY <2>2, <2>6 DEF Better
  <2>8. /\ Outcome(leg) = ComputePayoutOf(p, pot, leg)
        /\ Outcome(leg') = ComputePayoutOf(p, pot, leg')
    BY DEF Outcome
  <2> HIDE DEF p, pot
  <2>9. Outcome(leg).payout <= Outcome(leg').payout
    <3>1. leg \in [Legs(p) -> LegGrades] /\ leg' \in [Legs(p) -> LegGrades]
      BY <2>1, <2>2
    <3>2. ~(p.type = "tippot" /\ AllVoid(leg))
      BY <1>1, <2>2
    <3> QED BY <2>2, <2>3, <2>4, <2>5, <2>7, <2>8, <3>1, <3>2, BetterPays
  <2>10. Outcome(leg).payout \in Nat /\ Outcome(leg').payout \in Nat
    BY <2>1, <2>2, <2>3, <2>8, PayoutGood DEF GoodOutcome
  <2> QED BY <2>9, <2>10
<1>2. GradingInv /\ GradingInv' /\ [Next]_vars =>
        [ \/ bet.type = "tippot" /\ AllVoid(leg)
          \/ BoostGivenUp(leg, leg')
          \/ \E l \in Legs(bet) : \/ Rank[leg'[l].result] < Rank[leg[l].result]
                                  \/ Worth(l, leg') < Worth(l, leg)
          \/ Outcome(leg').payout >= Outcome(leg).payout ]_vars
  <2>1. Next => bet' = bet
    BY DEF Next, Regrade
  <2> QED BY <1>1, <2>1
<1> QED BY <1>2, GradingInvariant, PTL DEF Spec, BetterLegNeverPaysLess
=============================================================================
