------------------------------- MODULE Ladder -------------------------------
(***************************************************************************)
(* The ladder pass of the reconcile sweeper: open total and handicap lines *)
(* of a closed match are settled from the settled lines of their family,   *)
(* all of which are graded on one hidden integer, the total or the home    *)
(* margin. Lines are counted in quarters, so an odd line is a quarter line.*)
(***************************************************************************)
EXTENDS Integers, FiniteSets, FiniteSetsExt

CONSTANTS
  Kinds,      \* line keys: subset of {"threshold", "handicap"}
  Lines,      \* per line key, the lines of the family, in quarters
  Values,     \* per line key, what the hidden number may be
  ValueRange, \* valueRange: the search is over -ValueRange .. ValueRange
  Voidable    \* lines the feed may void with no number behind it

ASSUME LadderAssumption ==
  /\ Kinds \subseteq {"threshold", "handicap"}
  /\ Lines \in [Kinds -> SUBSET Int] /\ Voidable \subseteq Int
  /\ ValueRange \in Nat
  /\ Values \in [Kinds -> SUBSET (-ValueRange .. ValueRange)]

VARIABLES
  kind,   \* line key of the family
  number, \* the number the match ended on
  result, \* line -> stored results of its two sides, or Open
  todo,   \* candidates the running pass has yet to visit
  found   \* the settled siblings its query returned

ladderVars == <<kind, number, result, todo, found>>

Open == [hi |-> "open", lo |-> "open"]
Grades == {"won", "lost", "void", "half_won", "half_lost"}

-----------------------------------------------------------------------------
(* Grading the high side: over for a total, home for a handicap *)

\* diff is the distance from the line, in quarters.
GradeWhole(diff) == IF diff > 0 THEN "won" ELSE IF diff < 0 THEN "lost" ELSE "void"

\* The two half-stakes of a quarter line.
Combine(x, y) ==
  CASE x = y              -> x
    [] {x, y} = {"won", "void"}  -> "half_won"
    [] {x, y} = {"lost", "void"} -> "half_lost"
    [] OTHER              -> "void"

Diff(k, v, x) == IF k = "handicap" THEN 4 * v + x ELSE 4 * v - x

GradeHigh(k, v, x) ==
  IF x % 2 = 1
  THEN Combine(GradeWhole(Diff(k, v, x - 1)), GradeWhole(Diff(k, v, x + 1)))
  ELSE GradeWhole(Diff(k, v, x))

Mirror(g) ==
  CASE g = "won" -> "lost"
    [] g = "lost" -> "won"
    [] g = "half_won" -> "half_lost"
    [] g = "half_lost" -> "half_won"
    [] OTHER -> "void"

Sides(g) == [hi |-> g, lo |-> Mirror(g)]

-----------------------------------------------------------------------------
(* inferLine *)

Searched == -ValueRange .. ValueRange

\* Both sides must be present and mirror each other.
SiblingUsable(r) == r.hi \in Grades /\ r.lo = Mirror(r.hi)

\* The values that reproduce the stored result of sibling x.
Consistent(k, x, r) == {v \in Searched : GradeHigh(k, v, x) = r.hi}

\* Siblings: a function from lines to their stored results.
Used(k, sib) ==
  {x \in DOMAIN sib : SiblingUsable(sib[x]) /\ Consistent(k, x, sib[x]) # {}}

LowEnd(k, sib) == Max({-ValueRange} \cup {Min(Consistent(k, x, sib[x])) : x \in Used(k, sib)})

\* Wrong: an end of the interval that the siblings exclude is kept.
HighEndLoose(k, sib) ==
  Min({ValueRange} \cup {Max(Consistent(k, x, sib[x])) + 1 : x \in Used(k, sib)})

HighEnd(k, sib) == Min({ValueRange} \cup {Max(Consistent(k, x, sib[x])) : x \in Used(k, sib)})

\* Wrong: the line is settled on the low end alone.
DecidesLowEnd(k, y, sib) ==
  /\ Used(k, sib) # {}
  /\ LowEnd(k, sib) <= HighEnd(k, sib)

\* Both ends of the interval the siblings leave grade line y alike.
Decides(k, y, sib) ==
  /\ Used(k, sib) # {}
  /\ LowEnd(k, sib) <= HighEnd(k, sib)
  /\ <<LowEnd(k, sib), HighEnd(k, sib)>> # <<-ValueRange, ValueRange>>
  /\ GradeHigh(k, LowEnd(k, sib), y) = GradeHigh(k, HighEnd(k, sib), y)

InferLine(k, y, sib) == Sides(GradeHigh(k, LowEnd(k, sib), y))

-----------------------------------------------------------------------------
(* The family over time *)

Family == Lines[kind]
Settled == {x \in Family : result[x] # Open}
Siblings == [x \in Settled |-> result[x]]

LadderInit ==
  /\ kind \in Kinds
  /\ number \in Values[kind]
  /\ result = [x \in Family |-> Open]
  /\ todo = {}
  /\ found = Siblings

\* The feed settles a line it still carries, on the number or as a void.
FeedSettle(x) ==
  /\ result[x] = Open
  /\ result' = [result EXCEPT ![x] = Sides(GradeHigh(kind, number, x))]
  /\ UNCHANGED <<kind, number, todo, found>>

FeedVoid(x) ==
  /\ x \in Voidable
  /\ result[x] = Open
  /\ result' = [result EXCEPT ![x] = Sides("void")]
  /\ UNCHANGED <<kind, number, todo, found>>

\* OpenLadderLinesWithSettledSiblings, at the start of a pass.
ReconcileLadderLines ==
  /\ todo = {}
  /\ Settled # {}
  /\ todo' = Family \ Settled
  /\ found' = Siblings
  /\ UNCHANGED <<kind, number, result>>

\* One candidate: settled through applyMarketSettle when its siblings decide
\* it, skipped otherwise.
ReconcileLine(y) ==
  /\ y \in todo
  /\ todo' = todo \ {y}
  /\ IF Decides(kind, y, found)
     THEN result' = [result EXCEPT ![y] = InferLine(kind, y, found)]
     ELSE UNCHANGED result
  /\ UNCHANGED <<kind, number, found>>

LadderNext ==
  \/ \E x \in Family : FeedSettle(x) \/ FeedVoid(x) \/ ReconcileLine(x)
  \/ ReconcileLadderLines

LadderSpec == LadderInit /\ [][LadderNext]_ladderVars

-----------------------------------------------------------------------------
(* Properties *)

\* store/ladder.go: "Nothing here is a guess: a line is settled only when a
\* sibling's result implies it strictly". A line is void because the feed said
\* so, or has the result of the number the match ended on, whatever mixture of
\* feed and inference settled the family and in whatever order.
NothingIsAGuess ==
  \A y \in Settled :
    \/ result[y] = Sides(GradeHigh(kind, number, y))
    \/ y \in Voidable /\ result[y] = Sides("void")

\* A whole line the feed voided, which inferLine takes for a push: the stored
\* result does not say which of the two it is.
FalsePush(x, r) == x % 4 = 0 /\ r = Sides("void") /\ GradeHigh(kind, number, x) # "void"

\* That is the one thing that can mislead a pass. As long as its query returned
\* no such line, it guesses nothing: not while the feed settles and voids lines
\* between the query and the visit, nor from lines an earlier pass inferred.
InferenceIsNoGuess == (\E x \in DOMAIN found : FalsePush(x, found[x])) \/ NothingIsAGuess

\* The reference definition: the numbers that explain every settled line,
\* leaving out the lines no number explains.
Explained == {x \in Settled : \E v \in Searched : GradeHigh(kind, v, x) = result[x].hi}
Possible == {v \in Searched : \A x \in Explained : GradeHigh(kind, v, x) = result[x].hi}

\* inferLine looks at the two ends of one interval only. That decides a line
\* exactly when the settled lines exclude some number but not all of them, and
\* all the numbers they allow grade it alike: the grade is monotone in the
\* number and the allowed numbers have no gaps.
IntervalIsExact ==
  \A y \in Family :
    Decides(kind, y, Siblings) <=>
      /\ Possible \notin {{}, Searched}
      /\ \E g \in Grades : \A v \in Possible : GradeHigh(kind, v, y) = g
=============================================================================
