CONSTANTS
  Kinds = {"threshold", "handicap"}
  Lines <- MCLines
  Values <- MCValues
  ValueRange = 4
  Voidable = {0, 2, 4, 6}
SPECIFICATION LadderSpec
INVARIANTS
  InferenceIsNoGuess
  IntervalIsExact
