SPECIFICATION MCSpec
CONSTANTS
  NoAt = NoAt
  Rec <- All
  MaxLen = 4
  Short = 3
  Step = 2
  Tol = 1
  Far = 6
  Full = 9
  Slack = 0
INVARIANTS PairsAreACommonSubsequence PairsAreLongest EveryRecordAnswered MatchIsSame MatchIsSymmetric
CHECK_DEADLOCK FALSE
