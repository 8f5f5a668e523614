SPECIFICATION LeanSpec
CONSTANTS
  Count = 2
  Worker = {w1, w2}
  Controller = control
  Controlled = 0
  Archive = {a1, a2}
  Newer = a2
  Nothing = Nothing
  MaxRuns = 2
  MaxFileErrors = 1
  MaxKills = 1
INVARIANTS NoHalfWrittenRead VerdictsAreThisRuns 
PROPERTIES PromiseKept RunEnds
CHECK_DEADLOCK FALSE
