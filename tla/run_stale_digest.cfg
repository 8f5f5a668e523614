SPECIFICATION Spec
CONSTANTS
  Count = 2
  Worker = {w1}
  Controller = control
  Controlled = Nothing
  Archive = {a1, a2}
  Newer = a2
  Nothing = Nothing
  MaxRuns = 2
  MaxFileErrors = 0
  MaxKills = 0
INVARIANTS DigestsAreThisRuns
CHECK_DEADLOCK FALSE
