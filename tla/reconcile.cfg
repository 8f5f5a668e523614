SPECIFICATION Spec
CONSTANTS
  None = None
  Index = {1, 2}
  Handle = {h}
  Paths <- MCPaths
  Kind = {"text", "line"}
  Field = {"a", "b"}
  Value = {1, 2}
  Extra = 1
  MaxRows = 2
  MaxListed = 1
  Outcomes <- MCOutcomes
  Tables <- MCTables
INVARIANTS DifferencesAreKept OnlyListedIsExcused ListedRowsHold WordsAreEarned UnlistedIsNotHidden KnownCountsEveryRecord
CHECK_DEADLOCK FALSE
