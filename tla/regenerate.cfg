SPECIFICATION Spec
CONSTANTS
  Artefacts <- MCArtefacts
  Reads <- MCReads
  Strange <- MCStrange
  Base = v1
  Redraws = v2
  Moves = v3
  Version = {v1, v2, v3}
  Commit = {c1, c2}
  Content = {"a", "b"}
  Nothing = Nothing
  MaxEdits = 3
  MaxKills = 2
INVARIANTS GreenMeansPinned
PROPERTIES WellMeansWhole AcceptedMeansVerified
