SPECIFICATION Spec
CONSTANTS
  Cell = {c1, c2}
  ControlCell = {c1}
  Version = {v1, v2}
  Word = {"MATCH", "OPEN_FAILED", "DIFF:1"}
  NoRow = NoRow
  MaxLands = 2
INVARIANTS TipIsExplained TipIsWhatTheRunSaid
PROPERTIES NothingMovesThroughTheGate
