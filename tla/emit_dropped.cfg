SPECIFICATION MainSpec
CONSTANTS
  Drawings <- MCDrawings
  MaxDepth = 3
  MaxCopies = 4
  Spoilable = {}
  Inputs <- MCFlat
  Docs <- MCDocs
  Alphabet <- MCAlphabet
  Comparable <- MCComparable
  Damaged = {}
  Trials = {}
  NaN = NaN
  NegZero = NegZero
  Elsewhere = Elsewhere
INVARIANT NothingIsDroppedSilently
