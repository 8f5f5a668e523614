SPECIFICATION MainSpec
CONSTANTS
  Drawings <- MCDrawings
  MaxDepth = 3
  MaxCopies = 4
  Spoilable <- MCSpoilable
  Inputs <- MCInputs
  Docs <- MCDocs
  Alphabet <- MCAlphabet
  Comparable <- MCComparable
  Damaged <- MCDamaged
  Trials <- MCTrials
  NaN = NaN
  NegZero = NegZero
  Elsewhere = Elsewhere
INVARIANTS
  OpenIsTheWay StreamIsTheDrawing RecordsAreImages ReadIsEmitted RefusalLeadsToTheDamage WireIsKept
  TreeIsWhatIsReachable RefusedOnlyForAClash StreamIsClosed Model1ReadIsWritten VerdictIsWhatDiffers StaleRowsAreIdle
