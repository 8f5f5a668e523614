SPECIFICATION BoundedSpec
CONSTANTS
  Absent = Absent
  Proc = {p1, p2}
  N = 2
  MaxKills = 2
  MaxRots = 2
  MaxFaults = 2
  MaxTroubles = 3
INVARIANTS NoDebris LooksFinishedIsFinished
PROPERTIES AnswersArePinned OnlyAMatchIsRenamed WarmAnswersHoldEverything EventuallyAnswered
