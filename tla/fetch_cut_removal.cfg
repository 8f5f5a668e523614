SPECIFICATION Spec
CONSTANTS
  Absent = Absent
  Proc = {p1}
  N = 2
  MaxKills = 1
  MaxRots = 1
  MaxFaults = 0
  MaxTroubles = 2
PROPERTIES AnswerHoldsEverything
