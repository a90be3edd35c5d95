SPECIFICATION EvidenceSpec
CONSTANTS
  Shape = {s1, s2}
  MaxIncidents = 2
  MaxSteps = 2
  MaxPasses = 6
  MaxDepth = 4
  MaxStates = 5
  MaxFanout = 2
INVARIANTS
  NoneIsUnchanged
