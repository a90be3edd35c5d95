SPECIFICATION RowsSpec
CONSTANTS
  N = 3
  Asker = {r1, r2}
  Dst = {d1, d2}
  Yard = d1
  Link = {l1, l2}
  MaxChanges = 2
  MaxQuestions = 2
INVARIANTS
  EverySocketHasOneOwner
  ProvenanceIsTrue
  OneMeasurement
  OneQuestionAtATime
