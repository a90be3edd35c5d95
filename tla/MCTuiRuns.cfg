SPECIFICATION FairSpec
CONSTANTS
  r1 = r1
  r2 = r2
  j1 = j1
  j2 = j2
  Row <- TwoRows
  Job <- TwoJobs
  Watch = TRUE
  Refusals = TRUE
  MaxActiveJobs = 2
  MaxGeneration = 2
INVARIANTS
  ResultsAreOfThisRun
  HistoryIsOfThisQuestion
  NoStrayProcess
PROPERTIES
  PendingIsServed
  WatchGoesOn
