SPECIFICATION FairSpec
CONSTANTS
  r1 = r1
  r2 = r2
  j1 = j1
  j2 = j2
  Row <- OneRow
  Job <- OneJob
  Watch = TRUE
  Refusals = TRUE
  MaxActiveJobs = 1
  MaxGeneration = 3
PROPERTIES
  QuitIsServed
