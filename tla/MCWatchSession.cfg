SPECIFICATION FairSpec
CONSTANTS
  Row <- BesideRows
  Reusable <- BesideReusable
  Deps <- BesideDeps
  Answers <- BesideAnswers
  MaxAge = 2
  PassWindow = 2
  DriftAllowance = 0
  Platforms <- LinuxOnly
  MaxAwake = 2
  MaxAsleep = 0
  Skews <- NoSteps
  MaxGeneration = 1
  MaxCancels = 1
  RequestSpan = 3
INVARIANTS
  RequestsAreHonoured
PROPERTIES
  NoReuseAcrossChange
  ChangesAreMeasured
  KeepsPublishing
