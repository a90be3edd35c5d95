SPECIFICATION Spec
CONSTANTS
  Row <- ChainRows
  Reusable <- ChainReusable
  Deps <- ChainDeps
  Answers <- ChainAnswers
  MaxAge = 2
  PassWindow = 2
  DriftAllowance = 0
  Platforms <- EveryPlatform
  MaxAwake = 4
  MaxAsleep = 1
  Skews <- Steps
  MaxGeneration = 0
  MaxCancels = 0
  RequestSpan = 1
PROPERTIES
  ShownReuseIsRecent
  NoSuspendInShownPass
  WholeMeasurementIsRecent
