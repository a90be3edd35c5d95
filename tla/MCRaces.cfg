SPECIFICATION RacesSpec
CONSTANTS
  N = 3
  Addresses = 3
  Events = 3
  QueueLimit = 1
  MaxChanges = 3
  MaxSubscriptions = 2
  MaxFailures = 1
INVARIANTS
  NothingLeftBehind
  
  ReportsAreTrue
  ReusableIsCurrent
  InvalidationsAreJustified
PROPERTIES
  RacesEnd
  CallsReturn
