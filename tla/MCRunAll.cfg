SPECIFICATION FairSpec
CONSTANTS
  ProbeID <- TargetIDs
  ProbeSlices <- Slices
  ProbeInternet = "internet_tcp"
  ProbeProxy = "proxy"
  ProbeDNS = "dns"
  ProbeDNSPublic = "dns_public"
  ProbeTargetTCP = "target_tcp"
INVARIANTS
  RunsOnSatisfiedInputs
  TargetSkipsAreExplained
PROPERTIES
  ImplementsDag
  EventuallyReturns
