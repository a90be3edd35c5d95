SPECIFICATION Spec
INVARIANTS
  FallbackCarriesNoProvenance
