SPECIFICATION ChildrenSpec
CONSTANTS
  MaxLines = 2
  ChanBuf = 2
  Child = {k1, k2}
  MaxFaults = 1
INVARIANTS
  
  NoStaleHandle
  ClosedIsClean
PROPERTIES
  ChildrenEnd
