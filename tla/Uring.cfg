CONSTANTS
  j1 = j1
  j2 = j2
  j3 = j3
  Jobs = {j1, j2, j3}
  Offset <- MCOffset
  NBytes <- MCNBytes
  AlignedDst = {j1, j2}
  FileSize = 3
  Align = 2
  Clients = {c1}
  RingDepth = 2
  NoJob = NoJob
  NoClient = NoClient
SPECIFICATION Spec
INVARIANTS
  ResultIsTrue
PROPERTIES
  DrainReturnsUnlessStuck
  ImplementsSafety
CHECK_DEADLOCK FALSE
