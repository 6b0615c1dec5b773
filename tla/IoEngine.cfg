CONSTANTS
  Jobs = {j1, j2}
  Workers = {w1, w2}
  Clients = {c1, c2}
  NoJob = NoJob
  NoClient = NoClient
SPECIFICATION Spec
INVARIANTS
  DrainFencesBuffers
  JoinLosesNothing
PROPERTIES
  ImplementsContract
  CallsReturn
CHECK_DEADLOCK FALSE
