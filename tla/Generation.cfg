SPECIFICATION Spec
CONSTANTS
  MaxSeq = 17
  Margin = 8
  WsLimit = 2
  Requests <- MCRequests
INVARIANTS
  CommittedState
  KvFits
  LogprobsAligned
  OwnImages
  StreamCoversResult
