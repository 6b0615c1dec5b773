CONSTANTS
  a = a
  b = b
  c = c
  d = d
  s1 = s1
  None = None
  Layers = {1}
  Experts = {a, b, c, d}
  NParts = 2
  Slots <- OneSlot
  SlotCap = 3
  PinList <- Pinned
  PinBudget = 3
  InHeader <- NotD
  Requests <- Choices
  MaxReads = 2
SPECIFICATION Spec
INVARIANTS
  SlotOwnership
  NoReadIntoForeignSlot
  AcquiredBlocksAreTheirs
  PinnedWholeInBudget
PROPERTY SlotsLostOnlyByThrow
CHECK_DEADLOCK FALSE
