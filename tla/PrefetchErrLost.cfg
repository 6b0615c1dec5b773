CONSTANTS
  a = a
  b = b
  c = c
  d = d
  s1 = s1
  None = None
  Layers = {1}
  Experts = {a}
  Slots <- OneSlot
  PinList <- NoKeys
  PinBudget = 0
  InHeader <- OnlyA
  Requests <- RequestA
  NParts = 2
  SlotCap = 2
  MaxReads = 2
SPECIFICATION Spec
INVARIANT AcquiredBlocksAreWhole
CHECK_DEADLOCK FALSE
