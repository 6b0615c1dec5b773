CONSTANTS
  a = a
  b = b
  s1 = s1
  s2 = s2
  None = None
  Experts = {a, b}
  NParts = 1
  Slots <- TwoSlots
  SlotCap = 1
  PinList <- NoKeys
  PinBudget = 0
  Requests <- Choices
  MaxReads = 2
  Layers = {1, 2, 3}
  InHeader <- AllKeys
  Dense = {1}
  MaxFaults = 2
SPECIFICATION MSpec
INVARIANTS
  OwnOrPrevious
  ThrowsOnlyOnFault
PROPERTY LayersEnd
CHECK_DEADLOCK FALSE
