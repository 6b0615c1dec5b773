CONSTANTS
  Kind <- MCKind
  GdnModes = {"on", "auto"}
  GpuConvMin = 3
  Drafts = {2, 4}
  Prompts = {3}
  MaxPasses = 4
  MaxSessions = 2
  MaxFaults = 2
SPECIFICATION DSpec
VIEW MCView
INVARIANTS
  RecurrenceHandedOver
  ConvolutionHandedOver
  ResidualHandedOver
CHECK_DEADLOCK FALSE
