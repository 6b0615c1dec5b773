SPECIFICATION Spec
CONSTANTS
  NumLayers = 7
  Int4Parts = {w}
  PassParts = {n}
  w = w
  n = n
  MaxFaults = 1
  ConfiguredWindows <- MCConfiguredWindows
INVARIANTS
  PackIsLive
  MemoryBounded
  BytesCoverViews
  ViewsAreWhole
