SPECIFICATION Spec
CONSTANTS
  NumLayers = 4
  MoeLayers <- MCMoeLayers
  NumExperts = 2
  TopK = 2
  Configs <- MCConfigs
INVARIANTS
  EnsuredSlotsAreTheirs
  EachExpertOnce
  PrefillNeverMisses
