SPECIFICATION Spec
CONSTANTS
  Boots <- TheBoots
  Workspace = 2
  CapMargin = 1
  PinCap = 1
  WarmCharges <- TheWarmCharges
  Contents <- TheContents
  MoeLayers <- TheMoeLayers
  LayerBytes = 1
  MaxTrouble = 1
  Callers = {t1, t2}
  Threads = {t1, t2}
  Layers <- TheLayers
  Routes <- TheRoutes
  ExpertBytes = 2
  MaxThrows = 1
  MaxOut = 1
  MaxSubmits = 2
  MaxDrops = 1
  PromptTokens = 1
VIEW Shown
SYMMETRY Alike_
CHECK_DEADLOCK FALSE
INVARIANT ListensAsConfigured
INVARIANT BanksAreWhole
INVARIANT DepthTells
INVARIANT ForwardsAreSound
PROPERTY AnswersAreWhole
