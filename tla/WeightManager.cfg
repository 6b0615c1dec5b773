CONSTANTS
  norm = norm
  gate = gate
  up = up
  down = down
  qkv = qkv
  Tensors = {norm, gate, up, down, qkv}
  Size <- Sizes
  Experts = {gate, up, down}
  InLayers = {gate, up, down, qkv}
  Forced = {}
  StreamDense = TRUE
  Budget = 4
  Releasable <- Layer
  MaxHeld = 3
SPECIFICATION WSpec
INVARIANTS
  CacheExact
  HeldStaysLoaded
CHECK_DEADLOCK FALSE
