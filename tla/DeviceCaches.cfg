CONSTANTS
  a = a
  b = b
  c = c
  m = m
  v = v
  t1 = t1
  t2 = t2
  p = p
  q = q
  r = r
  s = s
  Callers = {t1, t2}
  Addrs = {p, q, r, s}
  Int4 = {a, b, c}
  Mid = {m}
  Wide = {v}
  Shape <- MCShape
  Bytes <- MCBytes
  Multi <- MCMulti
  Ffn <- MCFfn
  Rows = {a}
  Pins = {c}
  Spots = {p, s}
  Budgets = {2, 3}
  MidPad = 0
  WidePad = 1
  Workspace = 1
  AllocBytes = 3
  MaxAllocs = 1
  MaxFaults = 1
  MaxLoads = 1
  Host0 <- MCHost0
  NoCaller = NoCaller
SPECIFICATION Spec
SYMMETRY Symm
VIEW MCView
INVARIANTS
  BooksExact
  ProductsAreOwn
PROPERTY PinnedStays
CHECK_DEADLOCK FALSE
