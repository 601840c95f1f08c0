SPECIFICATION Spec
CONSTANTS
  x = x
  y = y
  d = d
  in = in
  b0 = b0
  b1 = b1
  b2 = b2
  old = old
  c1 = c1
  c2 = c2
  r1 = r1
  r2 = r2
  NoData = NoData
  NoCapture = NoCapture
  Path = {x, y, d, in}
  Bytes = {b0, b1, b2}
  Inner <- MCInner
  Sed <- MCSed
  Runner = {r1}
  Capture = {old, c1}
  Plans <- MCPlans
  Pasts <- MCPasts
  Foreign <- MCForeign
  Ceiling = 1
  RingSize = 1
  MaxForeign = 1
INVARIANTS TypeOK CaptureOwnsBytes  RevertRestoresTree
PROPERTIES BackedRunStaysInside RevertIsExact
CHECK_DEADLOCK FALSE
