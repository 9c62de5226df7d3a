SPECIFICATION Spec
CONSTANTS
  i1 = i1
  i2 = i2
  x1 = x1
  x2 = x2
  v1 = v1
  Indices = {i1}
  Size = 2
  Bytes = {x1}
  Uninit = Uninit
  ReadyEvents = {}
INVARIANT ReadyIsWhole
\* The host may stop once everything is destroyed.
CHECK_DEADLOCK FALSE
