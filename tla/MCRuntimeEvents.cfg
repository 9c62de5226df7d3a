SPECIFICATION Spec
CONSTANTS
  e1 = e1
  e2 = e2
  e3 = e3
  c1 = c1
  c2 = c2
  c3 = c3
  Events = {e1, e2, e3}
  Callbacks = {c1, c2, c3}
  MaxCallbacks = 2
INVARIANTS CalledOnce WithinTable ChainsResolve
PROPERTIES FailureIsFinal
