SPECIFICATION LoadedSpec
CONSTANTS
  x1 = x1
  x2 = x2
  x3 = x3
  f1 = f1
  f2 = f2
  f3 = f3
  h1 = h1
  h2 = h2
  h3 = h3
  h4 = h4
  NoHandle = NoHandle
  FreedPlan = FreedPlan
  Executables = {x1, x2, x3}
  Fingerprints = {f1, f2}
  Handles = {h1, h2, h3, h4}
  ConstantBytes <- Sizes
  Latencies = {1}
  Unlimited = 9
  Limits = {1}
  Capacity = 2
  AllocSizes = {1}
  MaxBytesInUse = 3
  OutputBytes = 1
SYMMETRY Interchangeable
INVARIANT PlanOutlivesExecution
