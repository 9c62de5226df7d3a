SPECIFICATION Spec
CONSTANTS
  NumDevices = 2
  NumParams = 2
  NumOutputs = 2
  Plans <- VetoPlans
  NumBuffers = 8
  HostBuffers <- MCHostBuffers
  MaxCalls = 1
  MaxDeletes = 0
INVARIANT VetoHonoured
\* A corrupted state has no next one, and the host may destroy everything.
CHECK_DEADLOCK FALSE
