SPECIFICATION Spec
CONSTANTS
  NumDevices = 2
  NumParams = 2
  NumOutputs = 2
  Plans <- MCPlans
  NumBuffers = 8
  HostBuffers <- MCHostBuffers
  MaxCalls = 1
  MaxDeletes = 2
INVARIANTS TypeOK HandlesOwnedOnce FailedCallLeavesNoOutput OutputsUsable
PROPERTIES DonationIsAtomic TombstonesStay
\* A corrupted state has no next one, and the host may destroy everything.
CHECK_DEADLOCK FALSE
