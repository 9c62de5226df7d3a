SPECIFICATION BackendSpec
CONSTANTS
  Requests <- MCRequests
  Compute <- MCCompute
  Unwritten <- MCUnwritten
  HostArrays <- MCHostArrays
  Storages = {1, 2, 3, 4, 5, 6, 7, 8, 9, 10, 11, 12, 13, 14, 15}
  MaxCalls = 2
  CaptureExecutables <- MCCaptureExecutables
  Callers = {1, 2}
  Addresses = {1, 2, 3}
  Generations = {1, 2, 3, 4}
  SchedulePlans <- MCSchedulePlans
  BackendHandles = {1, 2, 3, 4, 5, 6, 7, 8, 9, 10, 11, 12, 13, 14, 15, 16}
INVARIANTS BackendTypeOK RegistersCorrect OutputsCorrect ArgumentsIntact DeadValuesReleased LoweringWellFormed
INVARIANTS BuffersAccounted BindingsFollowLiveness ProgramsAccounted CaptureFaithful
\* A program may be refused, the calls of a program are bounded, and one walk ends.
CHECK_DEADLOCK FALSE
