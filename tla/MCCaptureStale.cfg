SPECIFICATION BackendSpec
CONSTANTS
  Requests <- OneRequest
  Compute <- MCCompute
  Unwritten <- MCUnwritten
  HostArrays <- MCHostArrays
  Storages = {1, 2, 3, 4, 5, 6, 7, 8, 9, 10, 11, 12, 13, 14, 15}
  MaxCalls = 2
  CaptureExecutables <- MCCaptureExecutables
  Callers = {1, 2}
  Addresses = {1, 2, 3}
  Generations = {1, 2, 3, 4}
  SchedulePlans <- OnePlan
  BackendHandles = {1, 2, 3, 4, 5, 6, 7, 8, 9, 10, 11, 12, 13, 14, 15, 16}
INVARIANT CapturedArgumentsMatch
\* As in MCBackendExecution.cfg.
CHECK_DEADLOCK FALSE
