SPECIFICATION Spec
CONSTANT Calls <- MCCalls
INVARIANTS WindowsReduce
\* Each behaviour is one call.
CHECK_DEADLOCK FALSE
