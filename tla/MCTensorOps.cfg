SPECIFICATION Spec
CONSTANT Calls <- MCCalls
INVARIANTS ResultsMatchStableHLO MetadataMatchesArrays AcceptsWhatIsWellTyped
\* Each behaviour is one call.
CHECK_DEADLOCK FALSE
