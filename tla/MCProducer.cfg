\* Two calls, each of which may leave two goroutines behind, share a pipeline
\* of two messages.
SPECIFICATION ProducerFairSpec
CONSTANTS
  Calls = {c1, c2}
  Overload = 2
  Capacity = 2
INVARIANTS
  ProducerTypeOK
  OwnAnswer
  WedgedOnlyByCancelled
PROPERTY WaitEnds
CHECK_DEADLOCK FALSE
