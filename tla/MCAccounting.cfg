SPECIFICATION BoundedSpec
CONSTANTS
  Orders = {1, 2, 3}
  Unstorable = {3}
  Replicas = {old, new}
  None = none
  MaxLog = 3
  MaxCrashes = 1
INVARIANTS
  CommittedIsAccountedFor
  LossIsBounded
PROPERTY EveryMessageIsSettled
