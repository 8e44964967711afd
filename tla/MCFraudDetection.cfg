SPECIFICATION FraudFairSpec
CONSTANTS
  MaxPoll = 2
  Patience = 1
  NoOffset = none
  MaxRecords = 4
  MaxStops = 2
INVARIANTS
  CommittedIsPassed
  GarbageCostsItsBatch
PROPERTY EveryRecordIsPassed
