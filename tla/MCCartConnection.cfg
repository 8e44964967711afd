SPECIFICATION ConnFairSpec
CONSTANTS
  Threads = {t1, t2, t3}
  None = none
  MaxDrops = 2
  MaxErrors = 2
INVARIANTS
  ConnTypeOK
  OpeningsArePaidFor
PROPERTIES
  WaitersReturn
  ServiceRecovers
