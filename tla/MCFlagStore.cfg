SPECIFICATION Spec
CONSTANTS
  Flags = {ads, cart}
  Variants = {on, off}
  Editors = {p, q}
  Absent = absent
  Broken = broken
  Torn = torn
  None = none
  MaxChanges = 4
  MaxHandEdits = 1
  MaxCrashes = 1
SYMMETRY FlagSymmetry
INVARIANTS
  TypeOK
  WishesHold
CHECK_DEADLOCK FALSE
