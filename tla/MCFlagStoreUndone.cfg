SPECIFICATION Spec
CONSTANTS
  Flags = {ads, cart}
  Variants = {on, off}
  Editors = {p}
  Absent = absent
  Broken = broken
  Torn = torn
  None = none
  MaxChanges = 4
  MaxHandEdits = 0
  MaxCrashes = 0
INVARIANT
  NothingIsUndone
CHECK_DEADLOCK FALSE
