SPECIFICATION Spec
CONSTANTS
  NanosMod = 4
  MaxUnits = 3
INVARIANT
  EverySumIsValid
CHECK_DEADLOCK FALSE
