\* A unit of 4 nanos: prices below, at and above half a unit.
SPECIFICATION Spec
CONSTANTS
  NanosMod = 4
  MaxUnits = 1
  MaxQuantity = 3
  Orders <- MCOrders
INVARIANTS
  ExactTotal
  NeverPanics
  ChargeableTotal
  ShownIsCharged
CHECK_DEADLOCK FALSE
