\* Two calls of one user, up to two lines, one overload copy of the message.
SPECIFICATION BoundedSpec
CONSTANTS
  Calls = {1, 2}
  Users = {u1}
  Lines = {1, 2}
  Overload = 1
INVARIANTS
  OneBasketOnce
  StatusTellsTheOrder
  OnlyLateLinesVanish
  NoDoubleOrder
PROPERTIES
  ImplementsLifecycle
  EveryCallReturns
CHECK_DEADLOCK FALSE
