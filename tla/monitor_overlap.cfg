SPECIFICATION Spec
CONSTANTS
  Row = {r1, r2, r3}
  Client = {c1}
  MaxOpen = 2
  MaxFaults = 0
INVARIANT NothingPassedOver
