SPECIFICATION FairSpec
CONSTANTS
  Row = {1, 2, 3}
  Client = {c1, c2}
  MaxOpen = 1
  MaxFaults = 2
INVARIANTS
  TypeOK
  NothingPassedOver
  ShownOnce
  UnbrokenForEach
PROPERTY EveryRowShown
CONSTRAINT BeginInOrder
