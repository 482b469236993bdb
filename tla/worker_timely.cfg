SPECIFICATION Spec
CONSTANTS
  Worker = {w1, w2}
  Pid = {p1, p2}
  Region = r
  Owner <- RegionOwners
  OwnersOf <- OwnPids
  NoLease = NoLease
  TTL = 3
  MaxTxn = 2
  MaxSilence = 1
  TotalSteps = 2
  MaxLen = 3
  MaxRetries = 1
  MaxFaults = 3
SYMMETRY Symmetry
INVARIANTS
  ExclusiveStep
  ChunksSpellText
  NumberFitsText
PROPERTIES
  NoFalseEviction
  KeepsTheJob
