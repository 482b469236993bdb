SPECIFICATION Spec
CONSTANTS
  Worker = {w1, w2}
  Pid = {p1}
  Region = r
  Owner <- RegionOwners
  OwnersOf <- OwnPids
  NoLease = NoLease
  TTL = 2
  MaxTxn = 2
  MaxSilence = 1
  TotalSteps = 2
  MaxLen = 1
  MaxRetries = 1
  MaxFaults = 0
PROPERTY NoFalseEviction
