SPECIFICATION FairSpec
CONSTANTS
  Worker = {w1, w2}
  Pid = {p1, p2}
  Region = r
  Owner <- RegionPids
  OwnersOf <- SharedPids
  NoLease = NoLease
  TTL = 0
  MaxTxn = 0
  MaxSilence = 1
  TotalSteps = 2
  MaxLen = 1
  MaxRetries = 1
  MaxFaults = 1
INVARIANTS
  TypeOK
  NoStepSkipped
  DoneMeansComplete
  GapFree
PROPERTY Completes
