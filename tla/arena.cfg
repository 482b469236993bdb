SPECIFICATION Spec
CONSTANTS
  Worker = {w1, w2}
  Owner = {w1, w2}
  Request = {r1, r2}
  Gone = Gone
  NoLease = NoLease
  TTL = 3
  MaxTxn = 1
  MaxSilence = 2
  Poll = 1
  Nap = 1
  Pause = 6
  MaxRequest = 3
  Replacement = 7
  Cooldown = 11
  MaxFaults = 2
SYMMETRY Symmetry
INVARIANTS
  TypeOK
  SomeoneIsAlive
  ClaimedInTime
PROPERTY KillsTheHolder
