SPECIFICATION Spec
CONSTANTS
  Worker = {w1, w2}
  Owner = {w1, w2}
  Request = {r1, r2}
  Gone = Gone
  NoLease = NoLease
  TTL = 1
  MaxTxn = 1
  MaxSilence = 1
  Poll = 1
  Nap = 1
  Pause = 4
  MaxRequest = 1
  Replacement = 1
  Cooldown = 1
  MaxFaults = 0
SYMMETRY Symmetry
PROPERTY RestingIsSpared
