SPECIFICATION Spec
CONSTANTS
  Worker = {w1, w2}
  JobId = {j1, j2, j3, j4}
  NoJob = NoJob
  NoRest = NoRest
  MinPause = 1
  MaxPause = 2
  MaxFaults = 0
INVARIANT RestingIsTold
