SPECIFICATION FairSpec
CONSTANTS
  Worker = {w1, w2}
  JobId = {j1, j2, j3, j4}
  NoJob = NoJob
  NoRest = NoRest
  MinPause = 2
  MaxPause = 3
  MaxFaults = 2
INVARIANTS
  TypeOK
  OneRunningJob
  NoPauseWhileRunning
PROPERTIES
  PauseHonoured
  AlwaysAnotherJob
