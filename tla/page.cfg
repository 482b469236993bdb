SPECIFICATION Spec
CONSTANTS
  Owner = {w1, w2}
  Nobody = Nobody
  NoJob = NoJob
  MaxPending = 1
  MaxQueue = 2
  MaxFaults = 1
  MaxRequests = 2
  MaxKills = 1
INVARIANTS TypeOK ButtonMatchesPage
PROPERTIES TellsTheOwner ShowsTheHolder ShowsTheRest
