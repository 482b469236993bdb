SPECIFICATION Spec
CONSTANTS
  Call = {c1, c2, c3, c4}
  MaxRetries = 3
  MaxFaults = 1
INVARIANTS TypeOK GivesUpOvertaken
PROPERTY Atomic
CHECK_DEADLOCK FALSE
