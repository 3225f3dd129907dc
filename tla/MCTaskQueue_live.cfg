SPECIFICATION FairSpec
CONSTANTS
  Events = {e1}
  NoEvent = NoEvent
  Workers = {w1}
  Maintainers = {m1}
  MaxRetries = 2
  MaxFaults <- LiveFaults
  MaxFaultSum = 3
  Fresh = FALSE
PROPERTIES
  CheckpointAdvances
  
