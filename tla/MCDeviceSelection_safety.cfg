SPECIFICATION Spec
CONSTANTS
  d1 = d1
  d2 = d2
  d3 = d3
  w1 = w1
  w2 = w2
  Devices = {d1, d2}
  Workers = {w1}
  NoPolicy = NoPolicy
  Policies <- Removable
  FirstPolicy <- Canary
  MaxGen = 2
  MaxEdits = 1
  MaxTouches = 1
  MaxFailures = 0
  MaxLosses = 1
  FaultPoints = {"cleanDelete", "resetBatch", "advBatch", "annotate", "write"}
  MaxFaults = 1
INVARIANTS TypeOK FinishCoversFleet
PROPERTIES BatchLeftComplete
CHECK_DEADLOCK FALSE
