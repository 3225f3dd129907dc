SPECIFICATION Spec
CONSTANTS
  d1 = d1
  d2 = d2
  d3 = d3
  w1 = w1
  w2 = w2
  Devices = {d1, d2}
  Workers = {w1}
  NoPolicy = NoPolicy
  Policies <- OnePolicy
  FirstPolicy <- Canary
  MaxGen = 2
  MaxEdits = 0
  MaxTouches = 0
  MaxFailures = 0
  MaxLosses = 0
  FaultPoints = {"create", "annotate"}
  MaxFaults = 1
INVARIANT ValidationRepeatable
CHECK_DEADLOCK FALSE
