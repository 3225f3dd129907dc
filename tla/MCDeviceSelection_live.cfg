SPECIFICATION FairSpec
CONSTANTS
  d1 = d1
  d2 = d2
  d3 = d3
  w1 = w1
  w2 = w2
  Devices = {d1, d2}
  Workers = {w1}
  NoPolicy = NoPolicy
  Policies <- TwoPolicies
  FirstPolicy <- Halves
  MaxGen = 2
  MaxEdits = 1
  MaxTouches = 0
  MaxFailures = 1
  MaxLosses = 0
  FaultPoints = {"onNew", "resetUnmark", "resetReport", "resetBatch", "approve", "suspend", "dispatch", "complete",
                 "report", "finish", "advUnmark", "advApproval", "advBatch", "advMark", "write"}
  MaxFaults = 1
INVARIANTS MarksOfThisRollout BatchInBounds
 
CHECK_DEADLOCK FALSE
