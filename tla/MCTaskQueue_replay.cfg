SPECIFICATION Spec
CONSTANTS
  Events = {e1, e2}
  NoEvent = NoEvent
  Workers = {w1}
  Maintainers = {m1}
  MaxRetries = 1
  MaxFaults <- ReplayFaults
  MaxFaultSum = 9
  Fresh = FALSE
SYMMETRY EventSymmetry
INVARIANTS
  ReplayComplete
