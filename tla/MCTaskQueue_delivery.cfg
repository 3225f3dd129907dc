SPECIFICATION Spec
CONSTANTS
  Events = {e1}
  NoEvent = NoEvent
  Workers = {w1, w2}
  Maintainers = {m1}
  MaxRetries = 2
  MaxFaults <- DeliveryFaults
  MaxFaultSum = 2
  Fresh = FALSE
SYMMETRY WorkerSymmetry
INVARIANTS
  TypeOK
  NothingLost
  DeliveryInv
  FailedTaskIsBarrier
PROPERTY
  DeliversEvents
