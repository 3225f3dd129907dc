SPECIFICATION FairSpec
CONSTANTS
  Contents = {"a", "b"}
  Empty = "empty"
  NoImage = "none"
  BootImage = "os0"
  Image <- ImageOf
  Plan <- PlanAB
  PolicyOutcomes <- Ready
  CrashPoints <- OutsideWrites
  MaxFaults <- FaultsSafety
INVARIANTS TypeOK CurrentCanResync RollbackImageKnown 
PROPERTIES Converges Reconciled Adopted
