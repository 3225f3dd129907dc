SPECIFICATION Spec
CONSTANTS
  Contents = {"a", "b", "n"}
  Empty = "empty"
  NoImage = "none"
  BootImage = "os0"
  Image <- ImageOf
  Plan <- PlanReturn
  PolicyOutcomes <- Ready
  CrashPoints <- Everywhere
  MaxFaults <- FaultsReturn
INVARIANTS FailedNotApplied DesiredNotOlder RejectedNotRetried QueueNotOlder
PROPERTIES CurrentForward 
