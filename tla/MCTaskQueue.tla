---------------------------- MODULE MCTaskQueue ----------------------------
(* Small instances of TaskQueue for TLC. *)
EXTENDS TaskQueue, TLC

Budget(handler, thread, slow, emit, run, loss) ==
  [k \in FaultKinds |->
     CASE k = "handler" -> handler
       [] k = "worker" -> thread
       [] k = "slow" -> slow
       [] k = "emit" -> emit
       [] k = "maint" -> run
       [] k = "loss" -> loss]

DeliveryFaults == Budget(2, 1, 1, 1, 1, 1)
ReplayFaults == Budget(1, 0, 0, 0, 0, 1)
LiveFaults == Budget(1, 1, 0, 0, 1, 1)
EmitFault == Budget(0, 0, 0, 1, 0, 0)
ClaimFaults == Budget(1, 0, 0, 0, 1, 0)
LossOnly == Budget(0, 0, 0, 0, 0, 1)
TwoLosses == Budget(0, 0, 0, 0, 0, 2)
NoFaults == Budget(0, 0, 0, 0, 0, 0)
OneFailure == Budget(1, 0, 0, 0, 0, 0)
TwoFailures == Budget(2, 0, 0, 0, 0, 0)

WorkerSymmetry == Permutations(Workers)
EventSymmetry == Permutations(Events)
=============================================================================
