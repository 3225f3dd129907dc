-------------------------- MODULE TaskQueueProofs --------------------------
(* Theorems about the task queue, for any events, threads and maintainers. *)
EXTENDS TaskQueue, TLAPS

\* A thread or a maintenance run that holds nothing has its type.
LEMMA IdleTypes == IdleWorker \in WorkerState /\ IdleMaint \in MaintState
BY DEF IdleWorker, IdleMaint, WorkerState, MaintState, NoEntry, NoMember, Entry,
       FailedMember, Bodies

\* The fault counters stay natural numbers, and a fault is counted.
LEMMA FaultType ==
  ASSUME NEW k \in FaultKinds, faults \in [FaultKinds -> Nat], Fault(k)
  PROVE  /\ faults' \in [FaultKinds -> Nat]
         /\ faults'[k] > 0
BY DEF Fault

\* XADD puts one entry at the end of the stream.
LEMMA XAddType ==
  ASSUME TypeOK, NEW e \in Bodies, NEW t \in Nat, NEW r \in Nat, NEW o \in Nat,
         XAdd(e, t, r, o)
  PROVE  /\ stream' \subseteq Entry
         /\ log' \subseteq Entry
         /\ nextId' \in Nat \ {0}
BY DEF TypeOK, XAdd, Entry

\* A ZADD to the in-flight set writes a task.
LEMMA ZAddType ==
  ASSUME TypeOK, NEW i \in Nat, NEW d \in BOOLEAN, NEW s \in Nat
  PROVE  ZAdd(i, d, s) \subseteq Task
BY DEF TypeOK, ZAdd, Task

\* markTaskCompleted leaves tasks in the in-flight set.
LEMMA MarkCompleteType ==
  ASSUME TypeOK, NEW i \in Nat, NEW s \in Nat, MarkComplete(i, s)
  PROVE  inFlight' \subseteq Task
BY ZAddType, Zenon DEF MarkComplete

\* The loops over timed out entries, due members and events go on in a state of their type.
LEMMA NextTypes ==
  ASSUME NEW s \in MaintState
  PROVE  /\ NextTimedOut(s) \in MaintState
         /\ \A due \in SUBSET FailedMember : NextRetry(s, due) \in MaintState
         /\ \A e \in Events : NextRepublish(s, e) \in MaintState
BY IdleTypes, ZenonT(60) DEF MaintState, NextTimedOut, NextRetry, NextRepublish, IdleMaint

\* What Complete reads back from the stream is an entry.
LEMMA MessageType ==
  ASSUME TypeOK, NEW i
  PROVE  Message(i) \subseteq Entry
BY DEF TypeOK, Message, XRange, NoEntry, Entry, Bodies

\* A thread that knows which task its message is tracked as has its type.
LEMMA TrackedType ==
  ASSUME NEW s \in WorkerState, NEW x \in Entry
  PROVE  Tracked(s, x) \in WorkerState
BY Zenon DEF Tracked, WorkerState, Entry

\* Every step keeps every variable in its type.
LEMMA TypeStep == TypeOK /\ [Next]_vars => TypeOK'
<1> SUFFICES ASSUME TypeOK, [Next]_vars PROVE TypeOK'
  OBVIOUS
<1>. USE IdleTypes DEF TypeOK, redisVars, dbVars
<1>1. CASE UNCHANGED vars
  BY <1>1 DEF vars
<1>2. ASSUME NEW e \in Events, Producer(e) PROVE TypeOK'
  <2>1. CASE CreateEvent(e)
    BY <2>1 DEF CreateEvent
  <2>2. CASE EmitEvent(e)
    <3>1. PICK t \in {now, now + 1} : now' = t /\ XAdd(e, t, 0, 0)
      BY <2>2 DEF EmitEvent
    <3>2. t \in Nat /\ e \in Bodies
      BY DEF Bodies
    <3>. QED BY <2>2, <3>1, <3>2, XAddType DEF EmitEvent
  <2>3. CASE EmitEventFails(e)
    BY <2>3, FaultType, SMTT(30) DEF EmitEventFails, FaultKinds
  <2>. QED BY <1>2, <2>1, <2>2, <2>3 DEF Producer
<1>3. ASSUME NEW w \in Workers,
             WorkerStep(w) \/ AddToInFlightFails(w) \/ HandlerFails(w)
               \/ CompleteReadFails(w) \/ WorkerFault(w)
      PROVE  TypeOK'
  <2>0. worker[w] \in WorkerState /\ worker[w].msg \in Entry
    BY DEF WorkerState
  <2>1. CASE ReadGroup(w)
    <3>1. PICK x \in stream :
            /\ lastRead' = x.id
            /\ pending' = pending \union {x.id}
            /\ worker' = [worker EXCEPT ![w] =
                            [IdleWorker EXCEPT !.pc = "track", !.msg = x]]
      BY <2>1, Zenon DEF ReadGroup
    <3>2. x.id \in Nat /\ [IdleWorker EXCEPT !.pc = "track", !.msg = x] \in WorkerState
      BY Zenon DEF WorkerState, Entry
    <3>. QED BY <2>1, <3>1, <3>2, SMTT(30) DEF ReadGroup
  <2>2. CASE AddToInFlight(w)
    <3>1. /\ worker[w].msg.id \in Nat /\ worker[w].msg.orig \in Nat
          /\ worker[w].msg.ts \in Nat
      BY <2>0 DEF Entry
    <3>2. inFlight' \subseteq Task
      BY <2>2, <3>1, ZAddType, Zenon DEF AddToInFlight
    <3>. QED BY <2>2, <3>2, Zenon DEF AddToInFlight, WorkerState
  <2>3. CASE AddToInFlightFails(w)
    BY <2>3, FaultType DEF AddToInFlightFails, FaultKinds, WorkerState
  <2>4. CASE HandlerSucceeds(w)
    BY <2>0, <2>4 DEF HandlerSucceeds, WorkerState, Entry
  <2>5. CASE HandlerFails(w)
    BY <2>5, FaultType, ZenonT(60) DEF HandlerFails, FaultKinds, WorkerState
  <2>6. CASE CompleteReadRetry(w)
    <3>1. PICK x \in Entry :
            worker' = [worker EXCEPT ![w] =
                         [@ EXCEPT !.pc = "addFailed", !.retry = x.retry + 1]]
      BY <2>6, MessageType, Zenon DEF CompleteReadRetry
    <3>2. \A n \in Nat :
            [worker[w] EXCEPT !.pc = "addFailed", !.retry = n] \in WorkerState
      BY <2>0, Zenon DEF WorkerState
    <3>3. x.retry + 1 \in Nat
      BY DEF Entry
    <3>. QED BY <2>6, <3>1, <3>2, <3>3, Zenon DEF CompleteReadRetry
  <2>7. CASE CompleteAddFailed(w)
    BY <2>0, <2>7, SMTT(30) DEF CompleteAddFailed, WorkerState, Entry, FailedMember
  <2>8. CASE CompleteReadMessage(w)
    <3>1. PICK x \in Entry : worker' = [worker EXCEPT ![w] = Tracked(@, x)]
      BY <2>8, MessageType, Zenon DEF CompleteReadMessage
    <3>. QED BY <2>0, <2>8, <3>1, TrackedType DEF CompleteReadMessage
  <2>9. CASE CompleteReadFails(w)
    <3>1. faults' \in [FaultKinds -> Nat]
      BY <2>9, FaultType DEF CompleteReadFails, FaultKinds
    <3>2. [worker[w] EXCEPT !.pc = "addFailed", !.retry = 1] \in WorkerState
      BY <2>0, Zenon DEF WorkerState
    <3>3. NoEntry \in Entry
      BY DEF NoEntry, Entry, Bodies
    <3>4. Tracked(worker[w], NoEntry) \in WorkerState
      BY <2>0, <3>3, TrackedType
    <3>. QED BY <2>9, <3>1, <3>2, <3>4 DEF CompleteReadFails
  <2>10. CASE CompleteAck(w)
    BY <2>10 DEF CompleteAck, WorkerState
  <2>11. CASE CompleteDel(w)
    BY <2>11 DEF CompleteDel, WorkerState
  <2>12. CASE CompleteMark(w)
    <3>1. inFlight' \subseteq Task
      BY <2>0, <2>12, MarkCompleteType DEF CompleteMark, WorkerState
    <3>. QED BY <2>12, <3>1 DEF CompleteMark
  <2>13. CASE WorkerFault(w)
    BY <2>13, FaultType, SMTT(30) DEF WorkerFault, FaultKinds
  <2>. QED
    BY <1>3, <2>1, <2>2, <2>3, <2>4, <2>5, <2>6, <2>7, <2>8, <2>9, <2>10, <2>11,
       <2>12, <2>13 DEF WorkerStep
<1>4. ASSUME NEW m \in Maintainers,
             \/ \E ids \in SUBSET pending : StartMaintenance(m, ids)
             \/ \E due \in SUBSET failed : ScanFailed(m, due)
             \/ MaintStep(m) \/ GiveUpRemoveFails(m) \/ MaintCallFails(m) \/ MaintCrash(m)
      PROVE  TypeOK'
  <2>. DEFINE s == maint[m]
  <2>0. /\ s \in MaintState
        /\ s.msg \in Entry /\ s.member \in FailedMember
        /\ s.ids \subseteq Nat /\ s.due \subseteq FailedMember /\ s.evs \subseteq Events
        /\ s.time \in Nat /\ s.value \in Nat
    BY SMTT(30) DEF MaintState
  <2>1. ASSUME NEW ids \in SUBSET pending, StartMaintenance(m, ids) PROVE TypeOK'
    <3>1. faults' \in [FaultKinds -> Nat]
      BY <2>1, FaultType DEF StartMaintenance, FaultKinds
    <3>. QED BY <2>1, <3>1, ZenonT(60) DEF StartMaintenance, MaintState, IdleMaint
  <2>2. ASSUME NEW due \in SUBSET failed, ScanFailed(m, due) PROVE TypeOK'
    <3>1. now' \in Nat
      BY <2>2 DEF ScanFailed
    <3>. QED BY <2>2, <3>1, ZenonT(60) DEF ScanFailed, MaintState, IdleMaint
  <2>3. CASE TimedOutRead(m)
    <3>1. \A i \in Nat : [NoEntry EXCEPT !.id = i] \in Entry
      BY DEF NoEntry, Entry, Bodies
    <3>. QED BY <2>0, <2>3, <3>1 DEF TimedOutRead, MaintState, XRange
  <2>4. CASE TimedOutAckMissing(m)
    BY <2>0, <2>4, NextTypes, Zenon DEF TimedOutAckMissing
  <2>5. CASE TimedOutAddFailed(m)
    BY <2>0, <2>5 DEF TimedOutAddFailed, MaintState, Entry, FailedMember
  <2>6. CASE TimedOutAck(m)
    BY <2>6, SMTT(30) DEF TimedOutAck, MaintState
  <2>7. CASE TimedOutDel(m)
    BY <2>0, <2>7, NextTypes DEF TimedOutDel
  <2>8. CASE GiveUp(m)
    BY <2>0, <2>8 DEF GiveUp, MaintState, FailedMember
  <2>9. CASE GiveUpRemoveFails(m)
    <3>1. faults' \in [FaultKinds -> Nat]
      BY <2>9, FaultType DEF GiveUpRemoveFails, FaultKinds
    <3>. QED BY <2>0, <2>9, <3>1 DEF GiveUpRemoveFails, MaintState, FailedMember
  <2>10. CASE GiveUpMark(m)
    <3>1. now' \in Nat /\ s.member.id \in Nat
      BY <2>0, <2>10 DEF GiveUpMark, FailedMember
    <3>2. inFlight' \subseteq Task
      BY <2>10, <3>1, MarkCompleteType DEF GiveUpMark
    <3>. QED BY <2>0, <2>10, <3>1, <3>2, NextTypes, Zenon DEF GiveUpMark
  <2>11. CASE Claim(m)
    <3>1. PICK f \in s.due :
            /\ failed' = failed \ {f}
            /\ \/ maint' = [maint EXCEPT ![m].pc = "requeue", ![m].due = @ \ {f},
                                         ![m].member = f]
               \/ maint' = [maint EXCEPT ![m] = NextRetry(@, @.due \ {f})]
      BY <2>11, Zenon DEF Claim
    <3>2. NextRetry(s, s.due \ {f}) \in MaintState
      BY <2>0, NextTypes, Zenon
    <3>3. maint' \in [Maintainers -> MaintState]
      <4>1. CASE maint' = [maint EXCEPT ![m].pc = "requeue", ![m].due = @ \ {f},
                                        ![m].member = f]
        BY <2>0, <4>1 DEF MaintState
      <4>2. CASE maint' = [maint EXCEPT ![m] = NextRetry(@, @.due \ {f})]
        BY <3>2, <4>2
      <4>. QED BY <3>1, <4>1, <4>2
    <3>. QED BY <2>0, <2>11, <3>1, <3>3 DEF Claim
  <2>12. CASE Requeue(m)
    <3>1. s.member.ev \in Bodies /\ s.member.retry \in Nat /\ s.member.id \in Nat
      BY <2>0 DEF FailedMember
    <3>2. /\ stream' \subseteq Entry
          /\ log' \subseteq Entry
          /\ nextId' \in Nat \ {0}
      BY <2>0, <2>12, <3>1, XAddType DEF Requeue
    <3>. QED BY <2>0, <2>12, <3>2, NextTypes, Zenon DEF Requeue
  <2>13. CASE Restore(m)
    BY <2>0, <2>13, NextTypes, Zenon DEF Restore
  <2>14. CASE AdvanceCheckpoint(m)
    <3>1. SafeTimestamps \subseteq Nat
      BY DEF SafeTimestamps, Task
    <3>2. checkpoint' \in Nat \union {Missing} /\ inFlight' \subseteq Task
      BY <2>14, <3>1 DEF AdvanceCheckpoint, AdvanceScript
    <3>. QED BY <2>14, <3>2 DEF AdvanceCheckpoint, MaintState, IdleMaint
  <2>15. CASE CheckpointMissing(m)
    BY <2>15, SMTT(30) DEF CheckpointMissing, MaintState, IdleMaint
  <2>16. CASE Recover(m)
    BY <2>0, <2>16, ZenonT(60) DEF Recover, Replayed, EventsSince, MaintState
  <2>17. CASE Republish(m)
    <3>1. PICK e \in Oldest(s.evs) : /\ XAdd(e, created[e], 0, 0)
                                     /\ maint' = [maint EXCEPT ![m] = NextRepublish(@, e)]
      BY <2>17, Zenon DEF Republish
    <3>2. e \in Events /\ e \in Bodies /\ created[e] \in Nat
      BY <2>0 DEF Oldest, Bodies
    <3>3. /\ stream' \subseteq Entry
          /\ log' \subseteq Entry
          /\ nextId' \in Nat \ {0}
      BY <3>1, <3>2, XAddType
    <3>. QED BY <2>0, <2>17, <3>1, <3>2, <3>3, NextTypes, Zenon DEF Republish
  <2>18. CASE ResetCheckpoint(m)
    BY <2>18 DEF ResetCheckpoint, MaintState
  <2>19. CASE ReadCheckpoint(m)
    <3>1. checkpoint # Missing =>
            [s EXCEPT !.pc = "saveCheckpoint", !.value = checkpoint] \in MaintState
      BY <2>0, ZenonT(60) DEF MaintState
    <3>. QED BY <2>0, <2>19, <3>1 DEF ReadCheckpoint
  <2>20. CASE SaveCheckpoint(m)
    BY <2>0, <2>20 DEF SaveCheckpoint
  <2>21. CASE MaintCallFails(m)
    <3>1. faults' \in [FaultKinds -> Nat]
      BY <2>21, FaultType, Zenon DEF MaintCallFails, FaultKinds
    <3>2. \A i \in Nat : [s EXCEPT !.pc = "ackMissing", !.ids = @ \ {i},
                           !.msg = [NoEntry EXCEPT !.id = i]] \in MaintState
      <4>1. \A i \in Nat : [NoEntry EXCEPT !.id = i] \in Entry
        BY DEF NoEntry, Entry, Bodies
      <4>. QED BY <2>0, <4>1, Zenon DEF MaintState
    <3>3. /\ NextRetry(s, s.due) \in MaintState
          /\ \A f \in FailedMember : NextRetry(s, s.due \ {f}) \in MaintState
      BY <2>0, NextTypes
    <3>4. /\ [s EXCEPT !.pc = "restore"] \in MaintState
          /\ \A p \in {"advance", "readCheckpoint", "resetCheckpoint"} :
               [IdleMaint EXCEPT !.pc = p] \in MaintState
      BY <2>0, SMTT(30) DEF MaintState
    <3>5. Oldest(s.evs) \subseteq Events
      BY <2>0, SMTT(30) DEF Oldest
    <3>6. PICK t \in MaintState : maint' = [maint EXCEPT ![m] = t]
      BY <2>0, <2>21, <3>2, <3>3, <3>4, <3>5, NextTypes, Zenon DEF MaintCallFails
    <3>. QED BY <2>21, <3>1, <3>6, Zenon DEF MaintCallFails
  <2>22. CASE MaintCrash(m)
    BY <2>22, FaultType DEF MaintCrash, FaultKinds
  <2>. QED
    BY <1>4, <2>1, <2>2, <2>3, <2>4, <2>5, <2>6, <2>7, <2>8, <2>9, <2>10, <2>11,
       Zenon, <2>12, <2>13, <2>14, <2>15, <2>16, <2>17, <2>18, <2>19, <2>20, <2>21, <2>22
       DEF MaintStep
<1>5. CASE RedisLoss
  BY <1>5, FaultType DEF RedisLoss, FaultKinds
<1>. QED BY <1>1, <1>2, <1>3, <1>4, <1>5 DEF Next

\* The initial state of the queue has its types.
LEMMA TypeInit == Init => TypeOK
BY IdleTypes DEF Init, TypeOK, Missing

\* The type invariant of the queue: whatever threads, producers and maintenance runs
\* do, every key of Redis and every local state holds values of its type.
THEOREM TypeCorrect == Spec => []TypeOK
BY TypeInit, TypeStep, PTL DEF Spec

-----------------------------------------------------------------------------
(* With one maintenance run at a time the checkpoint only moves forward.    *)

\* A run that recovers does so because the checkpoint key is missing, and no other
\* run can have created it since.
RecoveryInv ==
  \A m \in Maintainers :
    maint[m].pc \in {"recover", "republish", "resetCheckpoint"} => checkpoint = Missing

\* AdvanceCheckpointAndCleanup moves the checkpoint to the last completed task before
\* the first incomplete one and removes completed tasks only.
LEMMA AdvanceScriptForward ==
  ASSUME TypeOK, AdvanceScript
  PROVE  checkpoint' # checkpoint =>
           /\ checkpoint' > checkpoint
           /\ \A t \in inFlight : ~t.done => t \in inFlight' /\ t.score >= checkpoint'
<1>1. CASE UNCHANGED checkpoint
  BY <1>1
<1>2. ASSUME NEW safe \in SafeTimestamps, safe > checkpoint, checkpoint' = safe,
             inFlight' = {t \in inFlight : ~(t.done /\ t.score <= safe)}
      PROVE  /\ checkpoint' > checkpoint
             /\ \A t \in inFlight : ~t.done => t \in inFlight' /\ t.score >= checkpoint'
  <2>1. PICK c \in inFlight : /\ c.score = safe
                              /\ \A b \in inFlight : ~b.done => Precedes(c, b)
    BY <1>2 DEF SafeTimestamps
  <2>2. \A t \in inFlight : t.score \in Nat
    BY DEF TypeOK, Task
  <2>3. ASSUME NEW t \in inFlight, ~t.done PROVE t.score >= safe
    BY <2>1, <2>2, <2>3 DEF Precedes
  <2>. QED BY <1>2, <2>3
<1>. QED BY <1>1, <1>2 DEF AdvanceScript

\* The steps that change the checkpoint: a loss of Redis, the script, and the reset at
\* the end of a recovery.
LEMMA CheckpointChanges ==
  ASSUME Next, checkpoint' # checkpoint
  PROVE  \/ checkpoint' = Missing /\ UNCHANGED maint
         \/ AdvanceScript /\ checkpoint # Missing
         \/ \E m \in Maintainers : ResetCheckpoint(m)
<1>. USE DEF redisVars
<1>1. CASE \E e \in Events : Producer(e)
  BY <1>1, SMTT(30) DEF Producer, CreateEvent, EmitEvent, EmitEventFails
<1>2. CASE \E w \in Workers :
             \/ WorkerStep(w) \/ AddToInFlightFails(w) \/ HandlerFails(w)
             \/ CompleteReadFails(w) \/ WorkerFault(w)
  BY <1>2, ZenonT(60) DEF WorkerStep, ReadGroup, AddToInFlight, HandlerSucceeds,
       CompleteReadRetry, CompleteAddFailed, CompleteReadMessage, CompleteAck,
       CompleteDel, CompleteMark, AddToInFlightFails, HandlerFails,
       CompleteReadFails, WorkerFault
<1>3. ASSUME NEW m \in Maintainers,
             \/ \E ids \in SUBSET pending : StartMaintenance(m, ids)
             \/ \E due \in SUBSET failed : ScanFailed(m, due)
             \/ GiveUpRemoveFails(m) \/ MaintCallFails(m) \/ MaintCrash(m)
      PROVE  FALSE
  BY <1>3, ZenonT(60) DEF StartMaintenance, ScanFailed, GiveUpRemoveFails, MaintCallFails, MaintCrash
<1>4. ASSUME NEW m \in Maintainers, MaintStep(m)
      PROVE  AdvanceCheckpoint(m) \/ ResetCheckpoint(m)
  BY <1>4, Zenon DEF MaintStep, TimedOutRead, TimedOutAckMissing, TimedOutAddFailed,
       TimedOutAck, TimedOutDel, GiveUp, GiveUpMark, Claim, Requeue, Restore,
       CheckpointMissing, Recover, Republish, ReadCheckpoint, SaveCheckpoint
<1>5. CASE RedisLoss
  BY <1>5 DEF RedisLoss
<1>. QED BY <1>1, <1>2, <1>3, <1>4, <1>5 DEF Next, AdvanceCheckpoint

\* The steps of a maintenance run that lead into, or stay in, a recovery.
LEMMA RecoveryEntered ==
  ASSUME TypeOK, NEW m \in Maintainers,
         \/ \E ids \in SUBSET pending : StartMaintenance(m, ids)
         \/ \E due \in SUBSET failed : ScanFailed(m, due)
         \/ MaintStep(m) \/ GiveUpRemoveFails(m) \/ MaintCallFails(m) \/ MaintCrash(m),
         maint'[m].pc \in {"recover", "republish", "resetCheckpoint"}
  PROVE  /\ UNCHANGED checkpoint
         /\ \/ maint[m].pc \in {"recover", "republish", "resetCheckpoint"}
            \/ checkpoint = Missing
<1>. USE DEF redisVars
<1>. DEFINE P == {"recover", "republish", "resetCheckpoint"}
            s == maint[m]
<1>0. maint \in [Maintainers -> MaintState] /\ s \in MaintState
  BY DEF TypeOK
<1>b. ASSUME NEW t, maint' = [maint EXCEPT ![m] = t] PROVE maint'[m] = t
  BY <1>0, <1>b
<1>c. /\ NextTimedOut(s).pc \in {"scanFailed", "timedOut"}
      /\ \A due : NextRetry(s, due).pc \in {"advance", "retry"}
      /\ IdleMaint.pc = "idle"
      /\ \A p : [IdleMaint EXCEPT !.pc = p].pc = p
      /\ \A v : [s EXCEPT !.pc = "saveCheckpoint", !.value = v].pc = "saveCheckpoint"
      /\ [s EXCEPT !.pc = "restore"].pc = "restore"
      /\ \A i : [s EXCEPT !.pc = "ackMissing", !.ids = @ \ {i},
                          !.msg = [NoEntry EXCEPT !.id = i]].pc = "ackMissing"
  BY <1>0, Zenon DEF NextTimedOut, NextRetry, IdleMaint, MaintState
<1>1. CASE \E ids \in SUBSET pending : StartMaintenance(m, ids)
  <2>1. PICK ids : maint' = [maint EXCEPT ![m] =
                     [IdleMaint EXCEPT !.pc = IF ids = {} THEN "scanFailed" ELSE "timedOut",
                                       !.ids = ids]]
    BY <1>1, Zenon DEF StartMaintenance
  <2>2. maint'[m].pc \in {"scanFailed", "timedOut"}
    BY <1>0, <2>1 DEF IdleMaint
  <2>. QED BY <2>2, SMTT(30)
<1>2. CASE \E due \in SUBSET failed : ScanFailed(m, due)
  <2>1. PICK due, t : maint' = [maint EXCEPT ![m] =
                     [IdleMaint EXCEPT !.pc = IF due = {} THEN "advance" ELSE "retry",
                                       !.due = due, !.time = t]]
    BY <1>2, Zenon DEF ScanFailed
  <2>2. maint'[m].pc \in {"advance", "retry"}
    BY <1>0, <2>1 DEF IdleMaint
  <2>. QED BY <2>2, SMTT(30)
<1>3. CASE TimedOutRead(m) \/ TimedOutAddFailed(m) \/ TimedOutAck(m)
  <2>1. CASE TimedOutRead(m)
    <3>1. \E i, x : \E p \in {"ackMissing", "addFailed"} :
            maint' = [maint EXCEPT ![m].pc = p, ![m].ids = @ \ {i}, ![m].msg = x]
      BY <2>1, Zenon DEF TimedOutRead
    <3>2. maint'[m].pc \in {"ackMissing", "addFailed"}
      BY <1>0, <3>1 DEF MaintState
    <3>. QED BY <3>2, SMTT(30)
  <2>2. CASE TimedOutAddFailed(m) \/ TimedOutAck(m)
    <3>1. maint'[m].pc \in {"ack", "del"}
      BY <1>0, <2>2 DEF TimedOutAddFailed, TimedOutAck, MaintState
    <3>. QED BY <3>1
  <2>. QED BY <1>3, <2>1, <2>2
<1>4. CASE TimedOutAckMissing(m) \/ TimedOutDel(m)
  BY <1>b, <1>c, <1>4 DEF TimedOutAckMissing, TimedOutDel
<1>5. CASE GiveUp(m) \/ GiveUpRemoveFails(m)
  <2>1. \E f : maint' = [maint EXCEPT ![m].pc = "markFailed", ![m].due = @ \ {f},
                                      ![m].member = f]
    BY <1>5, Zenon DEF GiveUp, GiveUpRemoveFails
  <2>2. maint'[m].pc = "markFailed"
    BY <1>0, <2>1 DEF MaintState
  <2>. QED BY <2>2, SMTT(30)
<1>6. CASE GiveUpMark(m) \/ Requeue(m) \/ Restore(m)
  BY <1>b, <1>c, <1>6 DEF GiveUpMark, Requeue, Restore
<1>7. CASE Claim(m)
  <2>1. PICK f : \/ maint' = [maint EXCEPT ![m].pc = "requeue", ![m].due = @ \ {f},
                                           ![m].member = f]
                 \/ maint' = [maint EXCEPT ![m] = NextRetry(@, @.due \ {f})]
    BY <1>7, Zenon DEF Claim
  <2>2. CASE maint' = [maint EXCEPT ![m].pc = "requeue", ![m].due = @ \ {f},
                                    ![m].member = f]
    BY <1>0, <2>2 DEF MaintState
  <2>3. CASE maint' = [maint EXCEPT ![m] = NextRetry(@, @.due \ {f})]
    <3>1. maint'[m] = NextRetry(s, s.due \ {f})
      BY <1>0, <2>3
    <3>. QED BY <1>c, <3>1
  <2>. QED BY <2>1, <2>2, <2>3, SMTT(30)
<1>8. CASE AdvanceCheckpoint(m)
  BY <1>b, <1>c, <1>8 DEF AdvanceCheckpoint
<1>9. CASE CheckpointMissing(m)
  BY <1>9 DEF CheckpointMissing
<1>10. CASE Recover(m) \/ Republish(m)
  BY <1>10 DEF Recover, Republish
<1>11. CASE ResetCheckpoint(m)
  BY <1>0, <1>11 DEF ResetCheckpoint, MaintState
<1>12. CASE ReadCheckpoint(m)
  <2>1. \/ maint' = [maint EXCEPT ![m] = IdleMaint]
        \/ maint' = [maint EXCEPT ![m] =
                       [@ EXCEPT !.pc = "saveCheckpoint", !.value = checkpoint]]
    BY <1>12, Zenon DEF ReadCheckpoint
  <2>2. \/ maint'[m] = IdleMaint
        \/ maint'[m] = [s EXCEPT !.pc = "saveCheckpoint", !.value = checkpoint]
    BY <1>0, <2>1
  <2>. QED BY <1>c, <2>2, ZenonT(60)
<1>13. CASE SaveCheckpoint(m) \/ MaintCrash(m)
  BY <1>b, <1>c, <1>13 DEF SaveCheckpoint, MaintCrash
<1>14. CASE MaintCallFails(m)
  <2>1. UNCHANGED checkpoint
    BY <1>14, ZenonT(60) DEF MaintCallFails
  <2>2. CASE s.pc \in {"ackMissing", "addFailed", "ack", "del"}
    BY <1>14, <1>b, <1>c, <2>2, Zenon DEF MaintCallFails
  <2>3. CASE s.pc = "timedOut"
    <3>1. PICK i : maint' = [maint EXCEPT ![m] =
                     [s EXCEPT !.pc = "ackMissing", !.ids = s.ids \ {i},
                               !.msg = [NoEntry EXCEPT !.id = i]]]
      BY <1>14, <2>3, Zenon DEF MaintCallFails
    <3>2. maint'[m].pc = "ackMissing"
      BY <1>0, <3>1 DEF MaintState
    <3>. QED BY <3>2, SMTT(30)
  <2>4. CASE s.pc \in {"scanFailed", "retry", "requeue", "restore", "markFailed"}
    <3>1. PICK t : /\ maint' = [maint EXCEPT ![m] = t]
                   /\ \/ t = [IdleMaint EXCEPT !.pc = "advance"]
                      \/ \E due : t = NextRetry(s, due)
                      \/ t = [s EXCEPT !.pc = "restore"]
      BY <1>14, <2>4, Zenon DEF MaintCallFails
    <3>2. t.pc \in {"advance", "retry", "restore"}
      BY <1>0, <1>c, <3>1 DEF IdleMaint, MaintState
    <3>. QED BY <1>b, <3>1, <3>2, Zenon
  <2>5. CASE s.pc \in {"advance", "advanceAgain", "readCheckpoint", "saveCheckpoint"}
    <3>1. PICK t : /\ maint' = [maint EXCEPT ![m] = t]
                   /\ \/ t = [IdleMaint EXCEPT !.pc = "readCheckpoint"]
                      \/ t = IdleMaint
      BY <1>14, <2>5, Zenon DEF MaintCallFails
    <3>2. t.pc \in {"readCheckpoint", "idle"}
      BY <3>1 DEF IdleMaint
    <3>. QED BY <1>b, <3>1, <3>2, Zenon
  <2>6. CASE s.pc \in P
    BY <2>1, <2>6, SMTT(30)
  <2>7. s.pc # "idle"
    BY <1>14, Zenon DEF MaintCallFails
  <2>. QED BY <1>0, <2>2, <2>3, <2>4, <2>5, <2>6, <2>7 DEF MaintState
<1>. QED
  BY <1>1, <1>2, <1>3, <1>4, <1>5, <1>6, <1>7, <1>8, <1>9, <1>10, <1>11, <1>12,
     <1>13, <1>14 DEF MaintStep

\* A step of one maintenance run leaves the others alone; a step of anyone else leaves
\* all of them alone.
LEMMA MaintOfOne ==
  ASSUME TypeOK, Next
  PROVE  \/ UNCHANGED maint
         \/ \E m \in Maintainers :
              /\ \/ \E ids \in SUBSET pending : StartMaintenance(m, ids)
                 \/ \E due \in SUBSET failed : ScanFailed(m, due)
                 \/ MaintStep(m) \/ GiveUpRemoveFails(m) \/ MaintCallFails(m)
                 \/ MaintCrash(m)
<1>1. CASE \E e \in Events : Producer(e)
  BY <1>1, SMTT(30) DEF Producer, CreateEvent, EmitEvent, EmitEventFails
<1>2. CASE \E w \in Workers :
             \/ WorkerStep(w) \/ AddToInFlightFails(w) \/ HandlerFails(w)
             \/ CompleteReadFails(w) \/ WorkerFault(w)
  BY <1>2, Zenon DEF WorkerStep, ReadGroup, AddToInFlight, HandlerSucceeds,
       CompleteReadRetry, CompleteAddFailed, CompleteReadMessage, CompleteAck,
       CompleteDel, CompleteMark, AddToInFlightFails, HandlerFails,
       CompleteReadFails, WorkerFault
<1>3. CASE RedisLoss
  BY <1>3 DEF RedisLoss
<1>. QED BY <1>1, <1>2, <1>3 DEF Next

\* No step of a single maintenance run, and none of anyone else, creates the key while
\* the run recovers.
LEMMA RecoveryStep ==
  ASSUME \A m, n \in Maintainers : m = n
  PROVE  TypeOK /\ RecoveryInv /\ [Next]_vars => RecoveryInv'
<1>. SUFFICES ASSUME TypeOK, RecoveryInv, [Next]_vars PROVE RecoveryInv'
  OBVIOUS
<1>1. CASE UNCHANGED vars
  BY <1>1 DEF vars, RecoveryInv
<1>2. ASSUME Next, NEW m \in Maintainers,
             maint'[m].pc \in {"recover", "republish", "resetCheckpoint"}
      PROVE  checkpoint' = Missing
  <2>1. CASE UNCHANGED maint
    <3>1. checkpoint = Missing
      BY <1>2, <2>1 DEF RecoveryInv
    <3>2. CASE UNCHANGED checkpoint
      BY <3>1, <3>2
    <3>3. ASSUME NEW n \in Maintainers, ResetCheckpoint(n) PROVE FALSE
      <4>1. maint'[n].pc = "advanceAgain" /\ maint[n].pc = "resetCheckpoint"
        BY <3>3 DEF ResetCheckpoint, TypeOK, MaintState
      <4>. QED BY <2>1, <4>1
    <3>. QED BY <1>2, <3>1, <3>2, <3>3, CheckpointChanges
  <2>2. ASSUME NEW n \in Maintainers,
               \/ \E ids \in SUBSET pending : StartMaintenance(n, ids)
               \/ \E due \in SUBSET failed : ScanFailed(n, due)
               \/ MaintStep(n) \/ GiveUpRemoveFails(n) \/ MaintCallFails(n)
               \/ MaintCrash(n)
        PROVE  checkpoint' = Missing
    <3>1. n = m
      OBVIOUS
    <3>2. /\ UNCHANGED checkpoint
          /\ \/ maint[m].pc \in {"recover", "republish", "resetCheckpoint"}
             \/ checkpoint = Missing
      BY <1>2, <2>2, <3>1, RecoveryEntered
    <3>. QED BY <3>2 DEF RecoveryInv
  <2>. QED BY <1>2, <2>1, <2>2, MaintOfOne
<1>. QED BY <1>1, <1>2 DEF RecoveryInv

\* "prevents races between multiple instances" holds as long as there is only one: with a
\* single process that runs the maintenance task the checkpoint only moves forward,
\* never passes an incomplete task, and the clean-up drops no incomplete task, for any
\* number of events and threads and any faults.
THEOREM CheckpointForward ==
  ASSUME \A m, n \in Maintainers : m = n
  PROVE  Spec => CheckpointAdvances
<1>. DEFINE A == checkpoint' # checkpoint /\ checkpoint' # Missing =>
                   /\ checkpoint' > checkpoint
                   /\ checkpoint # Missing =>
                        \A t \in inFlight :
                          ~t.done => t \in inFlight' /\ t.score >= checkpoint'
<1>1. Init => RecoveryInv
  BY DEF Init, RecoveryInv, IdleMaint
<1>2. TypeOK /\ RecoveryInv /\ [Next]_vars => RecoveryInv'
  BY RecoveryStep
<1>3. TypeOK /\ RecoveryInv /\ [Next]_vars => [A]_vars
  <2>. SUFFICES ASSUME TypeOK, RecoveryInv, Next, checkpoint' # checkpoint,
                       checkpoint' # Missing
                PROVE  /\ checkpoint' > checkpoint
                       /\ checkpoint # Missing =>
                            \A t \in inFlight :
                              ~t.done => t \in inFlight' /\ t.score >= checkpoint'
    OBVIOUS
  <2>1. CASE AdvanceScript
    BY <2>1, AdvanceScriptForward
  <2>2. ASSUME NEW m \in Maintainers, ResetCheckpoint(m)
        PROVE  checkpoint = Missing /\ checkpoint' > checkpoint
    BY <2>2 DEF ResetCheckpoint, RecoveryInv, Missing
  <2>. QED BY <2>1, <2>2, CheckpointChanges
<1>4. Spec => []TypeOK
  BY TypeCorrect
<1>. QED BY <1>1, <1>2, <1>3, <1>4, PTL DEF Spec, CheckpointAdvances

-----------------------------------------------------------------------------
(* Stream entries and failed members keep their identities. *)

\* XADD adds an entry with a new ID, larger than any before.
LEMMA XAddEntry ==
  ASSUME TypeOK, EntriesConsistent, NEW e, NEW t, NEW r, NEW o, XAdd(e, t, r, o)
  PROVE  /\ \A x \in log' : 0 < x.id /\ x.id < nextId'
         /\ \A x, y \in log' : x.id = y.id => x = y
         /\ stream' \subseteq log'
         /\ log \subseteq log'
         /\ nextId' = nextId + 1
<1>. DEFINE a == [id |-> nextId, ev |-> e, ts |-> t, retry |-> r, orig |-> o]
<1>1. /\ log' = log \union {a} /\ stream' = stream \union {a} /\ nextId' = nextId + 1
      /\ a.id = nextId
  BY DEF XAdd
<1>2. \A x \in log : x.id \in Nat /\ 0 < x.id /\ x.id < nextId
  BY DEF TypeOK, Entry, EntriesConsistent
<1>. HIDE DEF a
<1>3. nextId \in Nat \ {0}
  BY DEF TypeOK
<1>4. \A x \in log' : 0 < x.id /\ x.id < nextId'
  BY <1>1, <1>2, <1>3
<1>5. \A x, y \in log' : x.id = y.id => x = y
  BY <1>1, <1>2, <1>3 DEF EntriesConsistent
<1>. QED BY <1>1, <1>4, <1>5 DEF EntriesConsistent

\* An XADD changes none of what threads and maintenance runs hold.
LEMMA XAddConsistent ==
  ASSUME TypeOK, EntriesConsistent, NEW e, NEW t, NEW r, NEW o, XAdd(e, t, r, o),
         UNCHANGED <<pending, lastRead, worker>>,
         \A m \in Maintainers :
           /\ maint'[m].ids \subseteq maint[m].ids
           /\ maint'[m].pc \in {"ackMissing", "addFailed", "ack", "del"} =>
                maint'[m].pc = maint[m].pc /\ maint'[m].msg = maint[m].msg
  PROVE  EntriesConsistent'
<1>1. \A m \in Maintainers : maint[m].ids \subseteq Nat /\ maint[m].msg.id \in Nat
  BY DEF TypeOK, MaintState, Entry
<1>2. nextId \in Nat /\ lastRead \in Nat
  BY DEF TypeOK
<1>. QED BY <1>1, <1>2, XAddEntry DEF EntriesConsistent

\* The entry IDs and what is held stay consistent in every step.
LEMMA EntriesStep == TypeOK /\ EntriesConsistent /\ [Next]_vars => EntriesConsistent'
<1> SUFFICES ASSUME TypeOK, EntriesConsistent, [Next]_vars PROVE EntriesConsistent'
  OBVIOUS
<1>0. /\ nextId \in Nat /\ nextId > 0 /\ lastRead \in Nat /\ pending \subseteq Nat
      /\ stream \subseteq Entry /\ log \subseteq Entry
      /\ worker \in [Workers -> WorkerState]
      /\ maint \in [Maintainers -> MaintState]
  BY DEF TypeOK
<1>. USE DEF redisVars, dbVars
<1>1. CASE UNCHANGED vars
  BY <1>1 DEF vars, EntriesConsistent
<1>2. ASSUME NEW e \in Events, Producer(e) PROVE EntriesConsistent'
  <2>1. CASE CreateEvent(e)
    BY <2>1 DEF CreateEvent, EntriesConsistent
  <2>2. CASE EmitEvent(e)
    <3>1. PICK t : XAdd(e, t, 0, 0)
      BY <2>2 DEF EmitEvent
    <3>. QED BY <2>2, <3>1, XAddConsistent DEF EmitEvent
  <2>3. CASE EmitEventFails(e)
    BY <2>3, Zenon DEF EmitEventFails, EntriesConsistent
  <2>. QED BY <1>2, <2>1, <2>2, <2>3 DEF Producer
<1>3. ASSUME NEW w \in Workers,
             WorkerStep(w) \/ AddToInFlightFails(w) \/ HandlerFails(w)
               \/ CompleteReadFails(w) \/ WorkerFault(w)
      PROVE  EntriesConsistent'
  <2>1. CASE ReadGroup(w)
    <3>1. PICK x \in stream :
            /\ lastRead < x.id /\ lastRead' = x.id
            /\ pending' = pending \union {x.id}
            /\ worker' = [worker EXCEPT ![w] =
                            [IdleWorker EXCEPT !.pc = "track", !.msg = x]]
      BY <2>1, Zenon DEF ReadGroup
    <3>2. x \in log /\ x.id \in Nat /\ x.id < nextId
      BY <1>0 DEF EntriesConsistent, Entry
    <3>3. \A v \in Workers : worker'[v].pc # "idle" => worker'[v].msg \in log'
      BY <1>0, <2>1, <3>1, <3>2 DEF ReadGroup, EntriesConsistent, WorkerState, IdleWorker
    <3>4. \A i \in pending' : i <= lastRead'
      BY <1>0, <3>1, <3>2 DEF EntriesConsistent
    <3>. QED BY <2>1, <3>1, <3>2, <3>3, <3>4, Zenon DEF ReadGroup, EntriesConsistent
  <2>2. CASE UNCHANGED <<nextId, lastRead, maint, log>>
             /\ stream' \subseteq stream /\ pending' \subseteq pending
             /\ \A v \in Workers : worker'[v].pc # "idle" =>
                  worker[v].pc # "idle" /\ worker'[v].msg = worker[v].msg
    BY <2>2, Zenon DEF EntriesConsistent
  <2>3. ASSUME (WorkerStep(w) /\ ~ReadGroup(w)) \/ AddToInFlightFails(w) \/ HandlerFails(w)
                 \/ CompleteReadFails(w) \/ WorkerFault(w)
        PROVE  /\ UNCHANGED <<nextId, lastRead, maint, log>>
               /\ stream' \subseteq stream /\ pending' \subseteq pending
    BY <2>3, Zenon DEF WorkerStep, AddToInFlight, AddToInFlightFails, HandlerSucceeds,
         HandlerFails, CompleteReadRetry, CompleteAddFailed, CompleteReadMessage,
         CompleteReadFails, CompleteAck, CompleteDel, CompleteMark, WorkerFault
  <2>4. ASSUME (WorkerStep(w) /\ ~ReadGroup(w)) \/ AddToInFlightFails(w) \/ HandlerFails(w)
                 \/ CompleteReadFails(w) \/ WorkerFault(w)
        PROVE  \A v \in Workers : worker'[v].pc # "idle" =>
                  worker[v].pc # "idle" /\ worker'[v].msg = worker[v].msg
    <3>1. CASE AddToInFlight(w) \/ AddToInFlightFails(w)
      <4>1. worker[w].pc = "track" /\ worker' = [worker EXCEPT ![w].pc = "run"]
        BY <3>1, Zenon DEF AddToInFlight, AddToInFlightFails
      <4>. QED BY <1>0, <4>1 DEF WorkerState
    <3>2. CASE HandlerSucceeds(w) \/ HandlerFails(w)
      BY <1>0, <3>2 DEF HandlerSucceeds, HandlerFails, WorkerState
    <3>3. CASE CompleteReadRetry(w)
      BY <1>0, <3>3 DEF CompleteReadRetry, WorkerState
    <3>4. CASE CompleteAddFailed(w)
      BY <1>0, <3>4 DEF CompleteAddFailed, WorkerState
    <3>5. CASE CompleteReadMessage(w)
      BY <1>0, <3>5 DEF CompleteReadMessage, Tracked, WorkerState
    <3>6. CASE CompleteReadFails(w)
      <4>1. /\ worker[w].pc \in {"readRetry", "readMessage"}
            /\ \/ worker' = [worker EXCEPT ![w] =
                               [@ EXCEPT !.pc = "addFailed", !.retry = 1]]
               \/ worker' = [worker EXCEPT ![w] = Tracked(@, NoEntry)]
        BY <3>6 DEF CompleteReadFails
      <4>2. CASE worker' = [worker EXCEPT ![w] =
                              [@ EXCEPT !.pc = "addFailed", !.retry = 1]]
        BY <1>0, <4>1, <4>2 DEF WorkerState
      <4>3. CASE worker' = [worker EXCEPT ![w] = Tracked(@, NoEntry)]
        BY <1>0, <4>1, <4>3 DEF WorkerState, Tracked
      <4>. QED BY <4>1, <4>2, <4>3
    <3>7. CASE CompleteAck(w)
      BY <1>0, <3>7 DEF CompleteAck, WorkerState
    <3>8. CASE CompleteDel(w)
      BY <1>0, <3>8 DEF CompleteDel, WorkerState, IdleWorker
    <3>9. CASE CompleteMark(w) \/ WorkerFault(w)
      BY <1>0, <3>9 DEF CompleteMark, WorkerFault, WorkerState, IdleWorker
    <3>. QED BY <2>4, <3>1, <3>2, <3>3, <3>4, <3>5, <3>6, <3>7, <3>8, <3>9 DEF WorkerStep
  <2>. QED BY <1>3, <2>1, <2>2, <2>3, <2>4
<1>4. ASSUME NEW m \in Maintainers,
             \/ \E ids \in SUBSET pending : StartMaintenance(m, ids)
             \/ \E due \in SUBSET failed : ScanFailed(m, due)
             \/ MaintStep(m) \/ GiveUpRemoveFails(m) \/ MaintCallFails(m) \/ MaintCrash(m)
      PROVE  EntriesConsistent'
  <2>. DEFINE Frame == /\ UNCHANGED <<nextId, lastRead, worker, log>>
                       /\ stream' \subseteq stream /\ pending' \subseteq pending
              Held1 == \A i \in maint[m].ids : i < nextId
              Held2 == /\ \A i \in maint'[m].ids : i < nextId
                       /\ maint'[m].pc = "ackMissing" => maint'[m].msg.id < nextId
                       /\ maint'[m].pc \in {"addFailed", "ack", "del"} =>
                            maint'[m].msg \in log
              Others == \A n \in Maintainers \ {m} : maint'[n] = maint[n]
  <2>0. /\ maint[m] \in MaintState
        /\ Held1
        /\ maint[m].ids \subseteq Nat
    BY <1>0 DEF EntriesConsistent, MaintState
  <2>a. ASSUME Frame, Held2, Others PROVE EntriesConsistent'
    BY <2>a DEF EntriesConsistent
  <2>1. ASSUME NEW ids \in SUBSET pending, StartMaintenance(m, ids) PROVE EntriesConsistent'
    <3>0. \A i \in pending : i <= lastRead /\ lastRead < nextId
      BY DEF EntriesConsistent
    <3>1. \A i \in ids : i < nextId
      BY <1>0, <3>0
    <3>2. CASE ids = {}
      <4>1. maint' = [maint EXCEPT ![m] =
                        [IdleMaint EXCEPT !.pc = "scanFailed", !.ids = ids]]
        BY <2>1, <3>2 DEF StartMaintenance
      <4>2. Held2 /\ Others
        BY <1>0, <3>1, <4>1 DEF IdleMaint, MaintState, NoMember
      <4>. QED BY <2>1, <2>a, <4>2 DEF StartMaintenance
    <3>3. CASE ids # {}
      <4>1. maint' = [maint EXCEPT ![m] =
                        [IdleMaint EXCEPT !.pc = "timedOut", !.ids = ids]]
        BY <2>1, <3>3, Zenon DEF StartMaintenance
      <4>2. Held2 /\ Others
        BY <1>0, <3>1, <4>1 DEF IdleMaint, MaintState
      <4>. QED BY <2>1, <2>a, <4>2 DEF StartMaintenance
    <3>. QED BY <3>2, <3>3
  <2>2. ASSUME NEW due \in SUBSET failed, ScanFailed(m, due) PROVE EntriesConsistent'
    <3>1. Held2 /\ Others
      BY <1>0, <2>2 DEF ScanFailed, IdleMaint, MaintState
    <3>. QED BY <2>2, <2>a, <3>1 DEF ScanFailed
  <2>3. CASE TimedOutRead(m)
    <3>1. PICK i \in maint[m].ids :
            \/ maint' = [maint EXCEPT ![m].pc = "ackMissing",
                           ![m].ids = @ \ {i}, ![m].msg = [NoEntry EXCEPT !.id = i]]
            \/ \E x \in stream :
                 maint' = [maint EXCEPT ![m].pc = "addFailed",
                             ![m].ids = @ \ {i}, ![m].msg = x]
      BY <2>3, Zenon DEF TimedOutRead, XRange
    <3>2. CASE maint' = [maint EXCEPT ![m].pc = "ackMissing",
                           ![m].ids = @ \ {i}, ![m].msg = [NoEntry EXCEPT !.id = i]]
      <4>1. Held2 /\ Others
        BY <1>0, <2>0, <3>2 DEF NoEntry, MaintState
      <4>. QED BY <2>3, <2>a, <4>1 DEF TimedOutRead
    <3>3. ASSUME NEW x \in stream,
                 maint' = [maint EXCEPT ![m].pc = "addFailed",
                             ![m].ids = @ \ {i}, ![m].msg = x]
          PROVE  EntriesConsistent'
      <4>1. Held2 /\ Others
        BY <1>0, <2>0, <3>3 DEF EntriesConsistent, MaintState
      <4>. QED BY <2>3, <2>a, <4>1 DEF TimedOutRead
    <3>. QED BY <3>1, <3>2, <3>3
  <2>4. CASE TimedOutAckMissing(m)
    <3>1. Held2 /\ Others
      BY <1>0, <2>0, <2>4 DEF TimedOutAckMissing, NextTimedOut, MaintState
    <3>. QED BY <2>4, <2>a, <3>1 DEF TimedOutAckMissing
  <2>5. CASE TimedOutAddFailed(m) \/ TimedOutAck(m)
    <3>1. Held2 /\ Others
      BY <1>0, <2>0, <2>5 DEF TimedOutAddFailed, TimedOutAck, EntriesConsistent, MaintState
    <3>. QED BY <2>5, <2>a, <3>1 DEF TimedOutAddFailed, TimedOutAck
  <2>6. CASE TimedOutDel(m)
    <3>1. Held2 /\ Others
      BY <1>0, <2>0, <2>6, Zenon DEF TimedOutDel, NextTimedOut, MaintState
    <3>. QED BY <2>6, <2>a, <3>1 DEF TimedOutDel
  <2>7. CASE GiveUp(m) \/ GiveUpRemoveFails(m)
    <3>1. PICK f : maint' = [maint EXCEPT ![m].pc = "markFailed", ![m].due = @ \ {f},
                                          ![m].member = f]
      BY <2>7, Zenon DEF GiveUp, GiveUpRemoveFails
    <3>2. Held2 /\ Others
      BY <1>0, <2>0, <3>1 DEF MaintState
    <3>. QED BY <2>7, <2>a, <3>2, ZenonT(60) DEF GiveUp, GiveUpRemoveFails
  <2>8. CASE GiveUpMark(m) \/ Restore(m)
    <3>1. maint' = [maint EXCEPT ![m] = NextRetry(@, @.due)]
      BY <2>8 DEF GiveUpMark, Restore
    <3>2. Held2 /\ Others
      BY <1>0, <2>0, <3>1 DEF NextRetry, MaintState
    <3>. QED BY <2>8, <2>a, <3>2 DEF GiveUpMark, Restore
  <2>9. CASE Claim(m)
    <3>1. PICK f :
            \/ maint' = [maint EXCEPT ![m].pc = "requeue", ![m].due = @ \ {f},
                                      ![m].member = f]
            \/ maint' = [maint EXCEPT ![m] = NextRetry(@, @.due \ {f})]
      BY <2>9, Zenon DEF Claim
    <3>2. CASE maint' = [maint EXCEPT ![m].pc = "requeue", ![m].due = @ \ {f},
                                      ![m].member = f]
      BY <1>0, <2>0, <2>9, <2>a, <3>2 DEF Claim, MaintState
    <3>3. CASE maint' = [maint EXCEPT ![m] = NextRetry(@, @.due \ {f})]
      BY <1>0, <2>0, <2>9, <2>a, <3>3 DEF Claim, NextRetry, MaintState
    <3>. QED BY <3>1, <3>2, <3>3, Zenon
  <2>10. CASE Requeue(m)
    <3>1. maint'[m].ids = maint[m].ids /\ maint'[m].pc \in {"advance", "retry"} /\ Others
      BY <1>0, <2>0, <2>10 DEF Requeue, NextRetry, MaintState
    <3>. QED BY <2>10, <3>1, XAddConsistent DEF Requeue
  <2>11. CASE Republish(m)
    <3>1. PICK e \in Oldest(maint[m].evs) :
            /\ XAdd(e, created[e], 0, 0)
            /\ maint' = [maint EXCEPT ![m] = NextRepublish(@, e)]
      BY <2>11, ZenonT(60) DEF Republish
    <3>2. /\ maint'[m].ids = maint[m].ids
          /\ maint'[m].pc \in {"resetCheckpoint", "republish"}
          /\ Others
      BY <1>0, <2>0, <3>1 DEF NextRepublish, MaintState
    <3>. QED BY <2>11, <3>1, <3>2, XAddConsistent DEF Republish
  <2>12. CASE AdvanceCheckpoint(m) \/ CheckpointMissing(m)
    <3>1. Held2 /\ Others
      BY <1>0, <2>0, <2>12 DEF AdvanceCheckpoint, CheckpointMissing, MaintState, IdleMaint
    <3>. QED BY <2>12, <2>a, <3>1 DEF AdvanceCheckpoint, CheckpointMissing
  <2>13. CASE Recover(m) \/ ResetCheckpoint(m)
    <3>1. Held2 /\ Others
      BY <1>0, <2>0, <2>13 DEF Recover, ResetCheckpoint, MaintState
    <3>. QED BY <2>13, <2>a, <3>1 DEF Recover, ResetCheckpoint
  <2>14. CASE ReadCheckpoint(m) \/ SaveCheckpoint(m) \/ MaintCrash(m)
    <3>1. \/ maint' = [maint EXCEPT ![m] = IdleMaint]
          \/ \E v : maint' = [maint EXCEPT ![m] =
                                [@ EXCEPT !.pc = "saveCheckpoint", !.value = v]]
      BY <2>14, Zenon DEF ReadCheckpoint, SaveCheckpoint, MaintCrash
    <3>2. Held2 /\ Others
      <4>1. CASE maint' = [maint EXCEPT ![m] = IdleMaint]
        BY <1>0, <4>1 DEF IdleMaint
      <4>2. ASSUME NEW v, maint' = [maint EXCEPT ![m] =
                                      [@ EXCEPT !.pc = "saveCheckpoint", !.value = v]]
            PROVE  Held2 /\ Others
        BY <1>0, <2>0, <4>2, Zenon DEF MaintState
      <4>. QED BY <3>1, <4>1, <4>2, Zenon
    <3>. QED BY <2>14, <2>a, <3>2 DEF ReadCheckpoint, SaveCheckpoint, MaintCrash
  <2>15. CASE MaintCallFails(m)
    <3>1. PICK t : /\ maint' = [maint EXCEPT ![m] = t]
                   /\ t.ids \subseteq maint[m].ids
                   /\ t.pc = "ackMissing" => t.msg.id \in maint[m].ids
                   /\ t.pc \notin {"addFailed", "ack", "del"}
      <4>. DEFINE s == maint[m]
                  Fine(t) == /\ t.ids \subseteq s.ids
                             /\ t.pc = "ackMissing" => t.msg.id \in s.ids
                             /\ t.pc \notin {"addFailed", "ack", "del"}
      <4>1. Fine(NextTimedOut(s)) /\ \A due : Fine(NextRetry(s, due))
        BY <2>0 DEF NextTimedOut, NextRetry, MaintState
      <4>2. \A i \in s.ids : Fine([s EXCEPT !.pc = "ackMissing", !.ids = @ \ {i},
                                            !.msg = [NoEntry EXCEPT !.id = i]])
        BY <2>0 DEF NoEntry, MaintState
      <4>3. /\ Fine(IdleMaint)
            /\ \A p \in {"advance", "readCheckpoint", "resetCheckpoint"} :
                 Fine([IdleMaint EXCEPT !.pc = p])
        BY DEF IdleMaint
      <4>4. Fine([s EXCEPT !.pc = "restore"]) /\ \A e : Fine(NextRepublish(s, e))
        BY <2>0 DEF NextRepublish, MaintState
      <4>5. PICK t : maint' = [maint EXCEPT ![m] = t] /\ Fine(t)
        <5>. HIDE DEF Fine
        <5>. QED BY <2>15, <4>1, <4>2, <4>3, <4>4, Zenon DEF MaintCallFails
      <4>. QED BY <4>5, Zenon
    <3>2. Held2 /\ Others
      BY <1>0, <2>0, <3>1
    <3>. QED BY <2>15, <2>a, <3>2, Zenon DEF MaintCallFails
  <2>. QED
    BY <1>4, <2>1, <2>2, <2>3, <2>4, <2>5, <2>6, <2>7, <2>8, <2>9, <2>10, <2>11,
       <2>12, <2>13, <2>14, <2>15 DEF MaintStep
<1>5. CASE RedisLoss
  BY <1>5 DEF RedisLoss, EntriesConsistent, TypeOK
<1>. QED BY <1>1, <1>2, <1>3, <1>4, <1>5 DEF Next

\* What a step may make of the failed members a maintenance run has read or claimed.
MembersHeld(n) ==
  /\ maint'[n].due \subseteq maint[n].due \union failed
  /\ maint'[n].member \in maint[n].due \union {maint[n].member, NoMember}
  /\ maint'[n].pc \in {"requeue", "restore"} =>
       \/ maint'[n].member \in maint[n].due
       \/ maint[n].pc \in {"requeue", "restore"} /\ maint'[n].member = maint[n].member

\* What a step may make of the failed set: a new member names an entry of the stream
\* or is a claimed one put back.
FailedFrom ==
  \A f \in failed' :
    \/ f \in failed
    \/ \E x \in log : f.id = x.id /\ f.ev = x.ev
    \/ \E n \in Maintainers : maint[n].pc = "restore" /\ f = maint[n].member

MembersChange ==
  nextId' \in {nextId, nextId + 1} /\ FailedFrom /\ \A n \in Maintainers : MembersHeld(n)

\* Every failed member, due or claimed ones included, comes from an entry.
LEMMA MembersFrom == TypeOK /\ EntriesConsistent /\ [Next]_vars => MembersChange
<1> SUFFICES ASSUME TypeOK, EntriesConsistent, [Next]_vars PROVE MembersChange
  OBVIOUS
<1>. USE DEF MembersHeld, FailedFrom
<1>0. /\ nextId \in Nat /\ nextId > 0 /\ NoMember.id = 0
      /\ \A f \in failed : f.id \in Nat
      /\ \A x \in log : x.id \in Nat
      /\ worker \in [Workers -> WorkerState]
      /\ maint \in [Maintainers -> MaintState]
      /\ \A n \in Maintainers : maint[n].member.id \in Nat
      /\ \A n \in Maintainers : \A f \in maint[n].due : f.id \in Nat
  BY DEF TypeOK, FailedMember, Entry, MaintState, NoMember
<1>a. ASSUME nextId' \in {nextId, nextId + 1}, FailedFrom, \A n \in Maintainers : MembersHeld(n)
      PROVE  MembersChange
  BY <1>a DEF MembersChange
<1>b. ASSUME UNCHANGED <<failed, maint>> PROVE FailedFrom /\ \A n \in Maintainers : MembersHeld(n)
  BY <1>b, Zenon
<1>. USE DEF redisVars, dbVars
<1>1. CASE UNCHANGED vars
  BY <1>1, <1>a DEF vars
<1>2. ASSUME NEW e \in Events, Producer(e) PROVE MembersChange
  <2>1. UNCHANGED <<failed, maint>> /\ nextId' \in {nextId, nextId + 1}
    BY <1>2 DEF Producer, CreateEvent, EmitEvent, EmitEventFails, XAdd
  <2>. QED BY <1>a, <1>b, <2>1
<1>3. ASSUME NEW w \in Workers,
             WorkerStep(w) \/ AddToInFlightFails(w) \/ HandlerFails(w)
               \/ CompleteReadFails(w) \/ WorkerFault(w)
      PROVE  MembersChange
  <2>1. CASE CompleteAddFailed(w)
    <3>1. worker[w].msg \in log
      BY <2>1 DEF CompleteAddFailed, EntriesConsistent
    <3>. QED BY <1>a, <2>1, <3>1 DEF CompleteAddFailed
  <2>2. CASE ~CompleteAddFailed(w)
    <3>1. UNCHANGED <<failed, maint, nextId>>
      BY <1>3, <2>2, Zenon DEF WorkerStep, ReadGroup, AddToInFlight, AddToInFlightFails,
           HandlerSucceeds, HandlerFails, CompleteReadRetry, CompleteReadMessage,
           CompleteReadFails, CompleteAck, CompleteDel, CompleteMark, WorkerFault
    <3>. QED BY <1>a, <1>b, <3>1, Zenon
  <2>. QED BY <2>1, <2>2
<1>4. ASSUME NEW m \in Maintainers,
             \/ \E ids \in SUBSET pending : StartMaintenance(m, ids)
             \/ \E due \in SUBSET failed : ScanFailed(m, due)
             \/ MaintStep(m) \/ GiveUpRemoveFails(m) \/ MaintCallFails(m) \/ MaintCrash(m)
      PROVE  MembersChange
  <2>. DEFINE s == maint[m]
              Others == \A n \in Maintainers \ {m} : maint'[n] = maint[n]
              Claims == {"requeue", "restore"}
  <2>0. s \in MaintState
    BY <1>0
  <2>a. ASSUME nextId' \in {nextId, nextId + 1}, failed' \subseteq failed, MembersHeld(m), Others
        PROVE  MembersChange
    BY <1>a, <2>a
  <2>b. ASSUME NEW t, maint' = [maint EXCEPT ![m] = t], t.due = s.due \/ t.due = {},
               t.member = s.member \/ t.member = NoMember, t.pc \notin Claims
        PROVE  MembersHeld(m) /\ Others
    BY <1>0, <2>b
  <2>c. /\ NextTimedOut(s).due = s.due /\ NextTimedOut(s).member = s.member
        /\ NextRetry(s, s.due).due = s.due /\ NextRetry(s, s.due).member = NoMember
        /\ \A e : NextRepublish(s, e).due = s.due /\ NextRepublish(s, e).member = s.member
        /\ \A f : /\ NextRetry(s, s.due \ {f}).due = s.due \ {f}
                  /\ NextRetry(s, s.due \ {f}).member = NoMember
        /\ IdleMaint.due = {} /\ IdleMaint.member = NoMember /\ IdleMaint.pc \notin Claims
        /\ NextTimedOut(s).pc \notin Claims
        /\ \A due : NextRetry(s, due).pc \notin Claims
        /\ \A e : NextRepublish(s, e).pc \notin Claims
        /\ \A p : [IdleMaint EXCEPT !.pc = p].pc = p
        /\ \A p : /\ [IdleMaint EXCEPT !.pc = p].due = {}
                  /\ [IdleMaint EXCEPT !.pc = p].member = NoMember
    BY <2>0 DEF NextTimedOut, NextRetry, NextRepublish, IdleMaint, MaintState
  <2>1. ASSUME NEW ids \in SUBSET pending, StartMaintenance(m, ids) PROVE MembersChange
    <3>1. MembersHeld(m) /\ Others
      BY <1>0, <2>1 DEF StartMaintenance, IdleMaint, MaintState
    <3>. QED BY <2>1, <2>a, <3>1 DEF StartMaintenance
  <2>2. ASSUME NEW due \in SUBSET failed, ScanFailed(m, due) PROVE MembersChange
    <3>1. MembersHeld(m) /\ Others
      BY <1>0, <2>2 DEF ScanFailed, IdleMaint, MaintState
    <3>. QED BY <2>2, <2>a, <3>1 DEF ScanFailed
  <2>3. CASE TimedOutRead(m)
    <3>1. MembersHeld(m) /\ Others
      BY <1>0, <2>3 DEF TimedOutRead, MaintState
    <3>. QED BY <2>3, <2>a, <3>1 DEF TimedOutRead
  <2>4. CASE TimedOutAckMissing(m)
    BY <2>4, <2>a, <2>b, <2>c DEF TimedOutAckMissing
  <2>5. CASE TimedOutAddFailed(m)
    <3>1. MembersHeld(m) /\ Others
      BY <1>0, <2>5 DEF TimedOutAddFailed, MaintState
    <3>2. s.msg \in log
      BY <2>5 DEF TimedOutAddFailed, EntriesConsistent
    <3>. QED BY <1>a, <2>5, <3>1, <3>2 DEF TimedOutAddFailed
  <2>6. CASE TimedOutAck(m)
    <3>1. MembersHeld(m) /\ Others
      BY <1>0, <2>6 DEF TimedOutAck, MaintState
    <3>. QED BY <2>6, <2>a, <3>1 DEF TimedOutAck
  <2>7. CASE TimedOutDel(m)
    BY <2>7, <2>a, <2>b, <2>c, Zenon DEF TimedOutDel
  <2>8. CASE GiveUp(m) \/ GiveUpRemoveFails(m)
    <3>1. PICK f \in s.due :
            maint' = [maint EXCEPT ![m].pc = "markFailed", ![m].due = @ \ {f},
                                   ![m].member = f]
      BY <2>8, Zenon DEF GiveUp, GiveUpRemoveFails
    <3>2. MembersHeld(m) /\ Others
      BY <1>0, <2>0, <3>1 DEF MaintState
    <3>. QED BY <2>8, <2>a, <3>2, ZenonT(60) DEF GiveUp, GiveUpRemoveFails
  <2>9. CASE GiveUpMark(m)
    BY <2>9, <2>a, <2>b, <2>c DEF GiveUpMark
  <2>10. CASE Claim(m)
    <3>1. PICK f \in s.due :
            \/ maint' = [maint EXCEPT ![m].pc = "requeue", ![m].due = @ \ {f},
                                      ![m].member = f]
            \/ maint' = [maint EXCEPT ![m] = NextRetry(@, @.due \ {f})]
      BY <2>10, Zenon DEF Claim
    <3>2. CASE maint' = [maint EXCEPT ![m].pc = "requeue", ![m].due = @ \ {f},
                                      ![m].member = f]
      <4>1. MembersHeld(m) /\ Others
        BY <1>0, <2>0, <3>2 DEF MaintState
      <4>. QED BY <2>10, <2>a, <4>1 DEF Claim
    <3>3. CASE maint' = [maint EXCEPT ![m] = NextRetry(@, @.due \ {f})]
      <4>1. MembersHeld(m) /\ Others
        BY <1>0, <2>c, <3>3, Zenon
      <4>. QED BY <2>10, <2>a, <4>1 DEF Claim
    <3>. QED BY <3>1, <3>2, <3>3, Zenon
  <2>11. CASE Requeue(m)
    BY <2>11, <2>a, <2>b, <2>c, SMTT(30) DEF Requeue, XAdd
  <2>12. CASE Restore(m)
    <3>1. MembersHeld(m) /\ Others
      BY <2>12, <2>b, <2>c DEF Restore
    <3>. QED BY <1>a, <2>12, <3>1 DEF Restore
  <2>13. CASE AdvanceCheckpoint(m) \/ CheckpointMissing(m)
    <3>1. PICK p \in {"recover", "readCheckpoint"} :
            maint' = [maint EXCEPT ![m] = [IdleMaint EXCEPT !.pc = p]]
      BY <2>13 DEF AdvanceCheckpoint, CheckpointMissing
    <3>. QED BY <2>13, <2>a, <2>b, <2>c, <3>1 DEF AdvanceCheckpoint, CheckpointMissing
  <2>14. CASE Recover(m) \/ ResetCheckpoint(m)
    <3>1. MembersHeld(m) /\ Others
      BY <1>0, <2>14 DEF Recover, ResetCheckpoint, MaintState
    <3>. QED BY <2>14, <2>a, <3>1 DEF Recover, ResetCheckpoint
  <2>15. CASE Republish(m)
    <3>1. PICK e : /\ XAdd(e, created[e], 0, 0)
                   /\ maint' = [maint EXCEPT ![m] = NextRepublish(@, e)]
      BY <2>15, Zenon DEF Republish
    <3>. QED BY <2>15, <2>a, <2>b, <2>c, <3>1 DEF Republish, XAdd
  <2>16. CASE ReadCheckpoint(m) \/ SaveCheckpoint(m) \/ MaintCrash(m)
    <3>1. \/ maint' = [maint EXCEPT ![m] = IdleMaint]
          \/ \E v : maint' = [maint EXCEPT ![m] =
                                [@ EXCEPT !.pc = "saveCheckpoint", !.value = v]]
      BY <2>16, Zenon DEF ReadCheckpoint, SaveCheckpoint, MaintCrash
    <3>2. \A v : LET t == [s EXCEPT !.pc = "saveCheckpoint", !.value = v]
                 IN  t.due = s.due /\ t.member = s.member /\ t.pc = "saveCheckpoint"
      BY <2>0, Zenon DEF MaintState
    <3>3. MembersHeld(m) /\ Others
      BY <2>b, <2>c, <3>1, <3>2, ZenonT(60)
    <3>. QED BY <2>16, <2>a, <3>3 DEF ReadCheckpoint, SaveCheckpoint, MaintCrash
  <2>17. CASE MaintCallFails(m)
    <3>. DEFINE Fine(t) == /\ t.due \subseteq s.due
                           /\ t.member = s.member \/ t.member = NoMember
                           /\ t.pc \in Claims => s.pc \in Claims /\ t.member = s.member
    <3>1. /\ Fine(NextTimedOut(s)) /\ Fine(NextRetry(s, s.due)) /\ Fine(IdleMaint)
          /\ \A f : Fine(NextRetry(s, s.due \ {f}))
          /\ \A e : Fine(NextRepublish(s, e))
          /\ \A p : p \notin Claims => Fine([IdleMaint EXCEPT !.pc = p])
      BY <2>c, Zenon
    <3>2. /\ s.pc = "requeue" => Fine([s EXCEPT !.pc = "restore"])
          /\ \A i : Fine([s EXCEPT !.pc = "ackMissing", !.ids = @ \ {i},
                                   !.msg = [NoEntry EXCEPT !.id = i]])
      BY <2>0 DEF MaintState
    <3>3. PICK t : maint' = [maint EXCEPT ![m] = t] /\ Fine(t)
      <4>. HIDE DEF Fine
      <4>. QED BY <2>17, <3>1, <3>2, Zenon DEF MaintCallFails
    <3>4. MembersHeld(m) /\ Others
      BY <1>0, <3>3
    <3>. QED BY <2>17, <2>a, <3>4, Zenon DEF MaintCallFails
  <2>. QED
    BY <1>4, <2>1, <2>2, <2>3, <2>4, <2>5, <2>6, <2>7, <2>8, <2>9, <2>10, <2>11,
       <2>12, <2>13, <2>14, <2>15, <2>16, <2>17, Zenon DEF MaintStep
<1>5. CASE RedisLoss
  BY <1>5, <1>a, <1>b DEF RedisLoss
<1>. QED BY <1>1, <1>2, <1>3, <1>4, <1>5 DEF Next

\* Failed members, due or claimed ones included, go on naming entries of the stream.
LEMMA MembersStep ==
  TypeOK /\ EntriesConsistent /\ MembersConsistent /\ [Next]_vars => MembersConsistent'
<1> SUFFICES ASSUME TypeOK, EntriesConsistent, MembersConsistent, [Next]_vars
             PROVE  MembersConsistent'
  OBVIOUS
<1>1. /\ nextId \in Nat /\ nextId > 0 /\ NoMember.id = 0
      /\ \A f \in failed : f.id \in Nat
      /\ \A x \in log : x.id \in Nat
      /\ \A n \in Maintainers : maint[n].member.id \in Nat
      /\ \A n \in Maintainers : \A f \in maint[n].due : f.id \in Nat
  BY DEF TypeOK, FailedMember, Entry, MaintState, NoMember
<1>2. MembersChange
  BY MembersFrom
<1>. QED
  BY <1>1, <1>2 DEF MembersChange, FailedFrom, MembersHeld, MembersConsistent,
       EntriesConsistent

=============================================================================
