-------------------------- MODULE TaskQueueBarrier --------------------------
(* A task that fails holds the checkpoint back until it is retried or given *)
(* up on, for any number of events, threads and maintainers, as long as no  *)
(* thread lags behind what it has read: BarrierInv is inductive under that  *)
(* condition and implies FailedTaskIsBarrier.                               *)
EXTENDS TaskQueueProofs

\* The condition of FailedTaskIsBarrier.
NoLag == faults["worker"] + faults["slow"] + faults["maint"] + faults["loss"] = 0

\* The task an entry is tracked as, and whether that task is incomplete.
TaskOf(x) == IF x.orig # 0 THEN x.orig ELSE x.id
Open(tasks, i) == \E t \in tasks : t.id = i /\ ~t.done

\* The member Complete writes for an entry: while no thread lags there is no other.
MemberOf(x) == [id |-> x.id, ev |-> x.ev, retry |-> x.retry + 1, by |-> "worker"]

\* Complete has written the member of the entry that the thread holds.
Recorded(s) == s.err /\ s.pc \in {"readMessage", "ack", "del"}

\* The entry was delivered, and a thread that still holds it has written its member.
Over(i) ==
  /\ i <= lastRead
  /\ \A w \in Workers : worker[w].pc # "idle" /\ worker[w].msg.id = i => Recorded(worker[w])

\* What a thread knows of the message it holds is what the stream says of it, and only a
\* task that did not fail is about to be marked complete.
Fit(s) ==
  /\ s.pc \in {"readRetry", "addFailed"} => s.err
  /\ s.pc = "addFailed" => s.retry = s.msg.retry + 1
  /\ s.pc \in {"ack", "del", "mark"} => s.track = TaskOf(s.msg)
  /\ s.pc = "mark" => ~s.err

\* Every pending entry is in the hands of one thread that has yet to acknowledge it, and
\* stays in the stream until that thread deletes it.
Holding ==
  /\ \A v, w \in Workers : v # w /\ worker[v].pc # "idle" /\ worker[w].pc # "idle"
       => worker[v].msg.id # worker[w].msg.id
  /\ \A i \in pending : \E w \in Workers :
       worker[w].pc \notin {"idle", "del", "mark"} /\ worker[w].msg.id = i
  /\ \A w \in Workers :
       /\ worker[w].pc # "idle" => worker[w].msg.id <= lastRead
       /\ worker[w].pc \notin {"idle", "mark"} => worker[w].msg \in stream
       /\ Fit(worker[w])

\* No maintenance run finds an entry that timed out.
Calm ==
  \A m \in Maintainers :
    /\ maint[m].ids = {}
    /\ maint[m].pc \notin {"timedOut", "ackMissing", "addFailed", "ack", "del", "restore"}

\* A failed member is the one of an entry that is over; a retry is that of such a
\* member and has retries left.
MemberOK(f) == Over(f.id) /\ \E x \in log : f = MemberOf(x)
RetryOK(y) ==
  /\ Over(y.orig)
  /\ \E x \in log : x.id = y.orig /\ x.ev = y.ev /\ y.retry = x.retry + 1
  /\ y.retry < MaxRetries
Claimed(m) == maint[m].pc \in {"requeue", "markFailed"}
Origins ==
  /\ \A f \in failed : MemberOK(f)
  /\ \A m \in Maintainers : /\ \A f \in maint[m].due : MemberOK(f)
                            /\ Claimed(m) => MemberOK(maint[m].member)
  /\ \A y \in log : y.orig # 0 => RetryOK(y)

\* A member waits, is claimed for its one retry, has been retried or was given up.
Once ==
  /\ \A m \in Maintainers : Claimed(m) => \A f \in failed : f.id # maint[m].member.id
  /\ \A m \in Maintainers : maint[m].pc = "markFailed" => maint[m].member.retry >= MaxRetries
  /\ \A m \in Maintainers : maint[m].pc = "requeue" =>
       /\ maint[m].member.retry < MaxRetries
       /\ \A y \in log : y.orig # maint[m].member.id
       /\ \A n \in Maintainers : n # m /\ maint[n].pc = "requeue"
            => maint[n].member.id # maint[m].member.id
  /\ \A y \in log : y.orig # 0 => \A f \in failed : f.id # y.orig
  /\ \A y, z \in log : y.orig # 0 /\ y.orig = z.orig => y = z

\* The task of an entry that is being handled, or that failed and waits, is incomplete.
Barriers ==
  /\ \A w \in Workers : worker[w].pc \in {"run", "readRetry", "addFailed"}
       => Open(inFlight, TaskOf(worker[w].msg))
  /\ \A f \in failed : \A x \in log : x.id = f.id => Open(inFlight, TaskOf(x))

BarrierInv == NoLag => Holding /\ Calm /\ Origins /\ Once /\ Barriers

\* No step takes a fault back.
LEMMA NoLagBack ==
  ASSUME TypeOK, TypeOK', [Next]_vars, NoLag'
  PROVE  /\ NoLag
         /\ \A k \in {"worker", "slow", "maint", "loss"} : ~Fault(k)
<1>. DEFINE K == {"worker", "slow", "maint", "loss"}
            Counted == UNCHANGED faults \/ \E k \in FaultKinds : Fault(k)
<1>0. /\ faults \in [FaultKinds -> Nat] /\ faults' \in [FaultKinds -> Nat]
      /\ K \subseteq FaultKinds
  BY DEF TypeOK, FaultKinds
<1>1. \A k \in K : faults'[k] = 0
  <2>1. /\ faults'["worker"] \in Nat /\ faults'["slow"] \in Nat
        /\ faults'["maint"] \in Nat /\ faults'["loss"] \in Nat
    BY <1>0
  <2>2. faults'["worker"] + faults'["slow"] + faults'["maint"] + faults'["loss"] = 0
    BY Zenon DEF NoLag
  <2>3. \A a, b, c, d \in Nat : a + b + c + d = 0 => a = 0 /\ b = 0 /\ c = 0 /\ d = 0
    OBVIOUS
  <2>4. /\ faults'["worker"] = 0 /\ faults'["slow"] = 0
        /\ faults'["maint"] = 0 /\ faults'["loss"] = 0
    BY <2>1, <2>2, <2>3, Zenon
  <2>. QED BY <2>4, Zenon
<1>2. \A k \in K : ~Fault(k)
  BY <1>0, <1>1, FaultType
<1>3. Counted
  <2>. USE DEF FaultKinds
  <2>1. CASE UNCHANGED vars
    BY <2>1 DEF vars
  <2>2. ASSUME NEW e \in Events, Producer(e) PROVE Counted
    BY <2>2 DEF Producer, CreateEvent, EmitEvent, EmitEventFails
  <2>3. ASSUME NEW w \in Workers,
               \/ WorkerStep(w) \/ AddToInFlightFails(w) \/ HandlerFails(w)
               \/ CompleteReadFails(w) \/ WorkerFault(w)
        PROVE  Counted
    BY <2>3, Zenon DEF WorkerStep, ReadGroup, AddToInFlight, HandlerSucceeds, CompleteReadRetry,
       CompleteAddFailed, CompleteReadMessage, CompleteAck, CompleteDel, CompleteMark,
       AddToInFlightFails, HandlerFails, CompleteReadFails, WorkerFault
  <2>4. ASSUME NEW m \in Maintainers, MaintStep(m) PROVE UNCHANGED faults
    BY <2>4, Zenon DEF MaintStep, TimedOutRead, TimedOutAckMissing, TimedOutAddFailed, TimedOutAck,
       TimedOutDel, GiveUp, GiveUpMark, Claim, Requeue, Restore, AdvanceCheckpoint,
       CheckpointMissing, Recover, Republish, ResetCheckpoint, ReadCheckpoint, SaveCheckpoint
  <2>5. ASSUME NEW m \in Maintainers,
               \/ \E ids \in SUBSET pending : StartMaintenance(m, ids)
               \/ \E due \in SUBSET failed : ScanFailed(m, due)
               \/ GiveUpRemoveFails(m) \/ MaintCallFails(m) \/ MaintCrash(m)
        PROVE  Counted
    BY <2>5, Zenon DEF StartMaintenance, ScanFailed, GiveUpRemoveFails, MaintCallFails, MaintCrash
  <2>6. CASE RedisLoss
    BY <2>6 DEF RedisLoss
  <2>. QED BY <2>1, <2>2, <2>3, <2>4, <2>5, <2>6 DEF Next
<1>4. \A k \in K : faults[k] = 0
  <2>1. ASSUME NEW j \in FaultKinds, Fault(j) PROVE \A k \in K : faults[k] = 0
    BY <1>0, <1>1, <1>2, <2>1 DEF Fault
  <2>. QED BY <1>1, <1>3, <2>1
<1>. QED BY <1>2, <1>4 DEF NoLag

\* What a step may make of the entry a thread holds.
HoldsOn(w) ==
  worker'[w].pc # "idle" =>
    \/ /\ worker[w].pc # "idle" /\ worker'[w].msg = worker[w].msg
       /\ Recorded(worker[w]) => Recorded(worker'[w])
    \/ worker'[w].msg.id > lastRead

\* An entry that is over stays so.
LEMMA OverKept ==
  ASSUME TypeOK, TypeOK', lastRead <= lastRead', \A w \in Workers : HoldsOn(w)
  PROVE  \A i \in Nat : Over(i) => Over(i)'
<1>. SUFFICES ASSUME NEW i \in Nat, Over(i) PROVE Over(i)'
  OBVIOUS
<1>1. lastRead \in Nat /\ lastRead' \in Nat /\ i <= lastRead /\ i <= lastRead'
  BY DEF TypeOK, Over
<1>2. ASSUME NEW w \in Workers, worker'[w].pc # "idle", worker'[w].msg.id = i
      PROVE  Recorded(worker'[w])
  <2>1. ~(worker'[w].msg.id > lastRead)
    BY <1>1, <1>2
  <2>. QED BY <1>2, <2>1, Zenon DEF HoldsOn, Over
<1>. QED BY <1>1, <1>2, Zenon DEF Over, Recorded

\* What a step may make of the members a maintenance run holds.
ClaimsOn(m) ==
  /\ maint'[m].ids = {}
  /\ maint'[m].pc \notin {"timedOut", "ackMissing", "addFailed", "ack", "del", "restore"}
  /\ maint'[m].due \subseteq maint[m].due \union failed
  /\ maint'[m].pc \in {"requeue", "markFailed"} =>
       \/ maint'[m].pc = maint[m].pc /\ maint'[m].member = maint[m].member
       \/ maint'[m].member \in maint[m].due

\* Members and retries keep their origin.
LEMMA OriginsKept ==
  ASSUME TypeOK, TypeOK', Origins, lastRead <= lastRead', \A w \in Workers : HoldsOn(w),
         log \subseteq log', \A m \in Maintainers : ClaimsOn(m),
         \A f \in failed' : f \in failed \/ MemberOK(f)',
         \A y \in log' : y \in log \/ y.orig = 0 \/ RetryOK(y)'
  PROVE  Calm' /\ Origins'
<1>1. \A i \in Nat : Over(i) => Over(i)'
  BY OverKept
<1>2. \A x \in log : x.id \in Nat /\ x.orig \in Nat
  BY DEF TypeOK, Entry
<1>3. ASSUME NEW f, MemberOK(f) PROVE MemberOK(f)'
  <2>1. PICK x \in log : f = MemberOf(x)
    BY <1>3, Zenon DEF MemberOK
  <2>2. f.id \in Nat
    BY <1>2, <2>1 DEF MemberOf
  <2>3. Over(f.id)'
    BY <1>1, <1>3, <2>2, Zenon DEF MemberOK
  <2>. QED BY <2>1, <2>3, Zenon DEF MemberOK
<1>4. ASSUME NEW y \in log, y.orig # 0 PROVE RetryOK(y)'
  <2>1. RetryOK(y)
    BY <1>4, Zenon DEF Origins
  <2>2. Over(y.orig)'
    BY <1>1, <1>2, <2>1, Zenon DEF RetryOK
  <2>. QED BY <2>1, <2>2, Zenon DEF RetryOK
<1>5. \A f \in failed' : MemberOK(f)'
  BY <1>3, Zenon DEF Origins
<1>6. ASSUME NEW m \in Maintainers
      PROVE  /\ \A f \in maint'[m].due : MemberOK(f)'
             /\ Claimed(m)' => MemberOK(maint[m].member)'
  <2>1. \A f \in maint'[m].due : MemberOK(f)'
    <3>1. \A f \in maint'[m].due : f \in maint[m].due \/ f \in failed
      BY Zenon DEF ClaimsOn
    <3>. QED BY <1>3, <3>1, Zenon DEF Origins
  <2>2. ASSUME Claimed(m)' PROVE MemberOK(maint'[m].member)
    <3>1. \/ maint'[m].pc = maint[m].pc /\ maint'[m].member = maint[m].member
          \/ maint'[m].member \in maint[m].due
      BY <2>2, Zenon DEF ClaimsOn, Claimed
    <3>2. maint'[m].pc = maint[m].pc => Claimed(m)
      BY <2>2, Zenon DEF Claimed
    <3>. QED BY <3>1, <3>2, Zenon DEF Origins
  <2>3. ASSUME NEW f, f = maint'[m].member, MemberOK(f)' PROVE MemberOK(maint[m].member)'
    BY <2>3, Zenon DEF MemberOK, Over
  <2>. QED BY <1>3, <2>1, <2>2, <2>3, Zenon
<1>7. \A y \in log' : y.orig # 0 => RetryOK(y)'
  BY <1>4, Zenon
<1>8. Calm'
  BY Zenon DEF Calm, ClaimsOn
<1>. QED BY <1>5, <1>6, <1>7, <1>8, Zenon DEF Origins

\* What a step does to the in-flight set leaves an incomplete task incomplete, unless it
\* marks that one complete.
LEMMA OpenKept ==
  ASSUME NEW i
  PROVE  /\ UNCHANGED inFlight /\ Open(inFlight, i) => Open(inFlight', i)
         /\ AdvanceScript /\ Open(inFlight, i) => Open(inFlight', i)
         /\ \A j, s : MarkComplete(j, s) /\ j # i /\ Open(inFlight, i) => Open(inFlight', i)
         /\ \A j, s : inFlight' = ZAdd(j, FALSE, s) /\ Open(inFlight, i) => Open(inFlight', i)
         /\ \A s : inFlight' = ZAdd(i, FALSE, s) => Open(inFlight', i)
<1>1. UNCHANGED inFlight /\ Open(inFlight, i) => Open(inFlight', i)
  BY Zenon DEF Open
<1>2. AdvanceScript /\ Open(inFlight, i) => Open(inFlight', i)
  BY Zenon DEF AdvanceScript, Open
<1>3. ASSUME NEW j, NEW s, MarkComplete(j, s), j # i, Open(inFlight, i) PROVE Open(inFlight', i)
  <2>1. PICK t \in inFlight : t.id = i /\ ~t.done
    BY <1>3, Zenon DEF Open
  <2>2. t \in ZAdd(j, TRUE, s)
    BY <1>3, <2>1, Zenon DEF ZAdd
  <2>. QED BY <1>3, <2>1, <2>2, Zenon DEF MarkComplete, Open
<1>4. ASSUME NEW j, NEW s, inFlight' = ZAdd(j, FALSE, s) PROVE Open(inFlight', j)
  <2>1. PICK t : t = [id |-> j, done |-> FALSE, score |-> s]
    BY Zenon
  <2>2. t.id = j /\ ~t.done
    BY <2>1
  <2>3. t \in ZAdd(j, FALSE, s)
    BY <2>1, Zenon DEF ZAdd
  <2>. QED BY <1>4, <2>2, <2>3, Zenon DEF Open
<1>5. ASSUME NEW j, NEW s, inFlight' = ZAdd(j, FALSE, s), Open(inFlight, i)
      PROVE  Open(inFlight', i)
  <2>1. CASE i = j
    BY <1>4, <1>5, <2>1, Zenon
  <2>2. CASE i # j
    BY <1>5, <2>2, Zenon DEF ZAdd, Open
  <2>. QED BY <2>1, <2>2
<1>. QED BY <1>1, <1>2, <1>3, <1>4, <1>5, Zenon

\* A step of one thread that gives up only the entry the thread held keeps the others.
LEMMA HoldingKept ==
  ASSUME TypeOK, TypeOK', Holding, NEW w \in Workers,
         \A v \in Workers \ {w} : worker'[v] = worker[v], lastRead <= lastRead',
         worker'[w].pc # "idle" =>
           /\ \/ worker[w].pc # "idle" /\ worker'[w].msg = worker[w].msg
              \/ worker'[w].msg.id > lastRead
           /\ worker'[w].msg.id <= lastRead',
         worker'[w].pc \notin {"idle", "mark"} => worker'[w].msg \in stream',
         Fit(worker'[w]),
         \A x \in stream : x \in stream' \/ (worker[w].pc # "idle" /\ x.id = worker[w].msg.id),
         \A i \in pending' :
           \/ worker'[w].pc \notin {"idle", "del", "mark"} /\ worker'[w].msg.id = i
           \/ i \in pending /\ (worker[w].pc \in {"idle", "del", "mark"} \/ i # worker[w].msg.id)
  PROVE  Holding'
<1>0. /\ lastRead \in Nat /\ lastRead' \in Nat /\ worker'[w].msg.id \in Nat
      /\ \A v \in Workers : worker[v].msg.id \in Nat
  BY DEF TypeOK, WorkerState, Entry
<1>1. ASSUME NEW v \in Workers \ {w}, worker[v].pc # "idle", worker'[w].pc # "idle"
      PROVE  worker[v].msg.id # worker'[w].msg.id
  <2>1. worker[v].msg.id <= lastRead
    BY <1>1, Zenon DEF Holding
  <2>2. CASE worker'[w].msg.id > lastRead
    BY <1>0, <2>1, <2>2
  <2>3. CASE worker[w].pc # "idle" /\ worker'[w].msg = worker[w].msg
    <3>1. v \in Workers /\ v # w
      OBVIOUS
    <3>2. worker[v].msg.id # worker[w].msg.id
      BY <1>1, <2>3, <3>1, Zenon DEF Holding
    <3>. QED BY <2>3, <3>2
  <2>. QED BY <1>1, <2>2, <2>3
<1>2. \A u, v \in Workers : u # v /\ worker'[u].pc # "idle" /\ worker'[v].pc # "idle"
        => worker'[u].msg.id # worker'[v].msg.id
  <2>. SUFFICES ASSUME NEW u \in Workers, NEW v \in Workers, u # v,
                       worker'[u].pc # "idle", worker'[v].pc # "idle"
                PROVE  worker'[u].msg.id # worker'[v].msg.id
    BY Zenon
  <2>1. CASE u = w
    BY <1>0, <1>1, <2>1
  <2>2. CASE v = w
    BY <1>0, <1>1, <2>2
  <2>3. CASE u # w /\ v # w
    <3>1. worker'[u] = worker[u] /\ worker'[v] = worker[v]
      BY <2>3, Zenon
    <3>2. worker[u].pc # "idle" /\ worker[v].pc # "idle" => worker[u].msg.id # worker[v].msg.id
      BY Zenon DEF Holding
    <3>. QED BY <3>1, <3>2, Zenon
  <2>. QED BY <2>1, <2>2, <2>3
<1>3. ASSUME NEW i \in pending'
      PROVE  \E v \in Workers : worker'[v].pc \notin {"idle", "del", "mark"}
                                  /\ worker'[v].msg.id = i
  <2>1. CASE worker'[w].pc \notin {"idle", "del", "mark"} /\ worker'[w].msg.id = i
    BY <2>1, Zenon
  <2>2. CASE i \in pending /\ (worker[w].pc \in {"idle", "del", "mark"} \/ i # worker[w].msg.id)
    <3>1. PICK v \in Workers : worker[v].pc \notin {"idle", "del", "mark"} /\ worker[v].msg.id = i
      BY <2>2, Zenon DEF Holding
    <3>2. v # w
      BY <2>2, <3>1, Zenon
    <3>3. worker'[v] = worker[v]
      BY <3>2, Zenon
    <3>. QED BY <3>1, <3>3, Zenon
  <2>. QED BY <1>3, <2>1, <2>2, Zenon
<1>4. ASSUME NEW v \in Workers
      PROVE  /\ worker'[v].pc # "idle" => worker'[v].msg.id <= lastRead'
             /\ worker'[v].pc \notin {"idle", "mark"} => worker'[v].msg \in stream'
             /\ Fit(worker'[v])
  <2>1. CASE v = w
    BY <2>1, Zenon
  <2>2. CASE v # w
    <3>0. worker'[v] = worker[v]
      BY <2>2, Zenon
    <3>1. worker[v].pc # "idle" => worker[v].msg.id <= lastRead'
      <4>1. worker[v].pc # "idle" => worker[v].msg.id <= lastRead
        BY Zenon DEF Holding
      <4>. QED BY <1>0, <4>1
    <3>2. ASSUME worker[v].pc \notin {"idle", "mark"} PROVE worker[v].msg \in stream'
      <4>1. worker[v].msg \in stream
        BY <3>2, Zenon DEF Holding
      <4>2. worker[w].pc # "idle" => worker[v].msg.id # worker[w].msg.id
        BY <2>2, <3>2, Zenon DEF Holding
      <4>. QED BY <4>1, <4>2, Zenon
    <3>3. Fit(worker[v])
      BY Zenon DEF Holding
    <3>. QED BY <3>0, <3>1, <3>2, <3>3, Zenon
  <2>. QED BY <2>1, <2>2
<1>5. \A v \in Workers : Fit(worker[v])'
  BY <1>4, Zenon DEF Fit, TaskOf
<1>. QED BY <1>2, <1>3, <1>4, <1>5, Zenon DEF Holding

\* A step of a thread that writes no member leaves members and retries as they are.
LEMMA MembersLeft ==
  ASSUME TypeOK, TypeOK', Calm, Origins, Once, NEW w \in Workers,
         \A v \in Workers \ {w} : worker'[v] = worker[v], lastRead <= lastRead',
         UNCHANGED <<failed, maint, log>>,
         HoldsOn(w)
  PROVE  Calm' /\ Origins' /\ Once'
<1>1. \A v \in Workers : HoldsOn(v)
  BY Zenon DEF HoldsOn
<1>2. \A m \in Maintainers : ClaimsOn(m)
  BY Zenon DEF ClaimsOn, Calm
<1>3. Calm' /\ Origins'
  BY <1>1, <1>2, OriginsKept, Zenon
<1>4. Once'
  BY Zenon DEF Once, Claimed
<1>. QED BY <1>3, <1>4

\* The barriers that wait in the failed set, and those of the other threads, stay when
\* every incomplete task does.
LEMMA BarriersLeft ==
  ASSUME TypeOK, Barriers, NEW w \in Workers,
         \A v \in Workers \ {w} : worker'[v] = worker[v], UNCHANGED <<failed, log>>,
         \A i : Open(inFlight, i) => Open(inFlight', i),
         worker'[w].pc \in {"run", "readRetry", "addFailed"} =>
           Open(inFlight', TaskOf(worker'[w].msg))
  PROVE  Barriers'
<1>1. ASSUME NEW v \in Workers, worker'[v].pc \in {"run", "readRetry", "addFailed"}
      PROVE  Open(inFlight', TaskOf(worker'[v].msg))
  BY <1>1, Zenon DEF Barriers
<1>2. \A f \in failed : \A x \in log : x.id = f.id => Open(inFlight', TaskOf(x))
  BY Zenon DEF Barriers
<1>. QED BY <1>1, <1>2, Zenon DEF Barriers, TaskOf

\* A member in the failed set, or one that a run holds, is over: no thread is about to
\* write it, nor does one that has not failed hold its entry.  The same is true of an
\* entry that was retried.
LEMMA RecordedOnce ==
  ASSUME Origins, NEW w \in Workers, worker[w].pc # "idle", ~Recorded(worker[w])
  PROVE  /\ \A f \in failed : f.id # worker[w].msg.id
         /\ \A m \in Maintainers : Claimed(m) => maint[m].member.id # worker[w].msg.id
         /\ \A y \in log : y.orig # 0 => y.orig # worker[w].msg.id
<1>1. \A i : Over(i) => i # worker[w].msg.id
  BY Zenon DEF Over
<1>. QED BY <1>1, Zenon DEF Origins, MemberOK, RetryOK

\* Two entries are tracked as one task only if one is the retry of the other.
LEMMA SharedTask ==
  ASSUME EntriesConsistent, Once, NEW x \in log, NEW y \in log, TaskOf(x) = TaskOf(y)
  PROVE  x = y \/ y.orig = x.id \/ x.orig = y.id
<1>1. CASE x.orig # 0 /\ y.orig # 0
  BY <1>1, Zenon DEF TaskOf, Once
<1>2. CASE x.orig = 0 /\ y.orig = 0
  BY <1>2, Zenon DEF TaskOf, EntriesConsistent
<1>3. CASE x.orig # 0 /\ y.orig = 0
  BY <1>3, Zenon DEF TaskOf
<1>4. CASE x.orig = 0 /\ y.orig # 0
  BY <1>4, Zenon DEF TaskOf
<1>. QED BY <1>1, <1>2, <1>3, <1>4

\* CompleteMark marks no task that another entry needs.
LEMMA MarkApart ==
  ASSUME TypeOK, EntriesConsistent, Holding, Origins, Once, NEW w \in Workers,
         worker[w].pc = "mark"
  PROVE  /\ \A f \in failed : \A x \in log : x.id = f.id => TaskOf(x) # worker[w].track
         /\ \A v \in Workers \ {w} : worker[v].pc \in {"run", "readRetry", "addFailed"}
              => TaskOf(worker[v].msg) # worker[w].track
<1>1. /\ worker[w].track = TaskOf(worker[w].msg) /\ ~Recorded(worker[w])
      /\ worker[w].pc # "idle" /\ worker[w].msg \in log
  BY Zenon DEF Holding, Fit, Recorded, EntriesConsistent
<1>2. /\ \A f \in failed : f.id # worker[w].msg.id
      /\ \A y \in log : y.orig # 0 => y.orig # worker[w].msg.id
  BY <1>1, RecordedOnce, Zenon
<1>3. \A x \in log : x.id # 0
  BY DEF EntriesConsistent, TypeOK, Entry
<1>4. ASSUME NEW f \in failed, NEW x \in log, x.id = f.id, TaskOf(x) = worker[w].track
      PROVE  FALSE
  <2>1. x = worker[w].msg \/ worker[w].msg.orig = x.id \/ x.orig = worker[w].msg.id
    BY <1>1, <1>4, SharedTask, Zenon
  <2>2. x # worker[w].msg
    BY <1>2, <1>4, Zenon
  <2>3. x.orig # worker[w].msg.id
    BY <1>1, <1>2, <1>3, Zenon
  <2>4. worker[w].msg.orig # x.id
    BY <1>1, <1>3, <1>4, Zenon DEF Once
  <2>. QED BY <2>1, <2>2, <2>3, <2>4
<1>5. ASSUME NEW v \in Workers \ {w}, worker[v].pc \in {"run", "readRetry", "addFailed"},
             TaskOf(worker[v].msg) = worker[w].track
      PROVE  FALSE
  <2>0. worker[v].pc # "idle" /\ ~Recorded(worker[v]) /\ worker[v].msg \in log
    BY <1>5, Zenon DEF Recorded, EntriesConsistent
  <2>1. \/ worker[v].msg = worker[w].msg \/ worker[w].msg.orig = worker[v].msg.id
        \/ worker[v].msg.orig = worker[w].msg.id
    BY <1>1, <1>5, <2>0, SharedTask, Zenon
  <2>2. worker[v].msg.id # worker[w].msg.id
    BY <1>1, <1>5, <2>0, Zenon DEF Holding
  <2>3. worker[v].msg.orig # worker[w].msg.id
    BY <1>1, <1>2, <1>3, <2>0, Zenon
  <2>4. worker[w].msg.orig # worker[v].msg.id
    BY <1>1, <1>3, <2>0, RecordedOnce, Zenon
  <2>. QED BY <2>1, <2>2, <2>3, <2>4, Zenon
<1>. QED BY <1>4, <1>5, Zenon

\* GiveUpMark marks no task that another entry needs: a member that is given up has no
\* retry.
LEMMA GiveUpApart ==
  ASSUME TypeOK, EntriesConsistent, Origins, Once, NEW m \in Maintainers,
         maint[m].pc = "markFailed"
  PROVE  /\ \A f \in failed : \A x \in log : x.id = f.id => TaskOf(x) # maint[m].member.id
         /\ \A v \in Workers : worker[v].pc \in {"run", "readRetry", "addFailed"}
              => TaskOf(worker[v].msg) # maint[m].member.id
<1>0. Claimed(m) /\ MemberOK(maint[m].member) /\ maint[m].member.retry >= MaxRetries
  BY Zenon DEF Claimed, Origins, Once
<1>1. PICK a \in log : maint[m].member = MemberOf(a)
  BY <1>0, Zenon DEF MemberOK
<1>2. /\ maint[m].member.id = a.id /\ maint[m].member.retry = a.retry + 1
      /\ \A x \in log : x.id # 0 /\ x.retry \in Nat /\ x.id \in Nat
  BY <1>1 DEF MemberOf, EntriesConsistent, TypeOK, Entry
<1>3. ASSUME NEW y \in log, y.orig = a.id PROVE FALSE
  <2>1. RetryOK(y)
    BY <1>2, <1>3, Zenon DEF Origins
  <2>2. PICK x \in log : x.id = y.orig /\ y.retry = x.retry + 1
    BY <2>1, Zenon DEF RetryOK
  <2>3. x = a
    BY <1>3, <2>2, Zenon DEF EntriesConsistent
  <2>4. y.retry < MaxRetries
    BY <2>1, Zenon DEF RetryOK
  <2>. QED BY <1>0, <1>2, <2>2, <2>3, <2>4, MaxRetriesAssumption
<1>4. ASSUME NEW x \in log, TaskOf(x) = a.id PROVE x.id = a.id
  BY <1>3, <1>4, Zenon DEF TaskOf
<1>5. \A f \in failed : f.id # a.id
  BY <1>0, <1>2, Zenon DEF Once
<1>6. ASSUME NEW v \in Workers, worker[v].pc \in {"run", "readRetry", "addFailed"}
      PROVE  TaskOf(worker[v].msg) # a.id
  <2>0. worker[v].pc # "idle" /\ ~Recorded(worker[v]) /\ worker[v].msg \in log
    BY <1>6, Zenon DEF Recorded, EntriesConsistent
  <2>1. worker[v].msg.id # a.id
    BY <1>0, <1>2, <2>0, RecordedOnce, Zenon
  <2>. QED BY <1>4, <2>0, <2>1, Zenon
<1>. QED BY <1>2, <1>4, <1>5, <1>6, Zenon

\* XRANGE of an entry that is in the stream finds that entry.
LEMMA MessageHeld ==
  ASSUME EntriesConsistent, NEW x \in stream
  PROVE  \A e \in Message(x.id) : e = x
BY DEF Message, XRange, EntriesConsistent

\* A step of a thread keeps the barriers.
LEMMA WorkerBarriers ==
  ASSUME TypeOK, TypeOK', EntriesConsistent, EntriesConsistent',
         Holding, Calm, Origins, Once, Barriers,
         NEW w \in Workers, WorkerStep(w) \/ HandlerFails(w)
  PROVE  Holding' /\ Calm' /\ Origins' /\ Once' /\ Barriers'
<1>. USE DEF redisVars, dbVars
<1>0. /\ worker \in [Workers -> WorkerState] /\ worker' \in [Workers -> WorkerState]
      /\ lastRead \in Nat /\ lastRead' \in Nat
      /\ worker[w] \in WorkerState /\ worker[w].msg.id \in Nat
      /\ \A x \in stream : x.id \in Nat
  BY Zenon DEF TypeOK, Entry, WorkerState
<1>i. \A i : UNCHANGED inFlight => (Open(inFlight, i) => Open(inFlight', i))
  BY OpenKept, Zenon
<1>w. ASSUME NEW t, worker' = [worker EXCEPT ![w] = t]
      PROVE  /\ worker'[w] = t
             /\ \A v \in Workers \ {w} : worker'[v] = worker[v]
  BY <1>0, <1>w
\* Within Complete, and before it, a thread keeps its message.
<1>a. ASSUME \A v \in Workers \ {w} : worker'[v] = worker[v],
             worker[w].pc \notin {"idle", "del", "mark"},
             worker'[w].pc \notin {"idle", "del", "mark"},
             worker'[w].msg = worker[w].msg, Fit(worker'[w]),
             UNCHANGED <<stream, lastRead, pending>>
      PROVE  Holding'
  <2>1. worker[w].msg.id <= lastRead /\ worker[w].msg \in stream
    BY <1>a, Zenon DEF Holding
  <2>2. lastRead <= lastRead' /\ worker'[w].msg.id <= lastRead' /\ worker'[w].msg \in stream'
    BY <1>0, <1>a, <2>1
  <2>3. \A i \in pending' :
           \/ worker'[w].pc \notin {"idle", "del", "mark"} /\ worker'[w].msg.id = i
           \/ i \in pending /\ (worker[w].pc \in {"idle", "del", "mark"} \/ i # worker[w].msg.id)
    BY <1>a, Zenon
  <2>4. worker[w].pc # "idle"
    BY <1>a, Zenon
  <2>. QED BY <1>a, <2>2, <2>3, <2>4, HoldingKept, Zenon
<1>1. CASE ReadGroup(w)
  <2>1. PICK e \in stream :
          /\ e.id > lastRead
          /\ lastRead' = e.id
          /\ pending' = pending \union {e.id}
          /\ worker' = [worker EXCEPT ![w] = [IdleWorker EXCEPT !.pc = "track", !.msg = e]]
    BY <1>1, Zenon DEF ReadGroup
  <2>2. /\ worker'[w] = [IdleWorker EXCEPT !.pc = "track", !.msg = e]
        /\ \A v \in Workers \ {w} : worker'[v] = worker[v]
    BY <1>w, <2>1, Zenon
  <2>3. worker'[w].pc = "track" /\ worker'[w].msg = e
    BY <2>2 DEF IdleWorker
  <2>4. /\ worker[w].pc = "idle"
        /\ UNCHANGED <<stream, failed, maint, log, inFlight>>
    BY <1>1, Zenon DEF ReadGroup
  <2>5. lastRead <= lastRead' /\ worker'[w].msg.id > lastRead /\ worker'[w].msg.id <= lastRead'
    BY <1>0, <2>1, <2>3
  <2>6. Fit(worker'[w])
    BY <2>3, Zenon DEF Fit
  <2>7. Holding'
    <3>1. \A i \in pending' :
            \/ worker'[w].pc \notin {"idle", "del", "mark"} /\ worker'[w].msg.id = i
            \/ i \in pending /\ (worker[w].pc \in {"idle", "del", "mark"} \/ i # worker[w].msg.id)
      BY <2>1, <2>3, <2>4
    <3>2. \A x \in stream : x \in stream'
      BY <2>4, Zenon
    <3>3. worker'[w].msg \in stream'
      BY <2>1, <2>3, <2>4
    <3>. QED BY <2>2, <2>5, <2>6, <3>1, <3>2, <3>3, HoldingKept, Zenon
  <2>8. Calm' /\ Origins' /\ Once'
    <3>1. HoldsOn(w)
      BY <2>5, Zenon DEF HoldsOn
    <3>. QED BY <2>2, <2>4, <2>5, <3>1, MembersLeft, Zenon
  <2>9. Barriers'
    <3>1. worker'[w].pc \notin {"run", "readRetry", "addFailed"}
      BY <2>3, Zenon
    <3>. QED BY <1>i, <2>2, <2>4, <3>1, BarriersLeft, Zenon
  <2>. QED BY <2>7, <2>8, <2>9
<1>2. CASE AddToInFlight(w)
  <2>1. /\ worker[w].pc = "track"
        /\ worker' = [worker EXCEPT ![w] = [worker[w] EXCEPT !.pc = "run"]]
        /\ inFlight' = ZAdd(TaskOf(worker[w].msg), FALSE, worker[w].msg.ts)
        /\ UNCHANGED <<stream, lastRead, pending, failed, maint, log>>
    BY <1>2 DEF AddToInFlight, TaskOf
  <2>2. /\ worker'[w] = [worker[w] EXCEPT !.pc = "run"]
        /\ \A v \in Workers \ {w} : worker'[v] = worker[v]
    BY <1>w, <2>1, Zenon
  <2>3. worker'[w].pc = "run" /\ worker'[w].msg = worker[w].msg
    BY <1>0, <2>2 DEF WorkerState
  <2>4. /\ Fit(worker'[w]) /\ HoldsOn(w) /\ lastRead <= lastRead'
        /\ worker[w].pc \notin {"idle", "del", "mark"}
        /\ worker'[w].pc \notin {"idle", "del", "mark"}
    <3>1. Fit(worker'[w]) /\ HoldsOn(w)
      BY <2>1, <2>3, Zenon DEF Fit, HoldsOn, Recorded
    <3>. QED BY <1>0, <2>1, <2>3, <3>1
  <2>5. Holding'
    BY <1>a, <2>1, <2>2, <2>3, <2>4, Zenon
  <2>6. Calm' /\ Origins' /\ Once'
    BY <2>1, <2>2, <2>4, MembersLeft, Zenon
  <2>7. /\ Open(inFlight', TaskOf(worker'[w].msg))
        /\ \A i : Open(inFlight, i) => Open(inFlight', i)
    BY <2>1, <2>3, OpenKept, Zenon
  <2>8. Barriers'
    BY <2>1, <2>2, <2>7, BarriersLeft, Zenon
  <2>. QED BY <2>5, <2>6, <2>8
<1>3. CASE HandlerSucceeds(w)
  <2>1. /\ worker[w].pc = "run"
        /\ worker' = [worker EXCEPT ![w] = [worker[w] EXCEPT !.pc = "readMessage"]]
        /\ UNCHANGED <<stream, lastRead, pending, inFlight, failed, maint, log>>
    BY <1>3 DEF HandlerSucceeds
  <2>2. /\ worker'[w] = [worker[w] EXCEPT !.pc = "readMessage"]
        /\ \A v \in Workers \ {w} : worker'[v] = worker[v]
    BY <1>w, <2>1, Zenon
  <2>3. worker'[w].pc = "readMessage" /\ worker'[w].msg = worker[w].msg
    BY <1>0, <2>2 DEF WorkerState
  <2>4. /\ Fit(worker'[w]) /\ HoldsOn(w) /\ lastRead <= lastRead'
        /\ worker[w].pc \notin {"idle", "del", "mark"}
        /\ worker'[w].pc \notin {"idle", "del", "mark", "run", "readRetry", "addFailed"}
    <3>1. Fit(worker'[w]) /\ HoldsOn(w)
      BY <2>1, <2>3, Zenon DEF Fit, HoldsOn, Recorded
    <3>. QED BY <1>0, <2>1, <2>3, <3>1
  <2>5. Holding'
    BY <1>a, <2>1, <2>2, <2>3, <2>4, Zenon
  <2>6. Calm' /\ Origins' /\ Once'
    BY <2>1, <2>2, <2>4, MembersLeft, Zenon
  <2>7. Barriers'
    BY <1>i, <2>1, <2>2, <2>4, BarriersLeft, Zenon
  <2>. QED BY <2>5, <2>6, <2>7
<1>4. CASE HandlerFails(w)
  <2>1. /\ worker[w].pc = "run"
        /\ worker' = [worker EXCEPT ![w] = [worker[w] EXCEPT !.pc = "readRetry", !.err = TRUE]]
        /\ UNCHANGED <<stream, lastRead, pending, inFlight, failed, maint, log>>
    BY <1>4, Zenon DEF HandlerFails
  <2>2. /\ worker'[w] = [worker[w] EXCEPT !.pc = "readRetry", !.err = TRUE]
        /\ \A v \in Workers \ {w} : worker'[v] = worker[v]
    BY <1>w, <2>1, Zenon
  <2>3. worker'[w].pc = "readRetry" /\ worker'[w].msg = worker[w].msg /\ worker'[w].err
    BY <1>0, <2>2 DEF WorkerState
  <2>4. /\ Fit(worker'[w]) /\ HoldsOn(w) /\ lastRead <= lastRead'
        /\ worker[w].pc \notin {"idle", "del", "mark"}
        /\ worker'[w].pc \notin {"idle", "del", "mark"}
    <3>1. Fit(worker'[w]) /\ HoldsOn(w)
      BY <2>1, <2>3, Zenon DEF Fit, HoldsOn, Recorded
    <3>. QED BY <1>0, <2>1, <2>3, <3>1
  <2>5. Holding'
    BY <1>a, <2>1, <2>2, <2>3, <2>4, Zenon
  <2>6. Calm' /\ Origins' /\ Once'
    BY <2>1, <2>2, <2>4, MembersLeft, Zenon
  <2>7. Open(inFlight', TaskOf(worker'[w].msg))
    BY <2>1, <2>3, Zenon DEF Barriers
  <2>8. Barriers'
    BY <1>i, <2>1, <2>2, <2>7, BarriersLeft, Zenon
  <2>. QED BY <2>5, <2>6, <2>8
<1>5. CASE CompleteReadRetry(w)
  <2>0. worker[w].pc = "readRetry" /\ worker[w].msg \in stream /\ worker[w].err
    BY <1>5, Zenon DEF CompleteReadRetry, Holding, Fit
  <2>a. \A e \in Message(worker[w].msg.id) : e = worker[w].msg
    BY <2>0, MessageHeld
  <2>1. /\ worker' = [worker EXCEPT ![w] =
                        [worker[w] EXCEPT !.pc = "addFailed", !.retry = worker[w].msg.retry + 1]]
        /\ UNCHANGED <<stream, lastRead, pending, inFlight, failed, maint, log>>
    BY <1>5, <2>a, Zenon DEF CompleteReadRetry
  <2>2. /\ worker'[w] = [worker[w] EXCEPT !.pc = "addFailed", !.retry = worker[w].msg.retry + 1]
        /\ \A v \in Workers \ {w} : worker'[v] = worker[v]
    BY <1>w, <2>1, Zenon
  <2>3. /\ worker'[w].pc = "addFailed" /\ worker'[w].msg = worker[w].msg
        /\ worker'[w].retry = worker[w].msg.retry + 1 /\ worker'[w].err = worker[w].err
    BY <1>0, <2>2, Zenon DEF WorkerState
  <2>4. /\ Fit(worker'[w]) /\ HoldsOn(w) /\ lastRead <= lastRead'
        /\ worker[w].pc \notin {"idle", "del", "mark"}
        /\ worker'[w].pc \notin {"idle", "del", "mark"}
    <3>1. Fit(worker'[w]) /\ HoldsOn(w)
      BY <2>0, <2>3, Zenon DEF Fit, HoldsOn, Recorded
    <3>. QED BY <1>0, <2>0, <2>1, <2>3, <3>1
  <2>5. Holding'
    BY <1>a, <2>1, <2>2, <2>3, <2>4, Zenon
  <2>6. Calm' /\ Origins' /\ Once'
    BY <2>1, <2>2, <2>4, MembersLeft, Zenon
  <2>7. Open(inFlight', TaskOf(worker'[w].msg))
    BY <2>0, <2>1, <2>3, Zenon DEF Barriers
  <2>8. Barriers'
    BY <1>i, <2>1, <2>2, <2>7, BarriersLeft, Zenon
  <2>. QED BY <2>5, <2>6, <2>8
<1>6. CASE CompleteAddFailed(w)
  <2>0. /\ worker[w].pc = "addFailed" /\ worker[w].msg \in stream /\ worker[w].err
        /\ worker[w].retry = worker[w].msg.retry + 1
    BY <1>6, Zenon DEF CompleteAddFailed, Holding, Fit
  <2>a. PICK f : f = MemberOf(worker[w].msg)
    OBVIOUS
  <2>1. /\ failed' = failed \union {f}
        /\ worker' = [worker EXCEPT ![w] = [worker[w] EXCEPT !.pc = "readMessage"]]
        /\ UNCHANGED <<stream, lastRead, pending, inFlight, maint, log>>
    BY <1>6, <2>0, <2>a DEF CompleteAddFailed, MemberOf
  <2>2. /\ worker'[w] = [worker[w] EXCEPT !.pc = "readMessage"]
        /\ \A v \in Workers \ {w} : worker'[v] = worker[v]
    BY <1>w, <2>1, Zenon
  <2>3. /\ worker'[w].pc = "readMessage" /\ worker'[w].msg = worker[w].msg
        /\ worker'[w].err = worker[w].err
    BY <1>0, <2>2, Zenon DEF WorkerState
  <2>4. /\ Fit(worker'[w]) /\ HoldsOn(w) /\ Recorded(worker'[w]) /\ lastRead <= lastRead'
        /\ worker[w].pc \notin {"idle", "del", "mark"} /\ ~Recorded(worker[w])
        /\ worker'[w].pc \notin {"idle", "del", "mark", "run", "readRetry", "addFailed"}
    <3>1. Fit(worker'[w]) /\ HoldsOn(w) /\ Recorded(worker'[w]) /\ ~Recorded(worker[w])
      BY <2>0, <2>3, Zenon DEF Fit, HoldsOn, Recorded
    <3>. QED BY <1>0, <2>0, <2>1, <2>3, <3>1
  <2>5. Holding'
    BY <1>a, <2>1, <2>2, <2>3, <2>4, Zenon
  <2>6. f.id = worker[w].msg.id /\ worker[w].msg \in log /\ worker[w].msg.id <= lastRead
    <3>1. worker[w].msg \in log /\ worker[w].msg.id <= lastRead
      BY <2>0, <2>4, Zenon DEF EntriesConsistent, Holding
    <3>. QED BY <2>a, <3>1 DEF MemberOf
  <2>7. MemberOK(f)'
    <3>1. ASSUME NEW v \in Workers, worker'[v].pc # "idle", worker'[v].msg.id = f.id
          PROVE  Recorded(worker'[v])
      <4>1. CASE v = w
        BY <2>4, <4>1, Zenon
      <4>2. CASE v # w
        <5>1. worker'[v] = worker[v]
          BY <2>2, <4>2, Zenon
        <5>2. worker[v].pc # "idle" /\ worker[v].msg.id = worker[w].msg.id
          BY <2>6, <3>1, <5>1, Zenon
        <5>. QED BY <2>4, <4>2, <5>2, Zenon DEF Holding
      <4>. QED BY <4>1, <4>2
    <3>2. f.id <= lastRead'
      BY <1>0, <2>1, <2>6
    <3>3. Over(f.id)'
      BY <3>1, <3>2, Zenon DEF Over, Recorded
    <3>4. \E x \in log' : f = MemberOf(x)
      BY <2>1, <2>6, <2>a, Zenon
    <3>. QED BY <3>3, <3>4, Zenon DEF MemberOK, MemberOf
  <2>8. Calm' /\ Origins'
    <3>1. \A v \in Workers : HoldsOn(v)
      BY <2>2, <2>4, Zenon DEF HoldsOn
    <3>2. \A m \in Maintainers : ClaimsOn(m)
      BY <2>1, Zenon DEF ClaimsOn, Calm
    <3>3. \A g \in failed' : g \in failed \/ MemberOK(g)'
      BY <2>1, <2>7, Zenon
    <3>4. log \subseteq log' /\ \A y \in log' : y \in log
      BY <2>1, Zenon
    <3>. QED BY <2>4, <3>1, <3>2, <3>3, <3>4, OriginsKept, Zenon
  <2>9. Once'
    <3>1. /\ \A m \in Maintainers : Claimed(m) => maint[m].member.id # f.id
          /\ \A y \in log : y.orig # 0 => y.orig # f.id
      BY <2>4, <2>6, RecordedOnce, Zenon
    <3>2. \A g \in failed' : g \in failed \/ g = f
      BY <2>1, Zenon
    <3>3. /\ \A m \in Maintainers : Claimed(m) => \A g \in failed' : g.id # maint[m].member.id
          /\ \A y \in log : y.orig # 0 => \A g \in failed' : g.id # y.orig
      BY <3>1, <3>2, Zenon DEF Once
    <3>. QED BY <2>1, <3>3, Zenon DEF Once, Claimed
  <2>10. Barriers'
    <3>1. ASSUME NEW x \in log, x.id = f.id PROVE Open(inFlight, TaskOf(x))
      <4>1. x = worker[w].msg
        BY <2>6, <3>1, Zenon DEF EntriesConsistent
      <4>. QED BY <2>0, <4>1, Zenon DEF Barriers
    <3>2. \A g \in failed' : \A x \in log : x.id = g.id => Open(inFlight, TaskOf(x))
      BY <2>1, <3>1, Zenon DEF Barriers
    <3>3. ASSUME NEW v \in Workers, worker'[v].pc \in {"run", "readRetry", "addFailed"}
          PROVE  Open(inFlight, TaskOf(worker'[v].msg))
      BY <2>2, <2>4, <3>3, Zenon DEF Barriers
    <3>. QED BY <2>1, <3>2, <3>3, Zenon DEF Barriers, TaskOf
  <2>. QED BY <2>5, <2>8, <2>9, <2>10
<1>7. CASE CompleteReadMessage(w)
  <2>0. worker[w].pc = "readMessage" /\ worker[w].msg \in stream
    BY <1>7, Zenon DEF CompleteReadMessage, Holding
  <2>a. \A e \in Message(worker[w].msg.id) : e = worker[w].msg
    BY <2>0, MessageHeld
  <2>1. /\ worker' = [worker EXCEPT ![w] = Tracked(worker[w], worker[w].msg)]
        /\ UNCHANGED <<stream, lastRead, pending, inFlight, failed, maint, log>>
    BY <1>7, <2>a, Zenon DEF CompleteReadMessage
  <2>2. /\ worker'[w] = Tracked(worker[w], worker[w].msg)
        /\ \A v \in Workers \ {w} : worker'[v] = worker[v]
    BY <1>w, <2>1, Zenon
  <2>3. /\ worker'[w].pc = "ack" /\ worker'[w].msg = worker[w].msg
        /\ worker'[w].err = worker[w].err /\ worker'[w].track = TaskOf(worker[w].msg)
    BY <1>0, <2>2, Zenon DEF WorkerState, Tracked, TaskOf
  <2>4. /\ Fit(worker'[w]) /\ HoldsOn(w) /\ lastRead <= lastRead'
        /\ worker[w].pc \notin {"idle", "del", "mark"}
        /\ worker'[w].pc \notin {"idle", "del", "mark", "run", "readRetry", "addFailed"}
    <3>1. Fit(worker'[w]) /\ HoldsOn(w)
      BY <2>0, <2>3, Zenon DEF Fit, HoldsOn, Recorded
    <3>. QED BY <1>0, <2>0, <2>1, <2>3, <3>1
  <2>5. Holding'
    BY <1>a, <2>1, <2>2, <2>3, <2>4, Zenon
  <2>6. Calm' /\ Origins' /\ Once'
    BY <2>1, <2>2, <2>4, MembersLeft, Zenon
  <2>7. Barriers'
    BY <1>i, <2>1, <2>2, <2>4, BarriersLeft, Zenon
  <2>. QED BY <2>5, <2>6, <2>7
<1>8. CASE CompleteAck(w)
  <2>1. /\ worker[w].pc = "ack"
        /\ worker' = [worker EXCEPT ![w] = [worker[w] EXCEPT !.pc = "del"]]
        /\ pending' = pending \ {worker[w].msg.id}
        /\ UNCHANGED <<stream, lastRead, inFlight, failed, maint, log>>
    BY <1>8 DEF CompleteAck
  <2>2. /\ worker'[w] = [worker[w] EXCEPT !.pc = "del"]
        /\ \A v \in Workers \ {w} : worker'[v] = worker[v]
    BY <1>w, <2>1, Zenon
  <2>3. /\ worker'[w].pc = "del" /\ worker'[w].msg = worker[w].msg
        /\ worker'[w].err = worker[w].err /\ worker'[w].track = worker[w].track
    BY <1>0, <2>2, Zenon DEF WorkerState
  <2>4. /\ Fit(worker[w]) /\ worker[w].msg.id <= lastRead /\ worker[w].msg \in stream
    BY <2>1, Zenon DEF Holding
  <2>5. Fit(worker'[w]) /\ HoldsOn(w)
    BY <2>1, <2>3, <2>4, Zenon DEF Fit, HoldsOn, Recorded
  <2>6. /\ lastRead <= lastRead' /\ worker'[w].msg.id <= lastRead' /\ worker'[w].msg \in stream'
        /\ worker[w].pc # "idle"
        /\ worker'[w].pc \notin {"run", "readRetry", "addFailed"}
    BY <1>0, <2>1, <2>3, <2>4
  <2>7. Holding'
    <3>1. \A i \in pending' : i \in pending /\ i # worker[w].msg.id
      BY <2>1
    <3>2. \A x \in stream : x \in stream'
      BY <2>1, Zenon
    <3>. QED BY <2>2, <2>3, <2>5, <2>6, <3>1, <3>2, HoldingKept, Zenon
  <2>8. Calm' /\ Origins' /\ Once'
    BY <2>1, <2>2, <2>5, <2>6, MembersLeft, Zenon
  <2>9. Barriers'
    BY <1>i, <2>1, <2>2, <2>6, BarriersLeft, Zenon
  <2>. QED BY <2>7, <2>8, <2>9
<1>9. CASE CompleteDel(w)
  <2>1. /\ worker[w].pc = "del"
        /\ worker' = [worker EXCEPT ![w] = IF worker[w].err THEN IdleWorker
                                           ELSE [worker[w] EXCEPT !.pc = "mark"]]
        /\ stream' = stream \ XRange(worker[w].msg.id)
        /\ UNCHANGED <<lastRead, pending, inFlight, failed, maint, log>>
    BY <1>9, Zenon DEF CompleteDel
  <2>2. /\ worker'[w] = IF worker[w].err THEN IdleWorker ELSE [worker[w] EXCEPT !.pc = "mark"]
        /\ \A v \in Workers \ {w} : worker'[v] = worker[v]
    BY <1>w, <2>1, Zenon
  <2>3. \/ worker'[w].pc = "idle"
        \/ /\ worker'[w].pc = "mark" /\ worker'[w].msg = worker[w].msg
           /\ ~worker[w].err /\ worker'[w].err = worker[w].err
           /\ worker'[w].track = worker[w].track
    <3>1. CASE worker[w].err
      <4>1. worker'[w] = IdleWorker
        BY <2>2, <3>1, Zenon
      <4>. QED BY <4>1 DEF IdleWorker
    <3>2. CASE ~worker[w].err
      BY <1>0, <2>2, <3>2, Zenon DEF WorkerState
    <3>. QED BY <3>1, <3>2
  <2>4. /\ Fit(worker[w]) /\ worker[w].msg.id <= lastRead
    BY <2>1, Zenon DEF Holding
  <2>5. Fit(worker'[w]) /\ HoldsOn(w)
    BY <2>1, <2>3, <2>4, Zenon DEF Fit, HoldsOn, Recorded
  <2>6. /\ lastRead <= lastRead'
        /\ worker'[w].pc # "idle" => worker'[w].msg.id <= lastRead'
        /\ worker[w].pc # "idle"
        /\ worker'[w].pc # "idle" => worker'[w].msg = worker[w].msg
        /\ worker'[w].pc \in {"idle", "mark"}
        /\ worker'[w].pc \notin {"run", "readRetry", "addFailed"}
    BY <1>0, <2>1, <2>3, <2>4
  <2>7. Holding'
    <3>1. \A i \in pending' : i \in pending /\ worker[w].pc \in {"idle", "del", "mark"}
      BY <2>1, Zenon
    <3>2. \A x \in stream : x \in stream' \/ x.id = worker[w].msg.id
      BY <2>1, Zenon DEF XRange
    <3>. QED BY <2>2, <2>5, <2>6, <3>1, <3>2, HoldingKept, Zenon
  <2>8. Calm' /\ Origins' /\ Once'
    BY <2>1, <2>2, <2>5, <2>6, MembersLeft, Zenon
  <2>9. Barriers'
    BY <1>i, <2>1, <2>2, <2>6, BarriersLeft, Zenon
  <2>. QED BY <2>7, <2>8, <2>9
<1>10. CASE CompleteMark(w)
  <2>1. /\ worker[w].pc = "mark"
        /\ worker' = [worker EXCEPT ![w] = IdleWorker]
        /\ MarkComplete(worker[w].track, worker[w].ts)
        /\ UNCHANGED <<stream, lastRead, pending, failed, maint, log>>
    BY <1>10, Zenon DEF CompleteMark
  <2>2. /\ worker'[w] = IdleWorker
        /\ \A v \in Workers \ {w} : worker'[v] = worker[v]
    BY <1>w, <2>1, Zenon
  <2>3. worker'[w].pc = "idle" /\ Fit(worker'[w]) /\ HoldsOn(w)
    <3>1. worker'[w].pc = "idle"
      BY <2>2 DEF IdleWorker
    <3>. QED BY <3>1, Zenon DEF Fit, HoldsOn
  <2>4. lastRead <= lastRead'
    BY <1>0, <2>1
  <2>5. Holding'
    <3>1. \A i \in pending' : i \in pending /\ worker[w].pc \in {"idle", "del", "mark"}
      BY <2>1, Zenon
    <3>2. \A x \in stream : x \in stream'
      BY <2>1, Zenon
    <3>. QED BY <2>2, <2>3, <2>4, <3>1, <3>2, HoldingKept, Zenon
  <2>6. Calm' /\ Origins' /\ Once'
    BY <2>1, <2>2, <2>3, <2>4, MembersLeft, Zenon
  <2>7. /\ \A f \in failed : \A x \in log : x.id = f.id => TaskOf(x) # worker[w].track
        /\ \A v \in Workers \ {w} : worker[v].pc \in {"run", "readRetry", "addFailed"}
             => TaskOf(worker[v].msg) # worker[w].track
    BY <2>1, MarkApart, Zenon
  <2>8. \A i : i # worker[w].track /\ Open(inFlight, i) => Open(inFlight', i)
    BY <2>1, OpenKept, Zenon
  <2>9. Barriers'
    <3>1. \A f \in failed : \A x \in log : x.id = f.id => Open(inFlight', TaskOf(x))
      BY <2>7, <2>8, Zenon DEF Barriers
    <3>2. ASSUME NEW v \in Workers, worker'[v].pc \in {"run", "readRetry", "addFailed"}
          PROVE  Open(inFlight', TaskOf(worker'[v].msg))
      <4>1. v \in Workers \ {w} /\ worker'[v] = worker[v]
        BY <2>2, <2>3, <3>2
      <4>2. Open(inFlight', TaskOf(worker[v].msg))
        BY <2>7, <2>8, <3>2, <4>1, Zenon DEF Barriers
      <4>. QED BY <4>1, <4>2, Zenon
    <3>. QED BY <2>1, <3>1, <3>2, Zenon DEF Barriers, TaskOf
  <2>. QED BY <2>5, <2>6, <2>9
<1>. QED BY <1>1, <1>2, <1>3, <1>4, <1>5, <1>6, <1>7, <1>8, <1>9, <1>10, Zenon DEF WorkerStep

\* A step that leaves the threads and the stream's group alone keeps what they hold.
LEMMA HoldingLeft ==
  ASSUME Holding, UNCHANGED <<worker, lastRead, pending>>, stream \subseteq stream'
  PROVE  Holding' /\ \A w \in Workers : HoldsOn(w)
<1>1. \A w \in Workers : HoldsOn(w)
  BY Zenon DEF HoldsOn
<1>2. Holding'
  BY Zenon DEF Holding, Fit, TaskOf
<1>. QED BY <1>1, <1>2

\* A step that enqueues an entry which is no retry keeps the barriers.
LEMMA EnqueueBarriers ==
  ASSUME TypeOK, TypeOK', EntriesConsistent, Holding, Calm, Origins, Once, Barriers,
         NEW e, NEW t, XAdd(e, t, 0, 0),
         UNCHANGED <<worker, lastRead, pending, failed, inFlight>>,
         \A m \in Maintainers : /\ ClaimsOn(m)
                                /\ maint'[m].pc \in {"requeue", "markFailed"} => maint'[m] = maint[m]
  PROVE  Holding' /\ Calm' /\ Origins' /\ Once' /\ Barriers'
<1>1. PICK a : a = [id |-> nextId, ev |-> e, ts |-> t, retry |-> 0, orig |-> 0]
  BY Zenon
<1>2. /\ a.id = nextId /\ a.orig = 0
      /\ stream' = stream \union {a} /\ log' = log \union {a}
  BY <1>1 DEF XAdd
<1>3. Holding' /\ \A w \in Workers : HoldsOn(w)
  BY <1>2, HoldingLeft
<1>4. /\ \A x \in log' : x \in log \/ x = a
      /\ \A x \in log' : x \in log \/ x.orig = 0
      /\ log \subseteq log' /\ lastRead \in Nat /\ lastRead <= lastRead'
  BY <1>2 DEF TypeOK
<1>5. Calm' /\ Origins'
  BY <1>3, <1>4, OriginsKept, Zenon
<1>6. ASSUME NEW f \in failed PROVE f.id # a.id /\ f.id # 0
  <2>1. PICK x \in log : f = MemberOf(x)
    BY <1>6, Zenon DEF Origins, MemberOK
  <2>2. f.id = x.id
    BY <2>1 DEF MemberOf
  <2>. QED BY <1>2, <2>2 DEF EntriesConsistent, TypeOK, Entry
<1>7. ASSUME NEW m \in Maintainers, Claimed(m) PROVE maint[m].member.id # 0
  <2>1. PICK x \in log : maint[m].member = MemberOf(x)
    BY <1>7, Zenon DEF Origins, MemberOK
  <2>2. maint[m].member.id = x.id
    BY <2>1 DEF MemberOf
  <2>. QED BY <2>2 DEF EntriesConsistent, TypeOK, Entry
<1>8. Once'
  <2>1. /\ \A m \in Maintainers : maint'[m].pc \in {"requeue", "markFailed"} => maint'[m] = maint[m]
        /\ \A f \in failed' : f \in failed
    BY Zenon
  <2>2. \A m \in Maintainers : maint'[m].pc \in {"requeue", "markFailed"} =>
          \A f \in failed' : f.id # maint'[m].member.id
    BY <2>1, Zenon DEF Once, Claimed
  <2>3. \A m \in Maintainers : maint'[m].pc = "markFailed" => maint'[m].member.retry >= MaxRetries
    BY <2>1, Zenon DEF Once
  <2>4. ASSUME NEW m \in Maintainers, maint'[m].pc = "requeue"
        PROVE  /\ maint'[m].member.retry < MaxRetries
               /\ \A y \in log' : y.orig # maint'[m].member.id
               /\ \A n \in Maintainers : n # m /\ maint'[n].pc = "requeue"
                    => maint'[n].member.id # maint'[m].member.id
    <3>1. maint'[m] = maint[m] /\ maint[m].pc = "requeue" /\ Claimed(m)
      BY <2>1, <2>4, Zenon DEF Claimed
    <3>2. \A y \in log' : y.orig # maint[m].member.id
      BY <1>2, <1>4, <1>7, <3>1, Zenon DEF Once
    <3>3. \A n \in Maintainers : n # m /\ maint'[n].pc = "requeue"
            => maint'[n].member.id # maint[m].member.id
      BY <2>1, <3>1, Zenon DEF Once
    <3>4. maint[m].member.retry < MaxRetries
      BY <3>1, Zenon DEF Once
    <3>. QED BY <3>1, <3>2, <3>3, <3>4, Zenon
  <2>5. \A y \in log' : y.orig # 0 => \A f \in failed' : f.id # y.orig
    BY <1>4, <2>1, Zenon DEF Once
  <2>6. \A y, z \in log' : y.orig # 0 /\ y.orig = z.orig => y = z
    BY <1>4, Zenon DEF Once
  <2>. QED BY <2>2, <2>3, <2>4, <2>5, <2>6, Zenon DEF Once, Claimed
<1>9. Barriers'
  <2>1. \A f \in failed : \A x \in log' : x.id = f.id => Open(inFlight, TaskOf(x))
    BY <1>4, <1>6, Zenon DEF Barriers
  <2>. QED BY <2>1, Zenon DEF Barriers, TaskOf
<1>. QED BY <1>3, <1>5, <1>8, <1>9

\* A step that claims nothing and retries nothing leaves each member with its one retry.
LEMMA OnceLeft ==
  ASSUME Once, UNCHANGED <<failed, log>>,
         \A m \in Maintainers : maint'[m].pc \in {"requeue", "markFailed"} =>
           maint'[m].pc = maint[m].pc /\ maint'[m].member = maint[m].member
  PROVE  Once'
<1>1. ASSUME NEW m \in Maintainers, maint'[m].pc \in {"requeue", "markFailed"}
      PROVE  \A f \in failed : f.id # maint'[m].member.id
  BY <1>1, Zenon DEF Once, Claimed
<1>2. \A m \in Maintainers : maint'[m].pc = "markFailed" => maint'[m].member.retry >= MaxRetries
  BY Zenon DEF Once
<1>3. ASSUME NEW m \in Maintainers, maint'[m].pc = "requeue"
      PROVE  /\ maint'[m].member.retry < MaxRetries
             /\ \A y \in log : y.orig # maint'[m].member.id
             /\ \A n \in Maintainers : n # m /\ maint'[n].pc = "requeue"
                  => maint'[n].member.id # maint'[m].member.id
  <2>1. maint[m].pc = "requeue" /\ maint'[m].member = maint[m].member
    BY <1>3, Zenon
  <2>2. /\ maint[m].member.retry < MaxRetries
        /\ \A y \in log : y.orig # maint[m].member.id
    BY <2>1, Zenon DEF Once
  <2>3. ASSUME NEW n \in Maintainers, n # m, maint'[n].pc = "requeue"
        PROVE  maint'[n].member.id # maint[m].member.id
    <3>1. maint[n].pc = "requeue" /\ maint'[n].member = maint[n].member
      BY <2>3, Zenon
    <3>2. maint[n].member.id # maint[m].member.id
      BY <2>1, <2>3, <3>1, Zenon DEF Once
    <3>. QED BY <3>1, <3>2
  <2>. QED BY <2>1, <2>2, <2>3, Zenon
<1>4. /\ \A y \in log : y.orig # 0 => \A f \in failed : f.id # y.orig
      /\ \A y, z \in log : y.orig # 0 /\ y.orig = z.orig => y = z
  BY Zenon DEF Once
<1>. QED BY <1>1, <1>2, <1>3, <1>4, Zenon DEF Once, Claimed

\* A maintenance run that claims nothing and marks nothing keeps the barriers.
LEMMA IdleBarriers ==
  ASSUME TypeOK, TypeOK', Holding, Calm, Origins, Once, Barriers,
         UNCHANGED <<worker, stream, lastRead, pending, failed, log>>,
         \A i : Open(inFlight, i) => Open(inFlight', i),
         \A m \in Maintainers : /\ ClaimsOn(m)
                                /\ maint'[m].pc \in {"requeue", "markFailed"} => maint'[m] = maint[m]
  PROVE  Holding' /\ Calm' /\ Origins' /\ Once' /\ Barriers'
<1>1. Holding' /\ \A w \in Workers : HoldsOn(w)
  BY HoldingLeft
<1>2. Calm' /\ Origins'
  <2>1. lastRead <= lastRead' /\ log \subseteq log'
    BY DEF TypeOK
  <2>. QED BY <1>1, <2>1, OriginsKept, Zenon
<1>3. Once'
  BY OnceLeft, Zenon
<1>4. Barriers'
  BY Zenon DEF Barriers, TaskOf
<1>. QED BY <1>1, <1>2, <1>3, <1>4

\* Taking a member out of the failed set, for its retry or for good, keeps the barriers.
LEMMA TakeBarriers ==
  ASSUME TypeOK, TypeOK', EntriesConsistent, Holding, Calm, Origins, Once, Barriers,
         NEW m \in Maintainers, NEW f \in maint[m].due,
         UNCHANGED <<worker, stream, lastRead, pending, inFlight, log>>,
         failed' = failed \ {f},
         \A n \in Maintainers \ {m} : maint'[n] = maint[n],
         maint'[m].ids = {}, maint'[m].due \subseteq maint[m].due, maint'[m].member = f,
         \/ maint'[m].pc = "markFailed" /\ f.retry >= MaxRetries
         \/ maint'[m].pc = "requeue" /\ f.retry < MaxRetries /\ f \in failed
  PROVE  Holding' /\ Calm' /\ Origins' /\ Once' /\ Barriers'
<1>1. Holding' /\ \A w \in Workers : HoldsOn(w)
  BY HoldingLeft
<1>2. Calm' /\ Origins'
  <2>1. lastRead <= lastRead' /\ log \subseteq log' /\ \A g \in failed' : g \in failed
    BY DEF TypeOK
  <2>2. ClaimsOn(m)
    BY DEF ClaimsOn
  <2>3. \A n \in Maintainers \ {m} : ClaimsOn(n)
    BY Zenon DEF ClaimsOn, Calm
  <2>4. \A n \in Maintainers : ClaimsOn(n)
    BY <2>2, <2>3
  <2>. QED BY <1>1, <2>1, <2>4, OriginsKept, Zenon
<1>3. ASSUME NEW g \in failed' PROVE g \in failed /\ g.id # f.id
  <2>1. MemberOK(f) /\ MemberOK(g) /\ g # f /\ g \in failed
    <3>1. g \in failed /\ g # f
      BY <1>3, Zenon
    <3>. QED BY <3>1, Zenon DEF Origins
  <2>2. PICK x \in log, y \in log : f = MemberOf(x) /\ g = MemberOf(y)
    BY <2>1, Zenon DEF MemberOK
  <2>3. f.id = x.id /\ g.id = y.id
    BY <2>2 DEF MemberOf
  <2>. QED BY <2>1, <2>2, <2>3, Zenon DEF EntriesConsistent
<1>4. Once'
  <2>1. \A n \in Maintainers : maint'[n].pc \in {"requeue", "markFailed"} =>
          \A g \in failed' : g.id # maint'[n].member.id
    <3>1. ASSUME NEW n \in Maintainers, n # m, maint'[n].pc \in {"requeue", "markFailed"}
          PROVE  \A g \in failed : g.id # maint'[n].member.id
      <4>1. maint'[n] = maint[n]
        BY <3>1, Zenon
      <4>. QED BY <3>1, <4>1, Zenon DEF Once, Claimed
    <3>. QED BY <1>3, <3>1, Zenon
  <2>2. \A n \in Maintainers : maint'[n].pc = "markFailed" => maint'[n].member.retry >= MaxRetries
    BY Zenon DEF Once
  <2>3. ASSUME maint'[m].pc = "requeue"
        PROVE  /\ f.retry < MaxRetries
               /\ \A y \in log : y.orig # f.id
               /\ \A n \in Maintainers : n # m /\ maint[n].pc = "requeue"
                    => maint[n].member.id # f.id
    <3>1. f \in failed /\ f.retry < MaxRetries
      BY <2>3, Zenon
    <3>2. f.id # 0
      <4>1. PICK x \in log : f = MemberOf(x)
        BY <3>1, Zenon DEF Origins, MemberOK
      <4>2. f.id = x.id
        BY <4>1 DEF MemberOf
      <4>. QED BY <4>2 DEF EntriesConsistent, TypeOK, Entry
    <3>3. \A y \in log : y.orig # f.id
      BY <3>1, <3>2, Zenon DEF Once
    <3>4. \A n \in Maintainers : maint[n].pc = "requeue" => maint[n].member.id # f.id
      BY <3>1, Zenon DEF Once, Claimed
    <3>. QED BY <3>1, <3>3, <3>4, Zenon
  <2>4. ASSUME NEW n \in Maintainers, maint'[n].pc = "requeue"
        PROVE  /\ maint'[n].member.retry < MaxRetries
               /\ \A y \in log : y.orig # maint'[n].member.id
               /\ \A k \in Maintainers : k # n /\ maint'[k].pc = "requeue"
                    => maint'[k].member.id # maint'[n].member.id
    <3>1. CASE n = m
      <4>1. maint'[n].member = f /\ maint'[m].pc = "requeue"
        BY <2>4, <3>1, Zenon
      <4>2. \A k \in Maintainers : k # n => maint'[k] = maint[k]
        BY <3>1, Zenon
      <4>. QED BY <2>3, <3>1, <4>1, <4>2, Zenon
    <3>2. CASE n # m
      <4>1. maint'[n] = maint[n] /\ maint[n].pc = "requeue"
        BY <2>4, <3>2, Zenon
      <4>2. ASSUME NEW k \in Maintainers, k # n, maint'[k].pc = "requeue"
            PROVE  maint'[k].member.id # maint[n].member.id
        <5>1. CASE k = m
          BY <2>3, <3>2, <4>1, <4>2, <5>1, Zenon
        <5>2. CASE k # m
          <6>1. maint'[k] = maint[k]
            BY <5>2, Zenon
          <6>2. maint[k].pc = "requeue" => maint[k].member.id # maint[n].member.id
            BY <4>1, <4>2, Zenon DEF Once
          <6>. QED BY <4>2, <6>1, <6>2, Zenon
        <5>. QED BY <5>1, <5>2
      <4>3. maint[n].member.retry < MaxRetries /\ \A y \in log : y.orig # maint[n].member.id
        BY <4>1, Zenon DEF Once
      <4>. QED BY <4>1, <4>2, <4>3, Zenon
    <3>. QED BY <3>1, <3>2
  <2>5. \A y \in log : y.orig # 0 => \A g \in failed' : g.id # y.orig
    BY <1>3, Zenon DEF Once
  <2>6. \A y, z \in log : y.orig # 0 /\ y.orig = z.orig => y = z
    BY Zenon DEF Once
  <2>. QED BY <2>1, <2>2, <2>4, <2>5, <2>6, Zenon DEF Once, Claimed
<1>5. Barriers'
  BY <1>3, Zenon DEF Barriers, TaskOf
<1>. QED BY <1>1, <1>2, <1>4, <1>5

\* The retry of a claimed member is the only one, and keeps the barriers.
LEMMA RequeueBarriers ==
  ASSUME TypeOK, TypeOK', EntriesConsistent, Holding, Calm, Origins, Once, Barriers,
         NEW m \in Maintainers, Requeue(m)
  PROVE  Holding' /\ Calm' /\ Origins' /\ Once' /\ Barriers'
<1>0. /\ maint[m].pc = "requeue" /\ Claimed(m)
      /\ XAdd(maint[m].member.ev, maint[m].time, maint[m].member.retry, maint[m].member.id)
      /\ maint' = [maint EXCEPT ![m] = NextRetry(maint[m], maint[m].due)]
      /\ UNCHANGED <<worker, lastRead, pending, failed, inFlight>>
      /\ maint \in [Maintainers -> MaintState] /\ maint[m] \in MaintState
  BY DEF Requeue, Claimed, TypeOK
<1>1. PICK f : f = maint[m].member
  OBVIOUS
<1>2. PICK a : a = [id |-> nextId, ev |-> f.ev, ts |-> maint[m].time, retry |-> f.retry,
                    orig |-> f.id]
  BY Zenon
<1>3. /\ a.id = nextId /\ a.orig = f.id /\ a.ev = f.ev /\ a.retry = f.retry
      /\ stream' = stream \union {a} /\ log' = log \union {a}
  <2>1. a.id = nextId /\ a.orig = f.id /\ a.ev = f.ev /\ a.retry = f.retry
    BY <1>2
  <2>2. stream' = stream \union {a} /\ log' = log \union {a}
    BY <1>0, <1>1, <1>2 DEF XAdd
  <2>. QED BY <2>1, <2>2
<1>4. /\ maint'[m] = NextRetry(maint[m], maint[m].due)
      /\ \A n \in Maintainers \ {m} : maint'[n] = maint[n]
  BY <1>0
<1>5. /\ maint'[m].pc \in {"advance", "retry"} /\ maint'[m].ids = {}
      /\ maint'[m].due = maint[m].due
  <2>1. maint[m].ids = {}
    BY Zenon DEF Calm
  <2>. QED BY <1>0, <1>4, <2>1 DEF NextRetry, MaintState
<1>6. Holding' /\ \A w \in Workers : HoldsOn(w)
  BY <1>0, <1>3, HoldingLeft
<1>7. /\ \A x \in log' : x \in log \/ x = a
      /\ log \subseteq log' /\ lastRead \in Nat /\ lastRead <= lastRead'
  BY <1>0, <1>3 DEF TypeOK
<1>8. MemberOK(f) /\ f.retry < MaxRetries
  BY <1>0, <1>1, Zenon DEF Origins, Once
<1>9. PICK b \in log : f = MemberOf(b)
  BY <1>8, Zenon DEF MemberOK
<1>10. /\ f.id = b.id /\ f.ev = b.ev /\ f.retry = b.retry + 1
       /\ f.id \in Nat /\ f.id # 0
  BY <1>9 DEF MemberOf, EntriesConsistent, TypeOK, Entry
<1>11. RetryOK(a)'
  <2>1. Over(f.id)'
    BY <1>6, <1>7, <1>8, <1>10, OverKept, Zenon DEF MemberOK
  <2>2. Over(a.orig)'
    BY <1>3, <2>1, Zenon
  <2>. QED BY <1>3, <1>7, <1>8, <1>9, <1>10, <2>2, Zenon DEF RetryOK
<1>12. Calm' /\ Origins'
  <2>1. ClaimsOn(m)
    BY <1>5 DEF ClaimsOn
  <2>2. \A n \in Maintainers \ {m} : ClaimsOn(n)
    BY <1>4, Zenon DEF ClaimsOn, Calm
  <2>3. \A n \in Maintainers : ClaimsOn(n)
    BY <2>1, <2>2
  <2>4. \A y \in log' : y \in log \/ RetryOK(y)'
    BY <1>7, <1>11, Zenon
  <2>. QED BY <1>0, <1>6, <1>7, <2>3, <2>4, OriginsKept, Zenon
<1>13. ASSUME NEW g \in failed PROVE g.id # a.id /\ g.id # a.orig
  <2>1. PICK x \in log : g = MemberOf(x)
    BY Zenon DEF Origins, MemberOK
  <2>2. g.id = x.id
    BY <2>1 DEF MemberOf
  <2>3. g.id # a.id
    BY <1>3, <2>2 DEF EntriesConsistent, TypeOK, Entry
  <2>4. g.id # f.id
    BY <1>0, <1>1, Zenon DEF Once
  <2>. QED BY <1>3, <2>3, <2>4
<1>14. Once'
  <2>0. ASSUME NEW n \in Maintainers, maint'[n].pc \in {"requeue", "markFailed"}
        PROVE  maint'[n] = maint[n] /\ n # m
    BY <1>4, <1>5, <2>0
  <2>1. \A n \in Maintainers : maint'[n].pc \in {"requeue", "markFailed"} =>
          \A g \in failed' : g.id # maint'[n].member.id
    BY <1>0, <2>0, Zenon DEF Once, Claimed
  <2>2. \A n \in Maintainers : maint'[n].pc = "markFailed" => maint'[n].member.retry >= MaxRetries
    BY <2>0, Zenon DEF Once
  <2>3. ASSUME NEW n \in Maintainers, maint'[n].pc = "requeue"
        PROVE  /\ maint'[n].member.retry < MaxRetries
               /\ \A y \in log' : y.orig # maint'[n].member.id
               /\ \A k \in Maintainers : k # n /\ maint'[k].pc = "requeue"
                    => maint'[k].member.id # maint'[n].member.id
    <3>1. maint'[n] = maint[n] /\ n # m /\ maint[n].pc = "requeue"
      BY <2>0, <2>3, Zenon
    <3>2. a.orig # maint[n].member.id
      BY <1>0, <1>1, <1>3, <3>1, Zenon DEF Once
    <3>3. \A y \in log' : y.orig # maint[n].member.id
      BY <1>7, <3>1, <3>2, Zenon DEF Once
    <3>4. \A k \in Maintainers : k # n /\ maint'[k].pc = "requeue"
            => maint'[k].member.id # maint[n].member.id
      BY <2>0, <3>1, Zenon DEF Once
    <3>5. maint[n].member.retry < MaxRetries
      BY <3>1, Zenon DEF Once
    <3>. QED BY <3>1, <3>3, <3>4, <3>5, Zenon
  <2>4. \A y \in log' : y.orig # 0 => \A g \in failed' : g.id # y.orig
    BY <1>0, <1>7, <1>13, Zenon DEF Once
  <2>5. \A y \in log : y.orig # a.orig
    BY <1>0, <1>1, <1>3, Zenon DEF Once
  <2>6. \A y, z \in log' : y.orig # 0 /\ y.orig = z.orig => y = z
    BY <1>7, <2>5, Zenon DEF Once
  <2>. QED BY <2>1, <2>2, <2>3, <2>4, <2>6, Zenon DEF Once, Claimed
<1>15. Barriers'
  <2>1. \A g \in failed : \A x \in log' : x.id = g.id => Open(inFlight, TaskOf(x))
    BY <1>7, <1>13, Zenon DEF Barriers
  <2>. QED BY <1>0, <2>1, Zenon DEF Barriers, TaskOf
<1>. QED BY <1>6, <1>12, <1>14, <1>15

\* A step of a maintenance run keeps the barriers.
LEMMA MaintBarriers ==
  ASSUME TypeOK, TypeOK', EntriesConsistent, Holding, Calm, Origins, Once, Barriers,
         NEW m \in Maintainers,
         \/ StartMaintenance(m, {})
         \/ \E due \in SUBSET failed : ScanFailed(m, due)
         \/ MaintStep(m)
  PROVE  Holding' /\ Calm' /\ Origins' /\ Once' /\ Barriers'
<1>. DEFINE Goal == Holding' /\ Calm' /\ Origins' /\ Once' /\ Barriers'
<1>. USE DEF redisVars, dbVars
<1>0. /\ maint \in [Maintainers -> MaintState] /\ maint[m] \in MaintState
      /\ maint[m].ids = {}
      /\ maint[m].pc \notin {"timedOut", "ackMissing", "addFailed", "ack", "del", "restore"}
  BY Zenon DEF TypeOK, Calm
<1>i. \A i : UNCHANGED inFlight => (Open(inFlight, i) => Open(inFlight', i))
  BY OpenKept, Zenon
<1>m. ASSUME NEW t, maint' = [maint EXCEPT ![m] = t]
      PROVE  /\ maint'[m] = t
             /\ \A n \in Maintainers \ {m} : maint'[n] = maint[n]
  BY <1>0, <1>m
<1>d. /\ IdleMaint.ids = {} /\ IdleMaint.due = {} /\ IdleMaint.pc = "idle"
      /\ \A p : /\ [IdleMaint EXCEPT !.pc = p].pc = p
                /\ [IdleMaint EXCEPT !.pc = p].ids = {}
                /\ [IdleMaint EXCEPT !.pc = p].due = {}
  BY DEF IdleMaint
<1>o. ASSUME \A n \in Maintainers \ {m} : maint'[n] = maint[n], maint'[m].ids = {},
             maint'[m].pc \in {"idle", "scanFailed", "retry", "advance", "recover", "republish",
                               "resetCheckpoint", "advanceAgain", "readCheckpoint",
                               "saveCheckpoint"},
             maint'[m].due \subseteq maint[m].due \union failed
      PROVE  \A n \in Maintainers :
               /\ ClaimsOn(n)
               /\ maint'[n].pc \in {"requeue", "markFailed"} => maint'[n] = maint[n]
  <2>1. ClaimsOn(m) /\ maint'[m].pc \notin {"requeue", "markFailed"}
    BY <1>o DEF ClaimsOn
  <2>2. ASSUME NEW n \in Maintainers, n # m PROVE ClaimsOn(n) /\ maint'[n] = maint[n]
    BY <1>o, <2>2, Zenon DEF ClaimsOn, Calm
  <2>. QED BY <2>1, <2>2, Zenon
<1>q. ASSUME \A n \in Maintainers \ {m} : maint'[n] = maint[n], maint'[m].ids = {},
             maint'[m].pc \in {"idle", "scanFailed", "retry", "advance", "recover", "republish",
                               "resetCheckpoint", "advanceAgain", "readCheckpoint",
                               "saveCheckpoint"},
             maint'[m].due \subseteq maint[m].due \union failed,
             UNCHANGED <<worker, stream, lastRead, pending, failed, log>>,
             \A i : Open(inFlight, i) => Open(inFlight', i)
      PROVE  Goal
  BY <1>o, <1>q, IdleBarriers, Zenon
<1>1. CASE StartMaintenance(m, {})
  <2>1. /\ maint' = [maint EXCEPT ![m] = [IdleMaint EXCEPT !.pc = "scanFailed", !.ids = {}]]
        /\ UNCHANGED <<worker, stream, lastRead, pending, failed, log, inFlight>>
    BY <1>1 DEF StartMaintenance
  <2>2. /\ maint'[m] = [IdleMaint EXCEPT !.pc = "scanFailed", !.ids = {}]
        /\ \A n \in Maintainers \ {m} : maint'[n] = maint[n]
    BY <1>m, <2>1, Zenon
  <2>3. maint'[m].pc = "scanFailed" /\ maint'[m].ids = {} /\ maint'[m].due = {}
    BY <2>2 DEF IdleMaint
  <2>. QED BY <1>i, <1>q, <2>1, <2>2, <2>3
<1>2. ASSUME NEW due \in SUBSET failed, ScanFailed(m, due) PROVE Goal
  <2>1. /\ maint' = [maint EXCEPT ![m] =
                       [IdleMaint EXCEPT !.pc = IF due = {} THEN "advance" ELSE "retry",
                                         !.due = due, !.time = now']]
        /\ UNCHANGED <<worker, stream, lastRead, pending, failed, log, inFlight>>
    BY <1>2, Zenon DEF ScanFailed
  <2>2. /\ maint'[m] = [IdleMaint EXCEPT !.pc = IF due = {} THEN "advance" ELSE "retry",
                                         !.due = due, !.time = now']
        /\ \A n \in Maintainers \ {m} : maint'[n] = maint[n]
    BY <1>m, <2>1, Zenon
  <2>3. /\ maint'[m].pc \in {"advance", "retry"}
        /\ maint'[m].ids = {} /\ maint'[m].due = due
    BY <2>2 DEF IdleMaint
  <2>. QED BY <1>i, <1>q, <2>1, <2>2, <2>3
<1>3. CASE GiveUp(m)
  <2>1. PICK f \in maint[m].due :
          /\ f.retry >= MaxRetries
          /\ failed' = failed \ {f}
          /\ maint' = [maint EXCEPT ![m].pc = "markFailed", ![m].due = @ \ {f},
                                    ![m].member = f]
    BY <1>3, Zenon DEF GiveUp
  <2>2. UNCHANGED <<worker, stream, lastRead, pending, inFlight, log>>
    BY <1>3, Zenon DEF GiveUp
  <2>3. \A n \in Maintainers \ {m} : maint'[n] = maint[n]
    BY <1>0, <2>1
  <2>4. /\ maint'[m].pc = "markFailed" /\ maint'[m].ids = {} /\ maint'[m].member = f
        /\ maint'[m].due \subseteq maint[m].due
    BY <1>0, <2>1 DEF MaintState
  <2>. QED BY <2>1, <2>2, <2>3, <2>4, TakeBarriers, Zenon
<1>4. CASE Claim(m)
  <2>1. PICK f \in maint[m].due :
          /\ f.retry < MaxRetries
          /\ failed' = failed \ {f}
          /\ \/ /\ f \in failed
                /\ maint' = [maint EXCEPT ![m].pc = "requeue", ![m].due = @ \ {f},
                                          ![m].member = f]
             \/ /\ f \notin failed
                /\ maint' = [maint EXCEPT ![m] = NextRetry(@, @.due \ {f})]
    BY <1>4, Zenon DEF Claim
  <2>2. UNCHANGED <<worker, stream, lastRead, pending, inFlight, log>>
    BY <1>4, Zenon DEF Claim
  <2>3. CASE /\ f \in failed
             /\ maint' = [maint EXCEPT ![m].pc = "requeue", ![m].due = @ \ {f},
                                       ![m].member = f]
    <3>1. \A n \in Maintainers \ {m} : maint'[n] = maint[n]
      BY <1>0, <2>3
    <3>2. /\ maint'[m].pc = "requeue" /\ maint'[m].ids = {} /\ maint'[m].member = f
          /\ maint'[m].due \subseteq maint[m].due
      BY <1>0, <2>3 DEF MaintState
    <3>. QED BY <2>1, <2>2, <2>3, <3>1, <3>2, TakeBarriers, Zenon
  <2>4. CASE /\ f \notin failed
             /\ maint' = [maint EXCEPT ![m] = NextRetry(@, @.due \ {f})]
    <3>1. /\ maint'[m] = NextRetry(maint[m], maint[m].due \ {f})
          /\ \A n \in Maintainers \ {m} : maint'[n] = maint[n]
      BY <1>m, <2>4, Zenon
    <3>2. /\ maint'[m].pc \in {"advance", "retry"} /\ maint'[m].ids = {}
          /\ maint'[m].due \subseteq maint[m].due
      BY <1>0, <3>1 DEF MaintState, NextRetry
    <3>3. failed' = failed
      BY <2>1, <2>4
    <3>. QED BY <1>i, <1>q, <2>2, <3>1, <3>2, <3>3, Zenon
  <2>. QED BY <2>1, <2>3, <2>4
<1>5. CASE Requeue(m)
  BY <1>5, RequeueBarriers
<1>6. CASE GiveUpMark(m)
  <2>1. /\ maint[m].pc = "markFailed"
        /\ MarkComplete(maint[m].member.id, now')
        /\ maint' = [maint EXCEPT ![m] = NextRetry(maint[m], maint[m].due)]
        /\ UNCHANGED <<worker, stream, lastRead, pending, failed, log>>
    BY <1>6, Zenon DEF GiveUpMark
  <2>2. /\ maint'[m] = NextRetry(maint[m], maint[m].due)
        /\ \A n \in Maintainers \ {m} : maint'[n] = maint[n]
    BY <1>m, <2>1, Zenon
  <2>3. /\ maint'[m].pc \in {"advance", "retry"} /\ maint'[m].ids = {}
        /\ maint'[m].due = maint[m].due
    BY <1>0, <2>2 DEF MaintState, NextRetry
  <2>4. \A n \in Maintainers :
          /\ ClaimsOn(n)
          /\ maint'[n].pc \in {"requeue", "markFailed"} => maint'[n] = maint[n]
    BY <1>o, <2>2, <2>3
  <2>5. Holding' /\ \A w \in Workers : HoldsOn(w)
    BY <2>1, HoldingLeft
  <2>6. Calm' /\ Origins'
    <3>1. lastRead <= lastRead' /\ log \subseteq log'
      BY <2>1 DEF TypeOK
    <3>. QED BY <2>1, <2>4, <2>5, <3>1, OriginsKept, Zenon
  <2>7. Once'
    <3>1. \A n \in Maintainers : maint'[n].pc \in {"requeue", "markFailed"} =>
            maint'[n].pc = maint[n].pc /\ maint'[n].member = maint[n].member
      BY <2>4, Zenon
    <3>. QED BY <2>1, <3>1, OnceLeft, Zenon
  <2>8. /\ \A f \in failed : \A x \in log : x.id = f.id => TaskOf(x) # maint[m].member.id
        /\ \A v \in Workers : worker[v].pc \in {"run", "readRetry", "addFailed"}
             => TaskOf(worker[v].msg) # maint[m].member.id
    BY <2>1, GiveUpApart, Zenon
  <2>9. \A i : i # maint[m].member.id /\ Open(inFlight, i) => Open(inFlight', i)
    BY <2>1, OpenKept, Zenon
  <2>10. Barriers'
    <3>1. \A f \in failed : \A x \in log : x.id = f.id => Open(inFlight', TaskOf(x))
      BY <2>8, <2>9, Zenon DEF Barriers
    <3>2. \A v \in Workers : worker[v].pc \in {"run", "readRetry", "addFailed"}
            => Open(inFlight', TaskOf(worker[v].msg))
      BY <2>8, <2>9, Zenon DEF Barriers
    <3>. QED BY <2>1, <3>1, <3>2, Zenon DEF Barriers, TaskOf
  <2>. QED BY <2>5, <2>6, <2>7, <2>10
<1>7. CASE AdvanceCheckpoint(m)
  <2>1. /\ maint' = [maint EXCEPT ![m] = [IdleMaint EXCEPT !.pc = "readCheckpoint"]]
        /\ AdvanceScript
        /\ UNCHANGED <<worker, stream, lastRead, pending, failed, log>>
    BY <1>7, Zenon DEF AdvanceCheckpoint
  <2>2. /\ maint'[m] = [IdleMaint EXCEPT !.pc = "readCheckpoint"]
        /\ \A n \in Maintainers \ {m} : maint'[n] = maint[n]
    BY <1>m, <2>1, Zenon
  <2>3. maint'[m].pc = "readCheckpoint" /\ maint'[m].ids = {} /\ maint'[m].due = {}
    BY <1>d, <2>2
  <2>4. \A i : Open(inFlight, i) => Open(inFlight', i)
    BY <2>1, OpenKept, Zenon
  <2>. QED BY <1>q, <2>1, <2>2, <2>3, <2>4
<1>8. CASE CheckpointMissing(m)
  <2>1. /\ maint' = [maint EXCEPT ![m] = [IdleMaint EXCEPT
                       !.pc = IF maint[m].pc = "advance" THEN "recover" ELSE "readCheckpoint"]]
        /\ UNCHANGED <<worker, stream, lastRead, pending, failed, log, inFlight>>
    BY <1>8 DEF CheckpointMissing
  <2>2. /\ maint'[m] = [IdleMaint EXCEPT
                       !.pc = IF maint[m].pc = "advance" THEN "recover" ELSE "readCheckpoint"]
        /\ \A n \in Maintainers \ {m} : maint'[n] = maint[n]
    BY <1>m, <2>1, Zenon
  <2>3. /\ maint'[m].pc \in {"recover", "readCheckpoint"}
        /\ maint'[m].ids = {} /\ maint'[m].due = {}
    BY <1>d, <2>2
  <2>. QED BY <1>i, <1>q, <2>1, <2>2, <2>3
<1>9. CASE Recover(m)
  <2>1. /\ maint' = [maint EXCEPT ![m] = [maint[m] EXCEPT !.evs = Replayed,
                       !.pc = IF Replayed = {} THEN "resetCheckpoint" ELSE "republish"]]
        /\ UNCHANGED <<worker, stream, lastRead, pending, failed, log, inFlight>>
    BY <1>9, Zenon DEF Recover
  <2>2. /\ maint'[m] = [maint[m] EXCEPT !.evs = Replayed,
                       !.pc = IF Replayed = {} THEN "resetCheckpoint" ELSE "republish"]
        /\ \A n \in Maintainers \ {m} : maint'[n] = maint[n]
    BY <1>m, <2>1, Zenon
  <2>3. /\ maint'[m].pc \in {"resetCheckpoint", "republish"}
        /\ maint'[m].ids = {} /\ maint'[m].due = maint[m].due
    BY <1>0, <2>2 DEF MaintState
  <2>. QED BY <1>i, <1>q, <2>1, <2>2, <2>3
<1>10. CASE Republish(m)
  <2>1. PICK e \in Oldest(maint[m].evs) :
          /\ XAdd(e, created[e], 0, 0)
          /\ maint' = [maint EXCEPT ![m] = NextRepublish(maint[m], e)]
    BY <1>10, Zenon DEF Republish
  <2>2. UNCHANGED <<worker, lastRead, pending, failed, inFlight>>
    BY <1>10, Zenon DEF Republish
  <2>3. /\ maint'[m] = NextRepublish(maint[m], e)
        /\ \A n \in Maintainers \ {m} : maint'[n] = maint[n]
    BY <1>m, <2>1, Zenon
  <2>4. /\ maint'[m].pc \in {"resetCheckpoint", "republish"}
        /\ maint'[m].ids = {} /\ maint'[m].due = maint[m].due
    BY <1>0, <2>3 DEF MaintState, NextRepublish
  <2>5. \A n \in Maintainers :
          /\ ClaimsOn(n)
          /\ maint'[n].pc \in {"requeue", "markFailed"} => maint'[n] = maint[n]
    BY <1>o, <2>3, <2>4
  <2>. QED BY <2>1, <2>2, <2>5, EnqueueBarriers, Zenon
<1>11. CASE ResetCheckpoint(m)
  <2>1. /\ maint' = [maint EXCEPT ![m] = [maint[m] EXCEPT !.pc = "advanceAgain"]]
        /\ UNCHANGED <<worker, stream, lastRead, pending, failed, log, inFlight>>
    BY <1>11 DEF ResetCheckpoint
  <2>2. /\ maint'[m] = [maint[m] EXCEPT !.pc = "advanceAgain"]
        /\ \A n \in Maintainers \ {m} : maint'[n] = maint[n]
    BY <1>m, <2>1, Zenon
  <2>3. /\ maint'[m].pc = "advanceAgain"
        /\ maint'[m].ids = {} /\ maint'[m].due = maint[m].due
    BY <1>0, <2>2 DEF MaintState
  <2>. QED BY <1>i, <1>q, <2>1, <2>2, <2>3
<1>12. CASE ReadCheckpoint(m)
  <2>1. /\ maint' = [maint EXCEPT ![m] =
                       IF checkpoint = Missing THEN IdleMaint
                       ELSE [maint[m] EXCEPT !.pc = "saveCheckpoint", !.value = checkpoint]]
        /\ UNCHANGED <<worker, stream, lastRead, pending, failed, log, inFlight>>
    BY <1>12 DEF ReadCheckpoint
  <2>2. /\ maint'[m] = IF checkpoint = Missing THEN IdleMaint
                       ELSE [maint[m] EXCEPT !.pc = "saveCheckpoint", !.value = checkpoint]
        /\ \A n \in Maintainers \ {m} : maint'[n] = maint[n]
    BY <1>m, <2>1, Zenon
  <2>3. /\ maint'[m].pc \in {"idle", "saveCheckpoint"}
        /\ maint'[m].ids = {} /\ maint'[m].due \subseteq maint[m].due
    <3>1. CASE checkpoint = Missing
      BY <1>d, <2>2, <3>1
    <3>2. CASE checkpoint # Missing
      <4>1. maint'[m] = [maint[m] EXCEPT !.pc = "saveCheckpoint", !.value = checkpoint]
        BY <2>2, <3>2, Zenon
      <4>. QED BY <1>0, <4>1 DEF MaintState
    <3>. QED BY <3>1, <3>2
  <2>. QED BY <1>i, <1>q, <2>1, <2>2, <2>3
<1>13. CASE SaveCheckpoint(m)
  <2>1. /\ maint' = [maint EXCEPT ![m] = IdleMaint]
        /\ UNCHANGED <<worker, stream, lastRead, pending, failed, log, inFlight>>
    BY <1>13 DEF SaveCheckpoint
  <2>2. /\ maint'[m] = IdleMaint
        /\ \A n \in Maintainers \ {m} : maint'[n] = maint[n]
    BY <1>m, <2>1, Zenon
  <2>. QED BY <1>d, <1>i, <1>q, <2>1, <2>2
<1>14. /\ ~TimedOutRead(m) /\ ~TimedOutAckMissing(m) /\ ~TimedOutAddFailed(m)
       /\ ~TimedOutAck(m) /\ ~TimedOutDel(m) /\ ~Restore(m)
  BY <1>0, Zenon DEF TimedOutRead, TimedOutAckMissing, TimedOutAddFailed, TimedOutAck,
     TimedOutDel, Restore
<1>. QED BY <1>1, <1>2, <1>3, <1>4, <1>5, <1>6, <1>7, <1>8, <1>9, <1>10, <1>11, <1>12,
            <1>13, <1>14, Zenon DEF MaintStep

\* A step of a producer keeps the barriers.
LEMMA ProducerBarriers ==
  ASSUME TypeOK, TypeOK', EntriesConsistent, Holding, Calm, Origins, Once, Barriers,
         NEW e \in Events, Producer(e)
  PROVE  Holding' /\ Calm' /\ Origins' /\ Once' /\ Barriers'
<1>. USE DEF redisVars, dbVars
<1>1. ASSUME UNCHANGED maint
      PROVE  \A n \in Maintainers :
               /\ ClaimsOn(n)
               /\ maint'[n].pc \in {"requeue", "markFailed"} => maint'[n] = maint[n]
  BY <1>1, Zenon DEF ClaimsOn, Calm
<1>2. ASSUME UNCHANGED <<worker, stream, lastRead, pending, failed, log, maint, inFlight>>
      PROVE  Holding' /\ Calm' /\ Origins' /\ Once' /\ Barriers'
  <2>1. \A i : Open(inFlight, i) => Open(inFlight', i)
    BY <1>2, OpenKept, Zenon
  <2>. QED BY <1>1, <1>2, <2>1, IdleBarriers, Zenon
<1>3. CASE CreateEvent(e)
  BY <1>2, <1>3, Zenon DEF CreateEvent
<1>4. CASE EmitEvent(e)
  <2>1. PICK t : XAdd(e, t, 0, 0)
    BY <1>4, Zenon DEF EmitEvent
  <2>2. UNCHANGED <<worker, lastRead, pending, failed, inFlight, maint>>
    BY <1>4, Zenon DEF EmitEvent
  <2>. QED BY <1>1, <2>1, <2>2, EnqueueBarriers, Zenon
<1>5. CASE EmitEventFails(e)
  BY <1>2, <1>5, Zenon DEF EmitEventFails
<1>. QED BY <1>3, <1>4, <1>5 DEF Producer

\* Initially nothing is held, claimed or waiting.
LEMMA BarrierInit == Init => BarrierInv
<1>. SUFFICES ASSUME Init PROVE Holding /\ Calm /\ Origins /\ Once /\ Barriers
  BY Zenon DEF BarrierInv
<1>1. /\ \A w \in Workers : worker[w].pc = "idle"
      /\ pending = {} /\ failed = {} /\ log = {}
      /\ \A m \in Maintainers : maint[m].pc = "idle" /\ maint[m].ids = {} /\ maint[m].due = {}
  BY DEF Init, IdleWorker, IdleMaint
<1>2. Holding
  BY <1>1, Zenon DEF Holding, Fit
<1>3. Calm /\ Origins /\ Once
  BY <1>1, Zenon DEF Calm, Origins, Once, Claimed
<1>4. Barriers
  BY <1>1, Zenon DEF Barriers
<1>. QED BY <1>2, <1>3, <1>4

\* Every step keeps the barriers until a thread lags or dies, a command of a maintenance
\* run fails or Redis loses its data.
LEMMA BarrierStep ==
  TypeOK /\ TypeOK' /\ EntriesConsistent /\ EntriesConsistent' /\ BarrierInv /\ [Next]_vars
    => BarrierInv'
<1>. SUFFICES ASSUME TypeOK, TypeOK', EntriesConsistent, EntriesConsistent', BarrierInv,
                     [Next]_vars, NoLag'
              PROVE  (Holding /\ Calm /\ Origins /\ Once /\ Barriers)'
  BY Zenon DEF BarrierInv
<1>. DEFINE Goal == Holding' /\ Calm' /\ Origins' /\ Once' /\ Barriers'
<1>0. /\ Holding /\ Calm /\ Origins /\ Once /\ Barriers
      /\ ~Fault("worker") /\ ~Fault("slow") /\ ~Fault("maint") /\ ~Fault("loss")
  BY NoLagBack, Zenon DEF BarrierInv
<1>1. CASE UNCHANGED vars
  <2>1. /\ UNCHANGED <<worker, stream, lastRead, pending, failed, log, maint, inFlight>>
        /\ \A i : Open(inFlight, i) => Open(inFlight', i)
    BY <1>1, OpenKept DEF vars
  <2>2. \A n \in Maintainers :
          /\ ClaimsOn(n)
          /\ maint'[n].pc \in {"requeue", "markFailed"} => maint'[n] = maint[n]
    BY <1>0, <2>1, Zenon DEF ClaimsOn, Calm
  <2>. QED BY <1>0, <2>1, <2>2, IdleBarriers, Zenon
<1>2. ASSUME NEW e \in Events, Producer(e) PROVE Goal
  BY <1>0, <1>2, ProducerBarriers, Zenon
<1>3. ASSUME NEW w \in Workers,
             \/ WorkerStep(w) \/ AddToInFlightFails(w) \/ HandlerFails(w)
             \/ CompleteReadFails(w) \/ WorkerFault(w)
      PROVE  Goal
  <2>1. WorkerStep(w) \/ HandlerFails(w)
    BY <1>0, <1>3, Zenon DEF AddToInFlightFails, CompleteReadFails, WorkerFault
  <2>. QED BY <1>0, <2>1, WorkerBarriers, Zenon
<1>4. ASSUME NEW m \in Maintainers,
             \/ \E ids \in SUBSET pending : StartMaintenance(m, ids)
             \/ \E due \in SUBSET failed : ScanFailed(m, due)
             \/ MaintStep(m) \/ GiveUpRemoveFails(m) \/ MaintCallFails(m) \/ MaintCrash(m)
      PROVE  Goal
  <2>1. ASSUME NEW ids \in SUBSET pending, StartMaintenance(m, ids)
        PROVE  StartMaintenance(m, {})
    <3>1. ids \intersect Held = {}
      BY <1>0, <2>1, Zenon DEF StartMaintenance
    <3>2. \A i \in ids : \E w \in Workers : worker[w].pc # "idle" /\ worker[w].msg.id = i
      BY <1>0, <2>1, Zenon DEF Holding
    <3>3. \A i \in ids : i \in Held
      BY <3>2 DEF Held
    <3>4. ids = {}
      BY <3>1, <3>3
    <3>. QED BY <2>1, <3>4
  <2>2. \/ StartMaintenance(m, {}) \/ (\E due \in SUBSET failed : ScanFailed(m, due))
        \/ MaintStep(m)
    BY <1>0, <1>4, <2>1, Zenon DEF GiveUpRemoveFails, MaintCallFails, MaintCrash
  <2>. QED BY <1>0, <2>2, MaintBarriers, Zenon
<1>5. ~RedisLoss
  BY <1>0, Zenon DEF RedisLoss
<1>. QED BY <1>1, <1>2, <1>3, <1>4, <1>5, Zenon DEF Next

\* "Failed tasks remain unmarked to act as checkpoint barriers" is true for any number of
\* events, threads, maintenance runs and retries while no thread dies or lags and no
\* maintenance run fails: Complete, the retries and the permanent failures of other
\* messages never mark the task of a message that waits in the failed set.
THEOREM FailedHoldsCheckpoint == Spec => []FailedTaskIsBarrier
<1>1. ASSUME TypeOK, EntriesConsistent, BarrierInv PROVE FailedTaskIsBarrier
  <2>. SUFFICES ASSUME NoLag, NEW f \in failed
                PROVE  \E t \in inFlight : ~t.done /\ \E x \in log : x.id = t.id /\ x.ev = f.ev
    BY Zenon DEF FailedTaskIsBarrier, NoLag
  <2>1. Origins /\ Barriers
    BY <1>1, Zenon DEF BarrierInv
  <2>2. PICK x \in log : f = MemberOf(x)
    BY <2>1, Zenon DEF Origins, MemberOK
  <2>3. f.id = x.id /\ f.ev = x.ev
    BY <2>2 DEF MemberOf
  <2>4. PICK t \in inFlight : t.id = TaskOf(x) /\ ~t.done
    BY <2>1, <2>3, Zenon DEF Barriers, Open
  <2>5. CASE x.orig = 0
    BY <2>3, <2>4, <2>5, Zenon DEF TaskOf
  <2>6. CASE x.orig # 0
    <3>1. PICK y \in log : y.id = x.orig /\ y.ev = x.ev
      BY <2>1, <2>6, Zenon DEF Origins, RetryOK
    <3>. QED BY <2>3, <2>4, <2>6, <3>1, Zenon DEF TaskOf
  <2>. QED BY <2>5, <2>6
<1>2. Spec => [](TypeOK /\ EntriesConsistent)
  <2>1. Init => EntriesConsistent
    BY DEF Init, EntriesConsistent, IdleWorker, IdleMaint
  <2>. QED BY <2>1, TypeCorrect, EntriesStep, PTL DEF Spec
<1>3. Spec => []BarrierInv
  BY <1>2, BarrierInit, BarrierStep, PTL DEF Spec
<1>. QED BY <1>1, <1>2, <1>3, PTL
=============================================================================
