------------------------- MODULE TaskQueueDelivery -------------------------
(* At-least-once delivery of the task queue, for any number of events,     *)
(* threads and maintainers: DeliveryInv is inductive and implies that no   *)
(* event that reached the stream is lost, and the task queue implements    *)
(* EventDelivery.                                                          *)
EXTENDS TaskQueueProofs

-----------------------------------------------------------------------------
(* An entry that is acknowledged has been replaced. *)

\* What takes over from an entry takes over from the earlier ones as well.
LEMMA CoverWeaken ==
  ASSUME TypeOK, NEW e, NEW i \in Nat, NEW j \in Nat, i <= j, Cover(e, j)
  PROVE  Cover(e, i)
<1>1. /\ \A x \in stream : x.id \in Nat
      /\ \A f \in failed : f.id \in Nat
      /\ \A m \in Maintainers : maint[m].member.id \in Nat
  BY Zenon DEF TypeOK, Entry, FailedMember, MaintState
<1>. QED BY <1>1 DEF Cover

\* A step that keeps every live entry, and replaces a failed or a claimed member
\* only by what takes over from it, keeps every cover.
LEMMA CoverKept ==
  ASSUME TypeOK, TypeOK', NEW e, NEW i \in Nat, Cover(e, i),
         resolved \subseteq resolved',
         \A x \in stream : Live(x) => x \in stream' /\ Live(x)',
         \A f \in failed : \/ f \in failed' \/ f.ev \in resolved'
                           \/ \E m \in Maintainers : /\ maint'[m].pc = "requeue"
                                                     /\ maint'[m].member = f,
         \A m \in Maintainers : maint[m].pc \in {"requeue", "restore"} =>
           \/ maint'[m].pc = maint[m].pc /\ maint'[m].member = maint[m].member
           \/ maint[m].member \in failed'
           \/ \E x \in stream' : /\ x.ev = maint[m].member.ev
                                 /\ x.id > maint[m].member.id
                                 /\ Live(x)'
  PROVE  Cover(e, i)'
<1>1. /\ \A x \in stream' : x.id \in Nat
      /\ \A m \in Maintainers : maint[m].member.id \in Nat
  BY DEF TypeOK, Entry, MaintState, FailedMember
<1>2. CASE e \in resolved
  BY <1>2 DEF Cover
<1>3. ASSUME NEW x \in stream, x.ev = e, x.id > i, Live(x) PROVE Cover(e, i)'
  BY <1>3 DEF Cover
<1>4. ASSUME NEW f \in failed, f.ev = e, f.id >= i PROVE Cover(e, i)'
  BY <1>4 DEF Cover
<1>5. ASSUME NEW m \in Maintainers, maint[m].pc \in {"requeue", "restore"},
             maint[m].member.ev = e, maint[m].member.id >= i
      PROVE  Cover(e, i)'
  <2>1. CASE maint'[m].pc = maint[m].pc /\ maint'[m].member = maint[m].member
    BY <1>5, <2>1, Zenon DEF Cover
  <2>2. CASE maint[m].member \in failed'
    BY <1>5, <2>2 DEF Cover
  <2>3. ASSUME NEW x \in stream', x.ev = maint[m].member.ev,
               x.id > maint[m].member.id, Live(x)'
        PROVE  Cover(e, i)'
    <3>1. x.id > i
      BY <1>1, <1>5, <2>3
    <3>. QED BY <1>5, <2>3, <3>1 DEF Cover
  <2>. QED BY <1>5, <2>1, <2>2, <2>3
<1>. QED BY <1>2, <1>3, <1>4, <1>5 DEF Cover

\* The acknowledgement of an entry that is covered keeps every cover.
LEMMA CoverAcked ==
  ASSUME TypeOK, TypeOK', EntriesConsistent, NEW a \in log,
         a.id \in pending => Cover(a.ev, a.id),
         pending' = pending \ {a.id},
         UNCHANGED <<stream, lastRead, failed, resolved>>,
         \A m \in Maintainers : maint[m].pc \in {"requeue", "restore"} =>
           maint'[m].pc = maint[m].pc /\ maint'[m].member = maint[m].member
  PROVE  /\ \A e : \A i \in Nat : Cover(e, i) => Cover(e, i)'
         /\ \A x \in stream : Live(x) => Live(x)' \/ Cover(x.ev, x.id)'
<1>1. /\ \A x \in stream : x.id \in Nat /\ x \in log
      /\ \A f \in failed : f.id \in Nat
      /\ \A m \in Maintainers : maint[m].member.id \in Nat /\ maint'[m].member.id \in Nat
      /\ a.id \in Nat /\ lastRead \in Nat
  BY DEF TypeOK, Entry, FailedMember, MaintState, EntriesConsistent
<1>2. \A x \in stream : x.id # a.id /\ Live(x) => Live(x)'
  BY DEF Live
<1>3. ASSUME Cover(a.ev, a.id) PROVE Cover(a.ev, a.id)'
  BY <1>1, <1>2, <1>3 DEF Cover
<1>4. \A x \in stream : x.id = a.id => x = a
  BY <1>1 DEF EntriesConsistent
<1>5. \A x \in stream : Live(x) => Live(x)' \/ (x = a /\ Cover(a.ev, a.id)')
  <2>1. ASSUME NEW x \in stream, Live(x), ~Live(x)' PROVE x = a /\ Cover(a.ev, a.id)'
    <3>1. x.id = a.id /\ x.id \in pending
      BY <2>1, Zenon DEF Live
    <3>. QED BY <1>3, <1>4, <3>1
  <2>. QED BY <2>1
<1>6. ASSUME NEW e, NEW i \in Nat, Cover(e, i) PROVE Cover(e, i)'
  <2>1. ASSUME NEW x \in stream, x.ev = e, x.id > i, Live(x) PROVE Cover(e, i)'
    <3>1. CASE Live(x)'
      BY <2>1, <3>1 DEF Cover
    <3>2. CASE x = a /\ Cover(a.ev, a.id)'
      <4>1. /\ a.ev = e /\ a.id > i
            /\ \A y \in stream' : y.id \in Nat
            /\ \A f \in failed' : f.id \in Nat
        BY <1>1, <2>1, <3>2
      <4>. QED BY <1>1, <3>2, <4>1 DEF Cover
    <3>. QED BY <1>5, <2>1, <3>1, <3>2
  <2>2. CASE e \in resolved
    BY <2>2 DEF Cover
  <2>3. CASE \E f \in failed : f.ev = e /\ f.id >= i
    BY <2>3 DEF Cover
  <2>4. CASE \E m \in Maintainers : /\ maint[m].pc \in {"requeue", "restore"}
                                    /\ maint[m].member.ev = e
                                    /\ maint[m].member.id >= i
    BY <2>4, Zenon DEF Cover
  <2>. QED BY <1>6, <2>1, <2>2, <2>3, <2>4, Zenon DEF Cover
<1>. QED BY <1>5, <1>6, Zenon

\* What a step may make of the state of a thread.
WorkerKept(w) ==
  LET s == worker[w]
      t == worker'[w]
  IN
  /\ t.pc # "idle" => (s.pc # "idle" /\ t.msg = s.msg) \/ t.msg.id <= lastRead'
  /\ t.pc \in {"readMessage", "ack"} =>
       \/ s.pc \in {"readMessage", "ack"} /\ t.msg = s.msg
       \/ Cover(worker[w].msg.ev, worker[w].msg.id)'
  /\ t.pc = "del" => (s.pc = "del" /\ t.msg = s.msg) \/ t.msg.id \notin pending'

\* What a step may make of the state of a maintenance run.
MaintKept(m) ==
  LET s == maint[m]
      t == maint'[m]
      Same == t.pc = s.pc /\ t.msg = s.msg
  IN
  /\ t.ids \subseteq s.ids \union pending
  /\ t.pc \in {"ackMissing", "addFailed"} => Same \/ t.msg.id \in s.ids
  /\ t.pc = "ackMissing" => Same \/ XRange(t.msg.id) = {}
  /\ t.pc = "ack" => \/ Same
                     \/ /\ s.pc = "addFailed" /\ t.msg = s.msg
                        /\ Cover(maint[m].msg.ev, maint[m].msg.id)'
  /\ t.pc = "del" => \/ Same
                     \/ s.pc = "ack" /\ t.msg = s.msg /\ t.msg.id \notin pending'

\* What a step may make of the stream.
StreamKept ==
  /\ \A e : \A i \in Nat : Cover(e, i) => Cover(e, i)'
  /\ \A x \in stream : Live(x) => (x \in stream' /\ Live(x)') \/ Cover(x.ev, x.id)'
  /\ \A x \in log' : x \in log \/ (x \in stream' /\ Live(x)')
  /\ \A x \in stream' : x \in stream \/ x.id >= nextId
  /\ lastRead <= lastRead'
  /\ \A i \in pending' : i \in pending \/ i > lastRead

\* A step that keeps the stream and what every thread and run holds keeps the handover.
LEMMA HandoverKept ==
  ASSUME TypeOK, TypeOK', EntriesConsistent, EntriesConsistent', Handover, StreamKept,
         \A w \in Workers : WorkerKept(w), \A m \in Maintainers : MaintKept(m)
  PROVE  Handover'
<1>1. /\ lastRead \in Nat /\ lastRead' \in Nat /\ lastRead <= lastRead'
      /\ pending \subseteq Nat /\ pending' \subseteq Nat
      /\ \A x \in log' : x.id \in Nat
      /\ nextId \in Nat
  BY DEF TypeOK, Entry, StreamKept
<1>2. /\ \A w \in Workers : worker[w].msg.id \in Nat /\ worker'[w].msg.id \in Nat
      /\ \A m \in Maintainers : /\ maint[m].msg.id \in Nat /\ maint'[m].msg.id \in Nat
                                /\ maint[m].ids \subseteq Nat
  BY Zenon DEF TypeOK, WorkerState, MaintState, Entry
<1>a. \A i \in Nat : i <= lastRead => i <= lastRead'
  BY <1>1
<1>b. \A i \in Nat : i <= lastRead /\ i \in pending' => i \in pending
  <2>1. \A i \in pending' : i \in pending \/ i > lastRead
    BY Zenon DEF StreamKept
  <2>. QED BY <1>1, <2>1
<1>3. \A x \in log' : (x \in stream' /\ Live(x)') \/ Cover(x.ev, x.id)'
  BY <1>1, Zenon DEF StreamKept, Handover
<1>4. ASSUME NEW w \in Workers
      PROVE  /\ worker'[w].pc # "idle" => worker'[w].msg.id <= lastRead'
             /\ worker'[w].pc \in {"readMessage", "ack"} /\ worker'[w].msg.id \in pending'
                  => Cover(worker[w].msg.ev, worker[w].msg.id)'
             /\ worker'[w].pc = "del" => worker'[w].msg.id \notin pending'
  <2>1. worker'[w].pc # "idle" => worker'[w].msg.id <= lastRead'
    BY <1>2, <1>a, ZenonT(30) DEF WorkerKept, Handover
  <2>2. ASSUME worker'[w].pc \in {"readMessage", "ack"}, worker'[w].msg.id \in pending'
        PROVE  Cover(worker[w].msg.ev, worker[w].msg.id)'
    <3>1. CASE worker[w].pc \in {"readMessage", "ack"} /\ worker'[w].msg = worker[w].msg
      <4>1. worker[w].msg.id \in pending
        BY <1>2, <1>b, <2>2, <3>1, Zenon DEF Handover
      <4>2. Cover(worker[w].msg.ev, worker[w].msg.id)
        BY <3>1, <4>1, Zenon DEF Handover
      <4>3. ASSUME NEW e, NEW i, e = worker[w].msg.ev, i = worker[w].msg.id
            PROVE  Cover(e, i)'
        BY <1>2, <4>2, <4>3, Zenon DEF StreamKept
      <4>. QED BY <3>1, <4>3, SMTT(30) DEF Cover
    <3>. QED BY <2>2, <3>1, Zenon DEF WorkerKept
  <2>3. ASSUME worker'[w].pc = "del" PROVE worker'[w].msg.id \notin pending'
    BY <1>2, <1>b, <2>3, ZenonT(30) DEF WorkerKept, Handover
  <2>. QED BY <2>1, <2>2, <2>3, Zenon
<1>5. ASSUME NEW m \in Maintainers
      PROVE  /\ \A i \in maint'[m].ids : i <= lastRead'
             /\ maint'[m].pc \in {"ackMissing", "addFailed", "ack", "del"} =>
                  maint'[m].msg.id <= lastRead'
             /\ maint'[m].pc = "ackMissing" => (XRange(maint[m].msg.id) = {})'
             /\ maint'[m].pc = "ack" /\ maint'[m].msg.id \in pending'
                  => Cover(maint[m].msg.ev, maint[m].msg.id)'
             /\ maint'[m].pc = "del" => maint'[m].msg.id \notin pending'
  <2>1. \A i \in maint'[m].ids : i <= lastRead'
    <3>1. ASSUME NEW i \in maint'[m].ids PROVE i \in maint[m].ids \union pending
      BY <3>1, Zenon DEF MaintKept
    <3>2. ASSUME NEW i \in maint[m].ids \union pending PROVE i <= lastRead
      BY Zenon DEF Handover, EntriesConsistent
    <3>3. \A i \in maint'[m].ids : i \in Nat /\ i <= lastRead
      BY <1>1, <1>2, <3>1, <3>2, Zenon
    <3>. QED BY <1>a, <3>3, Zenon
  <2>2. maint'[m].pc \in {"ackMissing", "addFailed", "ack", "del"} =>
          maint'[m].msg.id <= lastRead'
    <3>1. maint'[m].pc \in {"ackMissing", "addFailed", "ack", "del"} =>
            maint'[m].msg.id <= lastRead
      BY ZenonT(30) DEF MaintKept, Handover
    <3>. QED BY <1>2, <1>a, <3>1, Zenon
  <2>3. ASSUME maint'[m].pc = "ackMissing" PROVE (XRange(maint[m].msg.id) = {})'
    <3>1. XRange(maint'[m].msg.id) = {}
      BY <2>3, Zenon DEF MaintKept, Handover
    <3>2. maint'[m].msg.id < nextId
      <4>1. CASE maint'[m].pc = maint[m].pc /\ maint'[m].msg = maint[m].msg
        BY <2>3, <4>1 DEF EntriesConsistent
      <4>2. CASE maint'[m].msg.id \in maint[m].ids
        BY <4>2, Zenon DEF EntriesConsistent
      <4>. QED BY <2>3, <4>1, <4>2, ZenonT(60) DEF MaintKept
    <3>. QED BY <1>1, <1>2, <3>1, <3>2, SMTT(30) DEF StreamKept, XRange
  <2>4. ASSUME maint'[m].pc = "ack", maint'[m].msg.id \in pending'
        PROVE  Cover(maint[m].msg.ev, maint[m].msg.id)'
    <3>1. CASE maint'[m].pc = maint[m].pc /\ maint'[m].msg = maint[m].msg
      <4>1. maint[m].msg.id \in pending
        BY <1>2, <1>b, <2>4, <3>1, Zenon DEF Handover
      <4>2. Cover(maint[m].msg.ev, maint[m].msg.id)
        BY <2>4, <3>1, <4>1, Zenon DEF Handover
      <4>3. ASSUME NEW e, NEW i, e = maint[m].msg.ev, i = maint[m].msg.id
            PROVE  Cover(e, i)'
        BY <1>2, <4>2, <4>3, Zenon DEF StreamKept
      <4>. QED BY <3>1, <4>3, SMTT(30) DEF Cover
    <3>. QED BY <2>4, <3>1, Zenon DEF MaintKept
  <2>5. ASSUME maint'[m].pc = "del" PROVE maint'[m].msg.id \notin pending'
    BY <1>2, <1>b, <2>5, ZenonT(30) DEF MaintKept, Handover
  <2>. QED BY <2>1, <2>2, <2>3, <2>4, <2>5
<1>. QED BY <1>3, <1>4, <1>5 DEF Handover

\* A thread that does not move.
LEMMA SameWorker ==
  ASSUME NEW w \in Workers, worker'[w] = worker[w] PROVE WorkerKept(w)
BY DEF WorkerKept

\* A maintenance run that does not move.
LEMMA SameMaint ==
  ASSUME NEW m \in Maintainers, maint'[m] = maint[m] PROVE MaintKept(m)
BY Zenon DEF MaintKept

\* A maintenance run that holds no entry after the step.
LEMMA FreeMaint ==
  ASSUME NEW m \in Maintainers, maint'[m].ids \subseteq maint[m].ids \union pending,
         maint'[m].pc \notin {"ackMissing", "addFailed", "ack", "del"}
  PROVE  MaintKept(m)
BY DEF MaintKept

\* A step that adds no entry, keeps the live ones and replaces a failed or a claimed
\* member only by what takes over from it.
LEMMA LiveKept ==
  ASSUME TypeOK, TypeOK', stream' \subseteq stream, pending' \subseteq pending,
         UNCHANGED <<lastRead, log>>, resolved \subseteq resolved',
         \A x \in stream : Live(x) => x \in stream' /\ Live(x)',
         \A f \in failed : \/ f \in failed' \/ f.ev \in resolved'
                           \/ \E m \in Maintainers : /\ maint'[m].pc = "requeue"
                                                     /\ maint'[m].member = f,
         \A m \in Maintainers : maint[m].pc \in {"requeue", "restore"} =>
           \/ maint'[m].pc = maint[m].pc /\ maint'[m].member = maint[m].member
           \/ maint[m].member \in failed'
  PROVE  StreamKept
<1>1. \A e : \A i \in Nat : Cover(e, i) => Cover(e, i)'
  BY CoverKept, Zenon
<1>2. lastRead <= lastRead'
  BY DEF TypeOK
<1>. QED BY <1>1, <1>2, Zenon DEF StreamKept

\* A step that leaves the stream, the pending list and the claims alone.
LEMMA QuietStream ==
  ASSUME TypeOK, TypeOK', UNCHANGED <<stream, lastRead, pending, log>>,
         resolved \subseteq resolved', failed \subseteq failed',
         \A m \in Maintainers : maint[m].pc \in {"requeue", "restore"} =>
           maint'[m].pc = maint[m].pc /\ maint'[m].member = maint[m].member
  PROVE  StreamKept
<1>1. \A x \in stream : Live(x) => x \in stream' /\ Live(x)'
  BY DEF Live
<1>2. /\ stream' \subseteq stream /\ pending' \subseteq pending
      /\ \A f \in failed : f \in failed'
  OBVIOUS
<1>. QED BY <1>1, <1>2, LiveKept, Zenon

\* Deleting a delivered entry that is not pending deletes no live one.
LEMMA DeadDeleted ==
  ASSUME TypeOK, NEW i \in Nat, i \notin pending, i <= lastRead,
         stream' = stream \ XRange(i), UNCHANGED <<pending, lastRead>>
  PROVE  \A x \in stream : Live(x) => x \in stream' /\ Live(x)'
<1>. SUFFICES ASSUME NEW x \in stream, Live(x) PROVE x \in stream' /\ Live(x)'
  OBVIOUS
<1>1. x.id \in Nat /\ lastRead \in Nat
  BY DEF TypeOK, Entry
<1>2. x.id > lastRead \/ x.id \in pending
  BY DEF Live
<1>3. x.id # i
  BY <1>1, <1>2
<1>4. x \in stream'
  BY <1>3 DEF XRange
<1>. QED BY <1>2, <1>4 DEF Live

\* A step of a thread keeps the handover.
LEMMA WorkerHandover ==
  ASSUME TypeOK, TypeOK', EntriesConsistent, EntriesConsistent', Handover,
         NEW w \in Workers,
         WorkerStep(w) \/ AddToInFlightFails(w) \/ HandlerFails(w)
           \/ CompleteReadFails(w) \/ WorkerFault(w)
  PROVE  Handover'
<1>. USE DEF redisVars, dbVars
<1>0. /\ worker \in [Workers -> WorkerState]
      /\ lastRead \in Nat /\ lastRead' \in Nat
      /\ \A x \in log : x.id \in Nat
      /\ worker[w].msg.id \in Nat
  BY Zenon DEF TypeOK, Entry, WorkerState
<1>a. ASSUME UNCHANGED maint, WorkerKept(w), StreamKept,
             \A v \in Workers \ {w} : worker'[v] = worker[v]
      PROVE  Handover'
  BY <1>a, SameWorker, SameMaint, HandoverKept
<1>b. ASSUME NEW t, worker' = [worker EXCEPT ![w] = t]
      PROVE  /\ worker'[w] = t
             /\ \A v \in Workers \ {w} : worker'[v] = worker[v]
  BY <1>0, <1>b
<1>1. CASE ReadGroup(w)
  <2>1. PICK x \in stream :
          /\ x.id > lastRead
          /\ \A f \in stream : f.id > lastRead => x.id <= f.id
          /\ lastRead' = x.id
          /\ pending' = pending \union {x.id}
          /\ worker' = [worker EXCEPT ![w] =
                          [IdleWorker EXCEPT !.pc = "track", !.msg = x]]
    BY <1>1, Zenon DEF ReadGroup
  <2>2. \A y \in stream : y.id \in Nat
    BY <1>0 DEF EntriesConsistent
  <2>3. \A y \in stream : Live(y) => Live(y)'
    BY <1>0, <2>1, <2>2 DEF Live
  <2>4. \A e : \A i \in Nat : Cover(e, i) => Cover(e, i)'
    BY <1>1, <2>3, CoverKept DEF ReadGroup
  <2>5. StreamKept
    BY <1>0, <1>1, <2>1, <2>2, <2>3, <2>4 DEF StreamKept, ReadGroup
  <2>6. [IdleWorker EXCEPT !.pc = "track", !.msg = x].pc = "track"
        /\ [IdleWorker EXCEPT !.pc = "track", !.msg = x].msg = x
    BY DEF IdleWorker
  <2>7. WorkerKept(w) /\ \A v \in Workers \ {w} : worker'[v] = worker[v]
    BY <1>b, <2>1, <2>2, <2>6 DEF WorkerKept
  <2>. QED BY <1>1, <1>a, <2>5, <2>7, Zenon DEF ReadGroup
<1>2. CASE AddToInFlight(w) \/ AddToInFlightFails(w)
  <2>1. /\ worker[w].pc = "track" /\ worker' = [worker EXCEPT ![w].pc = "run"]
        /\ UNCHANGED <<maint, stream, lastRead, pending, log, resolved, failed>>
    BY <1>2, Zenon DEF AddToInFlight, AddToInFlightFails
  <2>2. WorkerKept(w) /\ \A v \in Workers \ {w} : worker'[v] = worker[v]
    BY <1>0, <2>1 DEF WorkerKept, WorkerState
  <2>. QED BY <1>a, <2>1, <2>2, QuietStream
<1>3. CASE HandlerSucceeds(w)
  <2>1. /\ worker[w].pc = "run" /\ worker' = [worker EXCEPT ![w].pc = "readMessage"]
        /\ UNCHANGED <<maint, stream, lastRead, pending, log, failed>>
        /\ resolved' = resolved \union {worker[w].msg.ev}
    BY <1>3 DEF HandlerSucceeds
  <2>2. /\ worker'[w].pc = "readMessage" /\ worker'[w].msg = worker[w].msg
        /\ \A v \in Workers \ {w} : worker'[v] = worker[v]
    BY <1>0, <2>1 DEF WorkerState
  <2>3. Cover(worker[w].msg.ev, worker[w].msg.id)'
    BY <2>1, <2>2 DEF Cover
  <2>4. WorkerKept(w)
    BY <2>1, <2>2, <2>3, Zenon DEF WorkerKept
  <2>. QED BY <1>a, <2>1, <2>2, <2>4, QuietStream
<1>4. CASE HandlerFails(w)
  <2>1. /\ worker[w].pc = "run"
        /\ UNCHANGED <<maint, stream, lastRead, pending, log, failed, resolved>>
    BY <1>4 DEF HandlerFails
  <2>2. WorkerKept(w) /\ \A v \in Workers \ {w} : worker'[v] = worker[v]
    BY <1>0, <1>4, Zenon DEF HandlerFails, WorkerKept, WorkerState
  <2>. QED BY <1>a, <2>1, <2>2, QuietStream
<1>5. CASE CompleteReadRetry(w)
  <2>1. WorkerKept(w) /\ \A v \in Workers \ {w} : worker'[v] = worker[v]
    BY <1>0, <1>5 DEF CompleteReadRetry, WorkerKept, WorkerState
  <2>2. UNCHANGED <<maint, stream, lastRead, pending, log, failed, resolved>>
    BY <1>5 DEF CompleteReadRetry
  <2>. QED BY <1>a, <2>1, <2>2, QuietStream
<1>6. CASE CompleteAddFailed(w)
  <2>1. /\ worker[w].pc = "addFailed"
        /\ worker' = [worker EXCEPT ![w].pc = "readMessage"]
        /\ failed' = failed \union
             {[id |-> worker[w].msg.id, ev |-> worker[w].msg.ev,
               retry |-> worker[w].retry, by |-> "worker"]}
        /\ UNCHANGED <<maint, stream, lastRead, pending, log, resolved>>
    BY <1>6 DEF CompleteAddFailed
  <2>2. /\ worker'[w].pc = "readMessage" /\ worker'[w].msg = worker[w].msg
        /\ \A v \in Workers \ {w} : worker'[v] = worker[v]
    BY <1>0, <2>1, Zenon DEF WorkerState
  <2>3. Cover(worker[w].msg.ev, worker[w].msg.id)'
    <3>1. \E f \in failed' : f.ev = worker[w].msg.ev /\ f.id >= worker[w].msg.id
      <4>. DEFINE g == [id |-> worker[w].msg.id, ev |-> worker[w].msg.ev,
                        retry |-> worker[w].retry, by |-> "worker"]
      <4>1. g \in failed' /\ g.ev = worker[w].msg.ev /\ g.id = worker[w].msg.id
        BY <2>1
      <4>. QED BY <1>0, <4>1
    <3>. QED BY <2>2, <3>1, Zenon DEF Cover
  <2>4. WorkerKept(w)
    BY <2>1, <2>2, <2>3, Zenon DEF WorkerKept
  <2>. QED BY <1>a, <2>1, <2>2, <2>4, QuietStream
<1>7. CASE CompleteReadMessage(w) \/ CompleteReadFails(w)
  <2>1. /\ worker[w].pc \in {"readRetry", "readMessage"}
        /\ UNCHANGED <<maint, stream, lastRead, pending, log, failed, resolved>>
    BY <1>7, Zenon DEF CompleteReadMessage, CompleteReadFails
  <2>2. ASSUME NEW x, worker' = [worker EXCEPT ![w] = Tracked(@, x)],
               worker[w].pc = "readMessage"
        PROVE  WorkerKept(w) /\ \A v \in Workers \ {w} : worker'[v] = worker[v]
    <3>1. Tracked(worker[w], x).pc = "ack" /\ Tracked(worker[w], x).msg = worker[w].msg
      BY <1>0 DEF Tracked, WorkerState
    <3>. QED BY <1>b, <2>2, <3>1 DEF WorkerKept
  <2>3. ASSUME worker' = [worker EXCEPT ![w] = [@ EXCEPT !.pc = "addFailed", !.retry = 1]],
               worker[w].pc = "readRetry"
        PROVE  WorkerKept(w) /\ \A v \in Workers \ {w} : worker'[v] = worker[v]
    BY <1>0, <2>3 DEF WorkerKept, WorkerState
  <2>4. WorkerKept(w) /\ \A v \in Workers \ {w} : worker'[v] = worker[v]
    BY <1>7, <2>2, <2>3 DEF CompleteReadMessage, CompleteReadFails
  <2>. QED BY <1>a, <2>1, <2>4, QuietStream
<1>8. CASE CompleteAck(w)
  <2>1. /\ worker[w].pc = "ack" /\ worker' = [worker EXCEPT ![w].pc = "del"]
        /\ pending' = pending \ {worker[w].msg.id}
        /\ UNCHANGED <<maint, stream, lastRead, log, failed, resolved>>
    BY <1>8 DEF CompleteAck
  <2>2. /\ worker[w].msg \in log
        /\ worker[w].msg.id \in pending => Cover(worker[w].msg.ev, worker[w].msg.id)
    BY <2>1 DEF EntriesConsistent, Handover
  <2>3. StreamKept
    BY <1>0, <2>1, <2>2, CoverAcked DEF StreamKept
  <2>4. /\ worker'[w].pc = "del" /\ worker'[w].msg = worker[w].msg
        /\ \A v \in Workers \ {w} : worker'[v] = worker[v]
    BY <1>0, <2>1 DEF WorkerState
  <2>5. WorkerKept(w)
    BY <2>1, <2>4 DEF WorkerKept
  <2>. QED BY <1>a, <2>1, <2>3, <2>4, <2>5
<1>9. CASE CompleteDel(w)
  <2>1. /\ worker[w].pc = "del"
        /\ stream' = stream \ XRange(worker[w].msg.id)
        /\ UNCHANGED <<maint, pending, lastRead, log, failed, resolved>>
    BY <1>9 DEF CompleteDel
  <2>2. worker[w].msg.id \notin pending /\ worker[w].msg.id <= lastRead
    BY <2>1, Zenon DEF Handover
  <2>3. worker[w].msg.id \in Nat
    BY <1>0 DEF WorkerState, Entry
  <2>4. \A x \in stream : Live(x) => x \in stream' /\ Live(x)'
    BY <2>1, <2>2, <2>3, DeadDeleted, Zenon
  <2>5. StreamKept
    BY <2>1, <2>4, LiveKept
  <2>6. WorkerKept(w) /\ \A v \in Workers \ {w} : worker'[v] = worker[v]
    BY <1>0, <1>9, Zenon DEF CompleteDel, WorkerKept, WorkerState, IdleWorker
  <2>. QED BY <1>a, <2>1, <2>5, <2>6
<1>10. CASE CompleteMark(w) \/ WorkerFault(w)
  <2>1. /\ worker' = [worker EXCEPT ![w] = IdleWorker]
        /\ UNCHANGED <<maint, stream, lastRead, pending, log, failed, resolved>>
    BY <1>10, Zenon DEF CompleteMark, WorkerFault
  <2>2. WorkerKept(w) /\ \A v \in Workers \ {w} : worker'[v] = worker[v]
    BY <1>0, <2>1 DEF WorkerKept, IdleWorker
  <2>. QED BY <1>a, <2>1, <2>2, QuietStream, Zenon
<1>. QED
  BY <1>1, <1>2, <1>3, <1>4, <1>5, <1>6, <1>7, <1>8, <1>9, <1>10, Zenon DEF WorkerStep

\* A new entry is live and has the largest ID.
LEMMA XAddStream ==
  ASSUME TypeOK, TypeOK', EntriesConsistent, NEW e, NEW t, NEW r, NEW o,
         XAdd(e, t, r, o), UNCHANGED <<lastRead, pending>>
  PROVE  /\ \A x \in stream : Live(x) => x \in stream' /\ Live(x)'
         /\ \A x \in log' : x \in log \/ (x \in stream' /\ Live(x)')
         /\ \A x \in stream' : x \in stream \/ x.id >= nextId
         /\ lastRead <= lastRead'
         /\ \E x \in stream' : x.ev = e /\ x.id = nextId /\ Live(x)'
<1>1. PICK a : a = [id |-> nextId, ev |-> e, ts |-> t, retry |-> r, orig |-> o]
  BY ZenonT(60)
<1>2. /\ log' = log \union {a} /\ stream' = stream \union {a}
      /\ a.id = nextId /\ a.ev = e
  BY <1>1, Zenon DEF XAdd
<1>3. nextId \in Nat /\ lastRead \in Nat /\ lastRead < nextId
  BY DEF TypeOK, EntriesConsistent
<1>4. Live(a)'
  BY <1>2, <1>3 DEF Live
<1>. QED BY <1>2, <1>3, <1>4 DEF Live

\* A step that adds an entry, which may take over from a claimed member.
LEMMA XAddKept ==
  ASSUME TypeOK, TypeOK', EntriesConsistent, NEW e, NEW t, NEW r, NEW o,
         XAdd(e, t, r, o), UNCHANGED <<lastRead, pending, failed, resolved>>,
         \A m \in Maintainers : maint[m].pc \in {"requeue", "restore"} =>
           \/ maint'[m].pc = maint[m].pc /\ maint'[m].member = maint[m].member
           \/ maint[m].member.ev = e /\ maint[m].member.id < nextId
  PROVE  StreamKept
<1>1. /\ \A x \in stream : Live(x) => x \in stream' /\ Live(x)'
      /\ \A x \in log' : x \in log \/ (x \in stream' /\ Live(x)')
      /\ \A x \in stream' : x \in stream \/ x.id >= nextId
      /\ lastRead <= lastRead'
      /\ \E x \in stream' : x.ev = e /\ x.id = nextId /\ Live(x)'
  BY XAddStream, Zenon
<1>2. /\ nextId \in Nat
      /\ \A m \in Maintainers : maint[m].member.id \in Nat
  BY Zenon DEF TypeOK, MaintState, FailedMember
<1>3. ASSUME NEW m \in Maintainers, maint[m].member.ev = e, maint[m].member.id < nextId
      PROVE  \E x \in stream' : /\ x.ev = maint[m].member.ev
                                /\ x.id > maint[m].member.id
                                /\ Live(x)'
  <2>1. PICK x \in stream' : x.ev = e /\ x.id = nextId /\ Live(x)'
    BY <1>1, Zenon
  <2>2. x.id > maint[m].member.id
    BY <1>2, <1>3, <2>1
  <2>. QED BY <1>3, <2>1, <2>2, Zenon
<1>4. \A e2 : \A i \in Nat : Cover(e2, i) => Cover(e2, i)'
  BY <1>1, <1>3, CoverKept, Zenon
<1>5. \A i \in pending' : i \in pending
  BY Zenon
<1>. QED BY <1>1, <1>4, <1>5, Zenon DEF StreamKept

\* A step of a maintenance run in which no command fails keeps the handover.
LEMMA MaintHandover ==
  ASSUME TypeOK, TypeOK', EntriesConsistent, EntriesConsistent', MembersConsistent,
         Handover, NEW m \in Maintainers,
         \/ \E ids \in SUBSET pending : StartMaintenance(m, ids)
         \/ \E due \in SUBSET failed : ScanFailed(m, due)
         \/ MaintStep(m)
  PROVE  Handover'
<1>. USE DEF redisVars, dbVars
<1>. DEFINE s == maint[m]
            Others == \A n \in Maintainers \ {m} : maint'[n] = maint[n]
            NoClaim == s.pc \notin {"requeue", "restore"}
<1>0. /\ maint \in [Maintainers -> MaintState]
      /\ s \in MaintState
      /\ lastRead \in Nat /\ lastRead' \in Nat
      /\ \A x \in log : x.id \in Nat
      /\ s.msg.id \in Nat
  BY Zenon DEF TypeOK, Entry, MaintState
<1>a. ASSUME UNCHANGED worker, MaintKept(m), StreamKept, Others PROVE Handover'
  BY <1>a, SameWorker, SameMaint, HandoverKept, ZenonT(60)
<1>b. ASSUME NEW t, maint' = [maint EXCEPT ![m] = t]
      PROVE  maint'[m] = t /\ Others
  BY <1>0, <1>b
<1>c. /\ NextTimedOut(s).ids = s.ids
      /\ NextTimedOut(s).pc \in {"scanFailed", "timedOut"}
      /\ \A due : /\ NextRetry(s, due).ids = s.ids
                  /\ NextRetry(s, due).pc \in {"advance", "retry"}
      /\ \A e : /\ NextRepublish(s, e).ids = s.ids
                /\ NextRepublish(s, e).pc \in {"resetCheckpoint", "republish"}
      /\ IdleMaint.ids = {} /\ IdleMaint.pc = "idle"
      /\ \A p : [IdleMaint EXCEPT !.pc = p].ids = {} /\ [IdleMaint EXCEPT !.pc = p].pc = p
  BY <1>0, Zenon DEF NextTimedOut, NextRetry, NextRepublish, IdleMaint, MaintState
<1>d. ASSUME UNCHANGED <<worker, stream, lastRead, pending, log>>,
             resolved \subseteq resolved', failed \subseteq failed', NoClaim, Others,
             MaintKept(m)
      PROVE  Handover'
  BY <1>a, <1>d, QuietStream, Zenon
<1>1. ASSUME NEW ids \in SUBSET pending, StartMaintenance(m, ids) PROVE Handover'
  <2>1. /\ s.pc = "idle"
        /\ UNCHANGED <<worker, stream, lastRead, pending, log, failed, resolved>>
    BY <1>1, ZenonT(60) DEF StartMaintenance
  <2>2. maint'[m].ids = ids /\ maint'[m].pc \in {"scanFailed", "timedOut"} /\ Others
    BY <1>0, <1>1, Zenon DEF StartMaintenance, IdleMaint, MaintState
  <2>. QED BY <1>d, <2>1, <2>2, FreeMaint, Zenon
<1>2. ASSUME NEW due \in SUBSET failed, ScanFailed(m, due) PROVE Handover'
  <2>1. /\ s.pc = "scanFailed"
        /\ UNCHANGED <<worker, stream, lastRead, pending, log, failed, resolved>>
    BY <1>2, ZenonT(60) DEF ScanFailed
  <2>2. maint'[m].ids = {} /\ maint'[m].pc \in {"advance", "retry"} /\ Others
    BY <1>0, <1>2, Zenon DEF ScanFailed, IdleMaint, MaintState
  <2>. QED BY <1>d, <2>1, <2>2, FreeMaint, Zenon
<1>3. CASE TimedOutRead(m)
  <2>1. /\ s.pc = "timedOut"
        /\ UNCHANGED <<worker, stream, lastRead, pending, log, failed, resolved>>
    BY <1>3, Zenon DEF TimedOutRead
  <2>2. PICK i \in s.ids :
          \/ /\ XRange(i) = {}
             /\ maint' = [maint EXCEPT ![m].pc = "ackMissing",
                            ![m].ids = @ \ {i}, ![m].msg = [NoEntry EXCEPT !.id = i]]
          \/ \E x \in XRange(i) :
               maint' = [maint EXCEPT ![m].pc = "addFailed",
                           ![m].ids = @ \ {i}, ![m].msg = x]
    BY <1>3, ZenonT(60) DEF TimedOutRead
  <2>3. CASE /\ XRange(i) = {}
             /\ maint' = [maint EXCEPT ![m].pc = "ackMissing",
                            ![m].ids = @ \ {i}, ![m].msg = [NoEntry EXCEPT !.id = i]]
    <3>1. /\ maint'[m].pc = "ackMissing" /\ maint'[m].ids = s.ids \ {i}
          /\ maint'[m].msg.id = i /\ Others
      BY <1>0, <2>3 DEF NoEntry, MaintState
    <3>2. MaintKept(m)
      BY <2>3, <3>1, ZenonT(60) DEF MaintKept
    <3>. QED BY <1>d, <2>1, <3>1, <3>2
  <2>4. ASSUME NEW x \in XRange(i),
               maint' = [maint EXCEPT ![m].pc = "addFailed",
                           ![m].ids = @ \ {i}, ![m].msg = x]
        PROVE  Handover'
    <3>1. /\ maint'[m].pc = "addFailed" /\ maint'[m].ids = s.ids \ {i}
          /\ maint'[m].msg.id = i /\ Others
      BY <1>0, <2>4 DEF XRange, MaintState
    <3>2. MaintKept(m)
      BY <3>1, Zenon DEF MaintKept
    <3>. QED BY <1>d, <2>1, <3>1, <3>2
  <2>. QED BY <2>2, <2>3, <2>4, SMTT(30)
<1>4. CASE TimedOutAckMissing(m)
  <2>1. /\ s.pc = "ackMissing" /\ maint' = [maint EXCEPT ![m] = NextTimedOut(@)]
        /\ pending' = pending \ {s.msg.id}
        /\ UNCHANGED <<worker, stream, lastRead, log, failed, resolved>>
    BY <1>4, Zenon DEF TimedOutAckMissing
  <2>2. MaintKept(m) /\ Others
    BY <1>b, <1>c, <2>1, FreeMaint, ZenonT(60)
  <2>3. XRange(s.msg.id) = {}
    BY <2>1, Zenon DEF Handover
  <2>4. \A x \in stream : Live(x) => x \in stream' /\ Live(x)'
    BY <2>1, <2>3 DEF Live, XRange
  <2>6. StreamKept
    BY <2>1, <2>2, <2>4, LiveKept
  <2>. QED BY <1>a, <2>1, <2>2, <2>6, Zenon
<1>5. CASE TimedOutAddFailed(m)
  <2>1. /\ s.pc = "addFailed" /\ maint' = [maint EXCEPT ![m].pc = "ack"]
        /\ failed' = failed \union
             {[id |-> s.msg.id, ev |-> s.msg.ev, retry |-> s.msg.retry + 1, by |-> m]}
        /\ UNCHANGED <<worker, stream, lastRead, pending, log, resolved>>
    BY <1>5 DEF TimedOutAddFailed
  <2>2. /\ maint'[m].pc = "ack" /\ maint'[m].msg = s.msg /\ maint'[m].ids = s.ids
        /\ Others
    BY <1>0, <2>1, Zenon DEF MaintState
  <2>3. Cover(maint[m].msg.ev, maint[m].msg.id)'
    <3>. DEFINE g == [id |-> s.msg.id, ev |-> s.msg.ev, retry |-> s.msg.retry + 1, by |-> m]
    <3>1. g \in failed' /\ g.ev = s.msg.ev /\ g.id = s.msg.id
      BY <2>1, Zenon
    <3>2. \E f \in failed' : f.ev = s.msg.ev /\ f.id >= s.msg.id
      BY <1>0, <3>1
    <3>. QED BY <2>2, <3>2, Zenon DEF Cover
  <2>4. MaintKept(m)
    BY <2>1, <2>2, <2>3 DEF MaintKept
  <2>. QED BY <1>d, <2>1, <2>2, <2>4
<1>6. CASE TimedOutAck(m)
  <2>1. /\ s.pc = "ack" /\ maint' = [maint EXCEPT ![m].pc = "del"]
        /\ pending' = pending \ {s.msg.id}
        /\ UNCHANGED <<worker, stream, lastRead, log, failed, resolved>>
    BY <1>6 DEF TimedOutAck
  <2>2. s.msg \in log /\ (s.msg.id \in pending => Cover(s.msg.ev, s.msg.id))
    BY <2>1 DEF EntriesConsistent, Handover
  <2>3. /\ maint'[m].pc = "del" /\ maint'[m].msg = s.msg /\ maint'[m].ids = s.ids
        /\ Others
    BY <1>0, <2>1 DEF MaintState
  <2>4. \A n \in Maintainers : maint[n].pc \in {"requeue", "restore"} =>
          maint'[n].pc = maint[n].pc /\ maint'[n].member = maint[n].member
    BY <2>1, <2>3
  <2>5. StreamKept
    BY <1>0, <2>1, <2>2, <2>4, CoverAcked DEF StreamKept
  <2>6. MaintKept(m)
    BY <2>1, <2>3 DEF MaintKept
  <2>. QED BY <1>a, <2>1, <2>3, <2>5, <2>6
<1>7. CASE TimedOutDel(m)
  <2>1. /\ s.pc = "del" /\ maint' = [maint EXCEPT ![m] = NextTimedOut(@)]
        /\ stream' = stream \ XRange(s.msg.id)
        /\ UNCHANGED <<worker, pending, lastRead, log, failed, resolved>>
    BY <1>7 DEF TimedOutDel
  <2>2. MaintKept(m) /\ Others
    BY <1>b, <1>c, <2>1, FreeMaint, Zenon
  <2>3. s.msg.id \notin pending /\ s.msg.id <= lastRead
    BY <2>1, Zenon DEF Handover
  <2>4. s.msg.id \in Nat
    BY <1>0 DEF MaintState, Entry
  <2>5. \A x \in stream : Live(x) => x \in stream' /\ Live(x)'
    BY <2>1, <2>3, <2>4, DeadDeleted, Zenon
  <2>6. StreamKept
    BY <2>1, <2>2, <2>5, LiveKept, Zenon
  <2>. QED BY <1>a, <2>1, <2>2, <2>6, Zenon
<1>8. ASSUME UNCHANGED <<worker, stream, lastRead, pending, log>>,
             resolved \subseteq resolved', MaintKept(m), Others, NoClaim,
             \A f \in failed : \/ f \in failed' \/ f.ev \in resolved'
                               \/ maint'[m].pc = "requeue" /\ maint'[m].member = f
      PROVE  Handover'
  <2>1. \A x \in stream : Live(x) => x \in stream' /\ Live(x)'
    BY <1>8, Zenon DEF Live
  <2>2. \A n \in Maintainers : maint[n].pc \in {"requeue", "restore"} =>
          maint'[n].pc = maint[n].pc /\ maint'[n].member = maint[n].member
    BY <1>8, Zenon
  <2>3. StreamKept
    BY <1>8, <2>1, <2>2, LiveKept, Zenon
  <2>. QED BY <1>8, <1>a, <2>3, ZenonT(60)
<1>9. CASE GiveUp(m)
  <2>1. PICK f \in s.due :
          /\ failed' = failed \ {f}
          /\ resolved' = resolved \union {f.ev}
          /\ maint' = [maint EXCEPT ![m].pc = "markFailed", ![m].due = @ \ {f},
                                    ![m].member = f]
    BY <1>9, Zenon DEF GiveUp
  <2>2. /\ s.pc = "retry"
        /\ UNCHANGED <<worker, stream, lastRead, pending, log>>
    BY <1>9 DEF GiveUp
  <2>3. maint'[m].pc = "markFailed" /\ maint'[m].ids = s.ids /\ Others
    BY <1>0, <2>1 DEF MaintState
  <2>. QED BY <1>8, <2>1, <2>2, <2>3, FreeMaint, Zenon
<1>10. CASE Claim(m)
  <2>1. PICK f \in s.due :
          /\ failed' = failed \ {f}
          /\ \/ maint' = [maint EXCEPT ![m].pc = "requeue", ![m].due = @ \ {f},
                                       ![m].member = f]
             \/ /\ f \notin failed
                /\ maint' = [maint EXCEPT ![m] = NextRetry(@, @.due \ {f})]
    BY <1>10, Zenon DEF Claim
  <2>2. /\ s.pc = "retry"
        /\ UNCHANGED <<worker, stream, lastRead, pending, log, resolved>>
    BY <1>10 DEF Claim
  <2>3. CASE maint' = [maint EXCEPT ![m].pc = "requeue", ![m].due = @ \ {f},
                                    ![m].member = f]
    <3>1. /\ maint'[m].pc = "requeue" /\ maint'[m].member = f
          /\ maint'[m].ids = s.ids /\ Others
      BY <1>0, <2>3 DEF MaintState
    <3>. QED BY <1>8, <2>1, <2>2, <3>1, FreeMaint
  <2>4. CASE f \notin failed /\ maint' = [maint EXCEPT ![m] = NextRetry(@, @.due \ {f})]
    BY <1>8, <1>b, <1>c, <2>1, <2>2, <2>4, FreeMaint
  <2>. QED BY <2>1, <2>3, <2>4, Zenon
<1>11. CASE GiveUpMark(m)
  <2>1. /\ s.pc = "markFailed" /\ maint' = [maint EXCEPT ![m] = NextRetry(@, @.due)]
        /\ UNCHANGED <<worker, stream, lastRead, pending, log, failed, resolved>>
    BY <1>11 DEF GiveUpMark
  <2>. QED BY <1>8, <1>b, <1>c, <2>1, FreeMaint
<1>12. CASE Requeue(m)
  <2>1. /\ s.pc = "requeue" /\ maint' = [maint EXCEPT ![m] = NextRetry(@, @.due)]
        /\ XAdd(s.member.ev, s.time, s.member.retry, s.member.id)
        /\ UNCHANGED <<worker, lastRead, pending, failed, resolved>>
    BY <1>12 DEF Requeue
  <2>a. maint'[m] = NextRetry(s, s.due) /\ Others
    BY <1>b, <2>1, ZenonT(60)
  <2>2. MaintKept(m) /\ Others
    BY <1>c, <2>a, FreeMaint
  <2>3. s.member.id < nextId
    BY Zenon DEF MembersConsistent
  <2>4. \A n \in Maintainers : maint[n].pc \in {"requeue", "restore"} =>
          \/ maint'[n].pc = maint[n].pc /\ maint'[n].member = maint[n].member
          \/ maint[n].member.ev = s.member.ev /\ maint[n].member.id < nextId
    BY <2>2, <2>3, ZenonT(60)
  <2>6. StreamKept
    BY <2>1, <2>4, XAddKept, Zenon
  <2>. QED BY <1>a, <2>1, <2>2, <2>6, Zenon
<1>13. CASE Restore(m)
  <2>1. /\ s.pc = "restore" /\ maint' = [maint EXCEPT ![m] = NextRetry(@, @.due)]
        /\ failed' = failed \union {s.member}
        /\ UNCHANGED <<worker, stream, lastRead, pending, log, resolved>>
    BY <1>13, Zenon DEF Restore
  <2>2. MaintKept(m) /\ Others
    BY <1>b, <1>c, <2>1, FreeMaint
  <2>3. \A x \in stream : Live(x) => x \in stream' /\ Live(x)'
    BY <2>1 DEF Live
  <2>4. \A n \in Maintainers : maint[n].pc \in {"requeue", "restore"} =>
          \/ maint'[n].pc = maint[n].pc /\ maint'[n].member = maint[n].member
          \/ maint[n].member \in failed'
    BY <2>1, <2>2, Zenon
  <2>5. StreamKept
    BY <2>1, <2>3, <2>4, LiveKept
  <2>. QED BY <1>a, <2>1, <2>2, <2>5, Zenon
<1>14. CASE AdvanceCheckpoint(m) \/ CheckpointMissing(m)
  <2>1. /\ s.pc \in {"advance", "advanceAgain"}
        /\ \E p \in {"recover", "readCheckpoint"} :
             maint' = [maint EXCEPT ![m] = [IdleMaint EXCEPT !.pc = p]]
        /\ UNCHANGED <<worker, stream, lastRead, pending, log, failed, resolved>>
    BY <1>14, Zenon DEF AdvanceCheckpoint, CheckpointMissing
  <2>. QED BY <1>8, <1>b, <1>c, <2>1, FreeMaint
<1>15. CASE Recover(m) \/ ResetCheckpoint(m)
  <2>1. /\ s.pc \in {"recover", "resetCheckpoint"}
        /\ UNCHANGED <<worker, stream, lastRead, pending, log, failed, resolved>>
    BY <1>15, SMTT(30) DEF Recover, ResetCheckpoint
  <2>2. /\ maint'[m].pc \in {"resetCheckpoint", "republish", "advanceAgain"}
        /\ maint'[m].ids = s.ids /\ Others
    <3>1. CASE Recover(m)
      BY <1>0, <3>1 DEF Recover, MaintState
    <3>2. CASE ResetCheckpoint(m)
      BY <1>0, <3>2 DEF ResetCheckpoint, MaintState
    <3>. QED BY <1>15, <3>1, <3>2
  <2>. QED BY <1>8, <2>1, <2>2, FreeMaint
<1>16. CASE Republish(m)
  <2>1. PICK e : /\ XAdd(e, created[e], 0, 0)
                 /\ maint' = [maint EXCEPT ![m] = NextRepublish(@, e)]
    BY <1>16, Zenon DEF Republish
  <2>2. /\ s.pc = "republish"
        /\ UNCHANGED <<worker, lastRead, pending, failed, resolved>>
    BY <1>16 DEF Republish
  <2>a. maint'[m] = NextRepublish(s, e) /\ Others
    BY <1>b, <2>1, ZenonT(60)
  <2>3. MaintKept(m) /\ Others
    BY <1>c, <2>a, FreeMaint, SMTT(30)
  <2>4. \A n \in Maintainers : maint[n].pc \in {"requeue", "restore"} =>
          maint'[n].pc = maint[n].pc /\ maint'[n].member = maint[n].member
    BY <2>2, <2>3, Zenon
  <2>6. StreamKept
    BY <2>1, <2>2, <2>4, XAddKept, Zenon
  <2>. QED BY <1>a, <2>2, <2>3, <2>6
<1>17. CASE ReadCheckpoint(m) \/ SaveCheckpoint(m)
  <2>1. /\ s.pc \in {"readCheckpoint", "saveCheckpoint"}
        /\ UNCHANGED <<worker, stream, lastRead, pending, log, failed, resolved>>
    BY <1>17, Zenon DEF ReadCheckpoint, SaveCheckpoint
  <2>2. \/ maint' = [maint EXCEPT ![m] = IdleMaint]
        \/ \E v : maint' = [maint EXCEPT ![m] =
                              [@ EXCEPT !.pc = "saveCheckpoint", !.value = v]]
    BY <1>17, Zenon DEF ReadCheckpoint, SaveCheckpoint
  <2>3. \A v : LET t == [s EXCEPT !.pc = "saveCheckpoint", !.value = v]
               IN  t.pc = "saveCheckpoint" /\ t.ids = s.ids
    BY <1>0 DEF MaintState
  <2>4. CASE maint' = [maint EXCEPT ![m] = IdleMaint]
    BY <1>8, <1>b, <1>c, <2>1, <2>4, FreeMaint, Zenon
  <2>5. ASSUME NEW v, maint' = [maint EXCEPT ![m] =
                                  [@ EXCEPT !.pc = "saveCheckpoint", !.value = v]]
        PROVE  Handover'
    <3>1. maint'[m].pc = "saveCheckpoint" /\ maint'[m].ids = s.ids /\ Others
      BY <1>0, <2>3, <2>5
    <3>. QED BY <1>8, <2>1, <3>1, FreeMaint
  <2>. QED BY <2>2, <2>4, <2>5, Zenon
<1>. QED
  BY <1>1, <1>2, <1>3, <1>4, <1>5, <1>6, <1>7, <1>9, <1>10, <1>11, <1>12, <1>13,
     <1>14, <1>15, <1>16, <1>17, Zenon DEF MaintStep

\* Storing an event and enqueueing it keep the handover.
LEMMA ProducerHandover ==
  ASSUME TypeOK, TypeOK', EntriesConsistent, EntriesConsistent', Handover,
         NEW e \in Events, Producer(e)
  PROVE  Handover'
<1>. USE DEF redisVars, dbVars
<1>1. UNCHANGED <<worker, maint, lastRead, pending, failed, resolved>>
  BY DEF Producer, CreateEvent, EmitEvent, EmitEventFails
<1>2. CASE CreateEvent(e) \/ EmitEventFails(e)
  <2>1. UNCHANGED <<stream, log>>
    BY <1>2 DEF CreateEvent, EmitEventFails
  <2>2. StreamKept
    BY <1>1, <2>1, QuietStream
  <2>. QED BY <1>1, <2>2, SameWorker, SameMaint, HandoverKept
<1>3. CASE EmitEvent(e)
  <2>1. PICK t : XAdd(e, t, 0, 0)
    BY <1>3, Zenon DEF EmitEvent
  <2>4. StreamKept
    BY <1>1, <2>1, XAddKept
  <2>. QED BY <1>1, <2>4, SameWorker, SameMaint, HandoverKept
<1>. QED BY <1>2, <1>3 DEF Producer

\* A step to a state without a loss or a failed maintenance command comes from such
\* a state, and is none of these faults.
LEMMA QuietBack ==
  ASSUME TypeOK, TypeOK', Next, Quiet'
  PROVE  /\ Quiet
         /\ \/ \E e \in Events : Producer(e)
            \/ \E w \in Workers :
                 \/ WorkerStep(w) \/ AddToInFlightFails(w) \/ HandlerFails(w)
                 \/ CompleteReadFails(w) \/ WorkerFault(w)
            \/ \E m \in Maintainers :
                 \/ \E ids \in SUBSET pending : StartMaintenance(m, ids)
                 \/ \E due \in SUBSET failed : ScanFailed(m, due)
                 \/ MaintStep(m)
<1>0. /\ faults \in [FaultKinds -> Nat] /\ faults' \in [FaultKinds -> Nat]
      /\ {"loss", "maint", "handler", "worker", "slow", "emit"} \subseteq FaultKinds
  BY DEF TypeOK, FaultKinds
<1>1. ASSUME NEW k \in {"handler", "worker", "slow", "emit"}, Fault(k) PROVE Quiet
  BY <1>0, <1>1 DEF Fault, Quiet
<1>2. ASSUME UNCHANGED faults PROVE Quiet
  BY <1>2 DEF Quiet
<1>3. ~Fault("loss") /\ ~Fault("maint")
  BY <1>0, FaultType DEF Quiet
<1>4. ~RedisLoss
  BY <1>3, Zenon DEF RedisLoss
<1>5. \A m \in Maintainers : ~GiveUpRemoveFails(m) /\ ~MaintCallFails(m) /\ ~MaintCrash(m)
  BY <1>3, Zenon DEF GiveUpRemoveFails, MaintCallFails, MaintCrash
<1>6. ASSUME NEW e \in Events, Producer(e) PROVE Quiet
  BY <1>1, <1>2, <1>6, Zenon DEF Producer, CreateEvent, EmitEvent, EmitEventFails
<1>7. ASSUME NEW w \in Workers, WorkerStep(w) PROVE Quiet
  BY <1>2, <1>7, Zenon DEF WorkerStep, ReadGroup, AddToInFlight, HandlerSucceeds,
       CompleteReadRetry, CompleteAddFailed, CompleteReadMessage, CompleteAck,
       CompleteDel, CompleteMark
<1>8. ASSUME NEW w \in Workers,
             \/ AddToInFlightFails(w) \/ HandlerFails(w)
             \/ CompleteReadFails(w) \/ WorkerFault(w)
      PROVE  Quiet
  BY <1>1, <1>8 DEF AddToInFlightFails, HandlerFails, CompleteReadFails, WorkerFault
<1>9. ASSUME NEW m \in Maintainers, NEW ids \in SUBSET pending, StartMaintenance(m, ids)
      PROVE  Quiet
  BY <1>1, <1>2, <1>9 DEF StartMaintenance
<1>10. ASSUME NEW m \in Maintainers, NEW due \in SUBSET failed, ScanFailed(m, due)
       PROVE  Quiet
  BY <1>2, <1>10, Zenon DEF ScanFailed
<1>11. ASSUME NEW m \in Maintainers, MaintStep(m) PROVE Quiet
  BY <1>2, <1>11, Zenon DEF MaintStep, TimedOutRead, TimedOutAckMissing, TimedOutAddFailed,
       TimedOutAck, TimedOutDel, GiveUp, GiveUpMark, Claim, Requeue, Restore,
       AdvanceCheckpoint, CheckpointMissing, Recover, Republish, ResetCheckpoint,
       ReadCheckpoint, SaveCheckpoint
<1>. QED BY <1>4, <1>5, <1>6, <1>7, <1>8, <1>9, <1>10, <1>11, Zenon DEF Next

\* DeliveryInv holds initially.
LEMMA DeliveryInit == Init => DeliveryInv
<1>. SUFFICES ASSUME Init PROVE DeliveryInv
  BY Zenon
<1>1. EntriesConsistent
  BY SMTT(30) DEF Init, EntriesConsistent, IdleWorker, IdleMaint
<1>2. MembersConsistent
  BY SMTT(30) DEF Init, MembersConsistent, IdleMaint, NoMember
<1>3. Handover
  BY Zenon DEF Init, Handover, IdleWorker, IdleMaint
<1>. QED BY <1>1, <1>2, <1>3 DEF DeliveryInv

\* Every step keeps DeliveryInv.
LEMMA DeliveryStep == TypeOK /\ TypeOK' /\ DeliveryInv /\ [Next]_vars => DeliveryInv'
<1>. SUFFICES ASSUME TypeOK, TypeOK', DeliveryInv, [Next]_vars PROVE DeliveryInv'
  OBVIOUS
<1>1. EntriesConsistent /\ MembersConsistent /\ (Quiet => Handover)
  BY DEF DeliveryInv
<1>2. EntriesConsistent' /\ MembersConsistent'
  BY <1>1, EntriesStep, MembersStep, Zenon
<1>3. ASSUME Next, Quiet' PROVE Handover'
  <2>1. Handover
    BY <1>1, <1>3, QuietBack, Zenon
  <2>. QED
    BY <1>1, <1>2, <1>3, <2>1, QuietBack, ProducerHandover, WorkerHandover, MaintHandover
<1>4. ASSUME UNCHANGED vars, Quiet' PROVE Handover'
  BY <1>1, <1>4, ZenonT(60) DEF vars, Quiet, Handover, Cover, Live, XRange
<1>. QED BY <1>2, <1>3, <1>4 DEF DeliveryInv

\* Complete and ProcessTimedOutMessages make a message dispensable before they
\* acknowledge it and acknowledge it before they delete it, for any number of events,
\* threads and maintenance runs and any faults.
THEOREM DeliveryInvariant == Spec => []DeliveryInv
<1>1. Spec => []TypeOK
  BY TypeCorrect
<1>. QED BY <1>1, DeliveryInit, DeliveryStep, PTL DEF Spec

\* What is live in the stream or covered is in the queue or dealt with.
LEMMA DeliveryImpliesNothingLost == DeliveryInv => NothingLost
<1>. SUFFICES ASSUME DeliveryInv, Quiet, NEW x \in log
              PROVE  x.ev \in resolved \/ InQueue(x.ev)
  BY DEF NothingLost, Sent
<1>1. (x \in stream /\ Live(x)) \/ Cover(x.ev, x.id)
  BY Zenon DEF DeliveryInv, Handover
<1>2. CASE x \in stream /\ Live(x)
  BY <1>2 DEF InQueue
<1>3. CASE Cover(x.ev, x.id)
  BY <1>3, Zenon DEF Cover, InQueue
<1>. QED BY <1>1, <1>2, <1>3

\* At-least-once delivery: without a loss of Redis or a failed maintenance command no
\* event that was enqueued is ever lost, whatever threads die or are slow.
THEOREM AtLeastOnce == Spec => []NothingLost
BY DeliveryInvariant, DeliveryImpliesNothingLost, PTL

-----------------------------------------------------------------------------
(* The task queue implements EventDelivery. *)

\* What the failed set and the claims hold, and what is dealt with, was sent.
SentInv ==
  /\ \A x \in log : x.ev \in Events
  /\ \A f \in failed : f.ev \in Sent
  /\ resolved \subseteq Sent
  /\ \A m \in Maintainers :
       /\ \A f \in maint[m].due : f.ev \in Sent
       /\ maint[m].pc \in {"requeue", "restore"} => maint[m].member.ev \in Sent

\* A step that enqueues event e and deals with none.
Enqueues(e) ==
  \/ EmitEvent(e)
  \/ \E m \in Maintainers :
       \/ Requeue(m) /\ maint[m].member.ev = e
       \/ Republish(m) /\ e \in Oldest(maint[m].evs) /\ XAdd(e, created[e], 0, 0)

\* Only three actions write to the stream.
LEMMA LogStep ==
  ASSUME Next PROVE UNCHANGED log \/ \E e : Enqueues(e)
<1>. USE DEF redisVars, dbVars
<1>1. ASSUME NEW e \in Events, Producer(e) PROVE UNCHANGED log \/ Enqueues(e)
  BY <1>1, Zenon DEF Producer, CreateEvent, EmitEventFails, Enqueues
<1>2. ASSUME NEW w \in Workers,
             WorkerStep(w) \/ AddToInFlightFails(w) \/ HandlerFails(w)
               \/ CompleteReadFails(w) \/ WorkerFault(w)
      PROVE  UNCHANGED log
  BY <1>2, Zenon DEF WorkerStep, ReadGroup, AddToInFlight, AddToInFlightFails,
       HandlerSucceeds, HandlerFails, CompleteReadRetry, CompleteAddFailed,
       CompleteReadMessage, CompleteReadFails, CompleteAck, CompleteDel, CompleteMark,
       WorkerFault
<1>3. ASSUME NEW m \in Maintainers, Requeue(m) \/ Republish(m) PROVE \E e : Enqueues(e)
  BY <1>3, Zenon DEF Enqueues, Republish
<1>4. ASSUME NEW m \in Maintainers,
             \/ \E ids \in SUBSET pending : StartMaintenance(m, ids)
             \/ \E due \in SUBSET failed : ScanFailed(m, due)
             \/ MaintStep(m) \/ GiveUpRemoveFails(m) \/ MaintCallFails(m) \/ MaintCrash(m)
      PROVE  UNCHANGED log \/ \E e : Enqueues(e)
  BY <1>3, <1>4, Zenon DEF StartMaintenance, ScanFailed, MaintStep, TimedOutRead,
       TimedOutAckMissing, TimedOutAddFailed, TimedOutAck, TimedOutDel, GiveUp,
       GiveUpRemoveFails, GiveUpMark, Claim, Restore, AdvanceCheckpoint,
       CheckpointMissing, Recover, ResetCheckpoint, ReadCheckpoint, SaveCheckpoint,
       MaintCallFails, MaintCrash
<1>5. CASE RedisLoss
  BY <1>5, Zenon DEF RedisLoss
<1>. QED BY <1>1, <1>2, <1>4, <1>5, Zenon DEF Next

\* What an enqueuing step does to the stream and leaves alone.
LEMMA EnqueueStep ==
  ASSUME TypeOK, SentInv, NEW e, Enqueues(e)
  PROVE  /\ e \in Events
         /\ \E t, r, o : XAdd(e, t, r, o)
         /\ UNCHANGED <<lastRead, pending, failed, resolved, faults>>
         /\ \A m \in Maintainers :
              /\ maint'[m].pc \in {"requeue", "restore"} => maint'[m] = maint[m]
              /\ maint[m].pc \in {"requeue", "restore"} =>
                   maint'[m] = maint[m] \/ maint[m].member.ev = e
<1>. USE DEF redisVars, dbVars
<1>0. maint \in [Maintainers -> MaintState] /\ Sent \subseteq Events /\ unsent \subseteq Events
  BY DEF TypeOK, SentInv, Sent
<1>1. CASE EmitEvent(e)
  BY <1>0, <1>1, Zenon DEF EmitEvent
<1>2. ASSUME NEW m \in Maintainers, Requeue(m), maint[m].member.ev = e
      PROVE  /\ e \in Events
             /\ \E t, r, o : XAdd(e, t, r, o)
             /\ UNCHANGED <<lastRead, pending, failed, resolved, faults>>
             /\ maint'[m].pc \notin {"requeue", "restore"}
             /\ \A n \in Maintainers \ {m} : maint'[n] = maint[n]
  <2>1. e \in Events
    BY <1>0, <1>2 DEF Requeue, SentInv
  <2>2. \E t, r, o : XAdd(e, t, r, o)
    BY <1>2, Zenon DEF Requeue
  <2>3. maint' = [maint EXCEPT ![m] = NextRetry(maint[m], maint[m].due)]
    BY <1>2, Zenon DEF Requeue
  <2>4. NextRetry(maint[m], maint[m].due).pc \in {"advance", "retry"}
    BY <1>0 DEF NextRetry, MaintState
  <2>. QED BY <1>0, <1>2, <2>1, <2>2, <2>3, <2>4, Zenon DEF Requeue
<1>3. ASSUME NEW m \in Maintainers, Republish(m), e \in Oldest(maint[m].evs),
             XAdd(e, created[e], 0, 0)
      PROVE  /\ e \in Events
             /\ UNCHANGED <<lastRead, pending, failed, resolved, faults>>
             /\ maint[m].pc = "republish" /\ maint'[m].pc \notin {"requeue", "restore"}
             /\ \A n \in Maintainers \ {m} : maint'[n] = maint[n]
  <2>1. e \in Events
    BY <1>0, <1>3 DEF Oldest, MaintState
  <2>2. PICK d : maint' = [maint EXCEPT ![m] = NextRepublish(maint[m], d)]
    BY <1>3, Zenon DEF Republish
  <2>3. NextRepublish(maint[m], d).pc \in {"resetCheckpoint", "republish"}
    BY <1>0 DEF NextRepublish, MaintState
  <2>. QED BY <1>0, <1>3, <2>1, <2>2, <2>3 DEF Republish
<1>4. CASE \E m \in Maintainers : Requeue(m) /\ maint[m].member.ev = e
  BY <1>2, <1>4
<1>5. CASE \E m \in Maintainers :
             Republish(m) /\ e \in Oldest(maint[m].evs) /\ XAdd(e, created[e], 0, 0)
  BY <1>3, <1>5
<1>. QED BY <1>1, <1>4, <1>5, Zenon DEF Enqueues

\* An entry is never forgotten, and what is dealt with was sent.
LEMMA ResolvedStep ==
  ASSUME TypeOK, EntriesConsistent, SentInv, Next
  PROVE  resolved \subseteq resolved' /\ resolved' \subseteq Sent
<1>. USE DEF redisVars, dbVars
<1>0. resolved \subseteq Sent
  BY DEF SentInv
<1>1. ASSUME NEW e \in Events, Producer(e) PROVE UNCHANGED resolved
  BY <1>1, Zenon DEF Producer, CreateEvent, EmitEvent, EmitEventFails
<1>2. ASSUME NEW w \in Workers,
             WorkerStep(w) \/ AddToInFlightFails(w) \/ HandlerFails(w)
               \/ CompleteReadFails(w) \/ WorkerFault(w)
      PROVE  resolved \subseteq resolved' /\ resolved' \subseteq Sent
  <2>1. CASE HandlerSucceeds(w)
    <3>1. worker[w].msg.ev \in Sent
      BY <2>1 DEF HandlerSucceeds, EntriesConsistent, Sent
    <3>. QED BY <1>0, <2>1, <3>1 DEF HandlerSucceeds
  <2>2. CASE ~HandlerSucceeds(w)
    BY <1>0, <1>2, <2>2, Zenon DEF WorkerStep, ReadGroup, AddToInFlight,
         AddToInFlightFails, HandlerFails, CompleteReadRetry, CompleteAddFailed,
         CompleteReadMessage, CompleteReadFails, CompleteAck, CompleteDel, CompleteMark,
         WorkerFault
  <2>. QED BY <2>1, <2>2
<1>3. ASSUME NEW m \in Maintainers, GiveUp(m) \/ GiveUpRemoveFails(m)
      PROVE  resolved \subseteq resolved' /\ resolved' \subseteq Sent
  <2>1. PICK f \in maint[m].due : resolved' = resolved \union {f.ev}
    BY <1>3, Zenon DEF GiveUp, GiveUpRemoveFails
  <2>. QED BY <1>0, <2>1 DEF SentInv
<1>4. ASSUME NEW m \in Maintainers,
             \/ \E ids \in SUBSET pending : StartMaintenance(m, ids)
             \/ \E due \in SUBSET failed : ScanFailed(m, due)
             \/ MaintStep(m) \/ GiveUpRemoveFails(m) \/ MaintCallFails(m) \/ MaintCrash(m)
      PROVE  resolved \subseteq resolved' /\ resolved' \subseteq Sent
  <2>1. CASE GiveUp(m) \/ GiveUpRemoveFails(m)
    BY <1>3, <2>1
  <2>2. CASE ~(GiveUp(m) \/ GiveUpRemoveFails(m))
    BY <1>0, <1>4, <2>2, Zenon DEF StartMaintenance, ScanFailed, MaintStep, TimedOutRead,
         TimedOutAckMissing, TimedOutAddFailed, TimedOutAck, TimedOutDel, GiveUpMark,
         Claim, Requeue, Restore, AdvanceCheckpoint, CheckpointMissing, Recover,
         Republish, ResetCheckpoint, ReadCheckpoint, SaveCheckpoint, MaintCallFails,
         MaintCrash
  <2>. QED BY <2>1, <2>2
<1>5. CASE RedisLoss
  BY <1>0, <1>5 DEF RedisLoss
<1>. QED BY <1>0, <1>1, <1>2, <1>4, <1>5 DEF Next

\* The log grows by the entry that is enqueued and in no other step.
LEMMA SentGrows ==
  ASSUME TypeOK, SentInv, Next
  PROVE  \/ Sent' = Sent
         \/ \E e \in Events : Enqueues(e) /\ Sent' = Sent \union {e}
<1>1. CASE UNCHANGED log
  BY <1>1 DEF Sent
<1>2. ASSUME NEW e, Enqueues(e)
      PROVE  e \in Events /\ Sent' = Sent \union {e}
  <2>1. e \in Events /\ \E t, r, o : XAdd(e, t, r, o)
    BY <1>2, EnqueueStep
  <2>2. PICK t, r, o : XAdd(e, t, r, o)
    BY <2>1
  <2>3. PICK a : a = [id |-> nextId, ev |-> e, ts |-> t, retry |-> r, orig |-> o]
    OBVIOUS
  <2>4. log' = log \union {a} /\ a.ev = e
    BY <2>2, <2>3, Zenon DEF XAdd
  <2>. QED BY <2>1, <2>4 DEF Sent
<1>. QED BY <1>1, <1>2, LogStep

\* SentInv holds initially.
LEMMA SentInit == Init => SentInv
BY DEF Init, SentInv, IdleMaint

\* Every step keeps SentInv.
LEMMA SentStep ==
  TypeOK /\ EntriesConsistent /\ SentInv /\ [Next]_vars => SentInv'
<1>. SUFFICES ASSUME TypeOK, EntriesConsistent, SentInv, [Next]_vars PROVE SentInv'
  OBVIOUS
<1>1. CASE UNCHANGED vars
  BY <1>1 DEF vars, SentInv, Sent
<1>2. CASE Next
  <2>1. Sent \subseteq Sent' /\ Sent' \subseteq Events
    <3>1. Sent \subseteq Events
      BY DEF SentInv, Sent
    <3>. QED BY <1>2, <3>1, SentGrows
  <2>2. resolved' \subseteq Sent'
    BY <1>2, <2>1, ResolvedStep
  <2>3. \A x \in log' : x.ev \in Events
    BY <2>1 DEF Sent
  <2>4. FailedFrom /\ \A m \in Maintainers : MembersHeld(m)
    BY MembersFrom DEF MembersChange
  <2>5. \A f \in failed' : f.ev \in Sent
    <3>1. \A x \in log : x.ev \in Sent
      BY DEF Sent
    <3>. QED BY <2>4, <3>1 DEF FailedFrom, SentInv
  <2>6. ASSUME NEW m \in Maintainers
        PROVE  /\ \A f \in maint'[m].due : f.ev \in Sent
               /\ maint'[m].pc \in {"requeue", "restore"} => maint'[m].member.ev \in Sent
    <3>1. MembersHeld(m)
      BY <2>4
    <3>. QED BY <3>1 DEF MembersHeld, SentInv
  <2>. QED BY <2>1, <2>2, <2>3, <2>5, <2>6 DEF SentInv
<1>. QED BY <1>1, <1>2

\* What is in the queue, or dealt with, was sent.
THEOREM OnlySent == Spec => []SentInv
<1>1. Spec => [](TypeOK /\ EntriesConsistent)
  BY TypeCorrect, DeliveryInvariant, PTL DEF DeliveryInv
<1>. QED BY <1>1, SentInit, SentStep, PTL DEF Spec

-----------------------------------------------------------------------------
(* The refinement. *)

Queued == {e \in Events : InQueue(e)}

\* What the refinement rests on.
RefinementInv ==
  TypeOK /\ DeliveryInv /\ SentInv /\ NothingLost /\ Queued \subseteq Sent

\* Everything in the queue was sent.
LEMMA QueuedSent == EntriesConsistent /\ SentInv => Queued \subseteq Sent
BY DEF EntriesConsistent, SentInv, Queued, InQueue, Sent

\* An enqueuing step puts its event into the queue and takes nothing out.
LEMMA EnqueueQueued ==
  ASSUME TypeOK, TypeOK', EntriesConsistent, SentInv, NEW e \in Events, Enqueues(e)
  PROVE  Queued' = Queued \union {e}
<1>0. /\ UNCHANGED <<lastRead, pending, failed, resolved, faults>>
      /\ \A m \in Maintainers :
           /\ maint'[m].pc \in {"requeue", "restore"} => maint'[m] = maint[m]
           /\ maint[m].pc \in {"requeue", "restore"} =>
                maint'[m] = maint[m] \/ maint[m].member.ev = e
  BY EnqueueStep
<1>1. PICK t, r, o : XAdd(e, t, r, o)
  BY EnqueueStep, Zenon
<1>2. /\ \A x \in stream : Live(x) => x \in stream' /\ Live(x)'
      /\ \E x \in stream' : x.ev = e /\ x.id = nextId /\ Live(x)'
  BY <1>0, <1>1, XAddStream
<1>3. \A x \in stream' : x \in stream \/ x.ev = e
  BY <1>1 DEF XAdd
<1>4. \A x \in stream : Live(x)' => Live(x)
  BY <1>0 DEF Live
<1>5. InQueue(e)'
  BY <1>2, Zenon DEF InQueue
<1>6. ASSUME NEW d \in Events, InQueue(d) PROVE InQueue(d)'
  BY <1>0, <1>2, <1>5, <1>6, Zenon DEF InQueue
<1>7. ASSUME NEW d \in Events, InQueue(d)', d # e PROVE InQueue(d)
  BY <1>0, <1>3, <1>4, <1>7 DEF InQueue
<1>. QED BY <1>5, <1>6, <1>7 DEF Queued

\* The initial states of the queue are initial states of EventDelivery.
LEMMA RefinementInit == Init => Delivery!Init
<1>. SUFFICES ASSUME Init PROVE Delivery!Init
  OBVIOUS
<1>1. Sent = {} /\ resolved = {}
  BY DEF Init, Sent
<1>2. \A e : ~InQueue(e)
  BY DEF Init, InQueue, IdleMaint
<1>3. Quiet = TRUE
  BY DEF Init, Quiet, FaultKinds
<1>. QED BY <1>1, <1>2, <1>3 DEF Delivery!Init

\* Every step of the queue is a step of EventDelivery, or none.
LEMMA RefinementStep ==
  RefinementInv /\ RefinementInv' /\ [Next]_vars => [Delivery!Next]_Delivery!vars
<1>. SUFFICES ASSUME RefinementInv, RefinementInv', [Next]_vars
              PROVE  [Delivery!Next]_Delivery!vars
  OBVIOUS
<1>0. TypeOK /\ TypeOK' /\ DeliveryInv /\ SentInv /\ SentInv'
  BY Zenon DEF RefinementInv
<1>1. CASE UNCHANGED vars
  BY <1>1 DEF vars, Delivery!vars, Sent, InQueue, Live, Quiet
<1>2. CASE Next
  <2>1. /\ resolved \subseteq resolved' /\ resolved' \subseteq Sent
        /\ Sent \subseteq Sent' /\ Sent' \subseteq Events
        /\ Queued \subseteq Sent /\ Queued' \subseteq Sent'
    <3>1. Sent' \subseteq Events
      BY <1>0 DEF SentInv, Sent
    <3>2. Queued \subseteq Sent /\ Queued' \subseteq Sent'
      BY DEF RefinementInv
    <3>3. resolved \subseteq resolved' /\ resolved' \subseteq Sent
      BY <1>0, <1>2, ResolvedStep DEF DeliveryInv
    <3>. QED BY <1>0, <1>2, <3>1, <3>2, <3>3, SentGrows
  <2>2. CASE ~Quiet'
    <3>1. Quiet' = FALSE
      BY <2>2, Zenon DEF Quiet
    <3>2. Sent' = Sent \union Sent' /\ resolved' = resolved \union resolved'
      BY <2>1
    <3>3. Delivery!Outage(Sent', resolved', Queued')
      BY <3>1, <3>2, Zenon DEF Delivery!Outage, Queued
    <3>. QED BY <2>1, <3>3 DEF Delivery!Next
  <2>3. ASSUME Quiet', NEW e \in Events, Enqueues(e), Sent' = Sent \union {e}
        PROVE  Delivery!Send(e)
    <3>1. UNCHANGED <<resolved, faults>>
      BY <1>0, <2>3, EnqueueStep
    <3>2. Queued' = Queued \union {e}
      BY <1>0, <2>3, EnqueueQueued DEF DeliveryInv
    <3>. QED BY <2>3, <3>1, <3>2 DEF Delivery!Send, Queued, Quiet
  <2>4. CASE Quiet' /\ Sent' = Sent
    <3>1. Quiet
      BY <1>0, <1>2, <2>4, QuietBack
    <3>2. NothingLost'
      BY DEF RefinementInv
    <3>3. Queued \ Queued' \subseteq resolved'
      BY <2>1, <2>4, <3>2 DEF NothingLost, Queued
    <3>4. Quiet' = Quiet
      BY <2>4, <3>1, Zenon DEF Quiet
    <3>5. /\ resolved' = resolved \union resolved'
          /\ Queued' = (Queued \ (Queued \ Queued')) \union Queued'
      BY <2>1
    <3>6. Delivery!Work(resolved', Queued \ Queued', Queued')
      BY <2>4, <3>3, <3>4, <3>5, Zenon DEF Delivery!Work, Queued
    <3>. QED BY <2>1, <2>4, <3>6 DEF Delivery!Next, Queued
  <2>. QED BY <1>0, <1>2, <2>2, <2>3, <2>4, SentGrows DEF Delivery!Next
<1>. QED BY <1>1, <1>2

\* The task queue implements at-least-once delivery, for any number of events, threads
\* and maintenance runs and any faults: until an outage, the steps of Complete, of the
\* clean-up of timed out messages and of the retries take an event out of the queue only
\* once it is handled or reported as failed for good.
THEOREM Refinement == Spec => DeliversEvents
<1>1. TypeOK /\ DeliveryInv /\ SentInv => RefinementInv
  BY DeliveryImpliesNothingLost, QueuedSent DEF RefinementInv, DeliveryInv
<1>2. Spec => []RefinementInv
  BY <1>1, TypeCorrect, DeliveryInvariant, OnlySent, PTL
<1>3. []RefinementInv /\ [][Next]_vars => [][Delivery!Next]_Delivery!vars
  BY RefinementStep, PTL
<1>. QED BY <1>2, <1>3, RefinementInit, PTL DEF Spec, DeliversEvents, Delivery!Spec

=============================================================================
