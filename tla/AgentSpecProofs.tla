-------------------------- MODULE AgentSpecProofs ---------------------------
(***************************************************************************)
(* The spec manager, for any plan of versions and contents (equal contents  *)
(* under several versions included), any answers of the policies, any       *)
(* points where the process dies and any number of faults: the files never  *)
(* go back (DesiredNotOlder, CurrentForward), an update never works on what *)
(* was marked as failed (FailedNotApplied), and a new image is committed    *)
(* only after its boot was approved (CommittedImageBooted).  Where contents *)
(* differ between versions and the process does not die between the two     *)
(* writes of Upgrade, the spec that runs can always be applied again        *)
(* (CurrentCanResync).                                                      *)
(***************************************************************************)
EXTENDS AgentSpec, TLAPS

\* The process does not run, or has not yet loaded the files.
Dormant == {"off", "resetCurrent", "resetDesired", "resetRollback", "load"}

Queues == [item : Device \union {NoDevice}, versions : SUBSET Versions,
           contents : SUBSET Contents, requeue : [Versions -> Requeue]]

Answers == [download : BOOLEAN, update : BOOLEAN]

\* The files and the manager's copy of them.  A file may be gone, the desired one cut
\* short in the middle of a rollback; what is there is what the manager remembers.
FilesInv ==
  /\ DesiredNotOlder
  /\ disk.desired = Truncated => pc \in Dormant \union {"copy"}
  /\ pc \in {"resetDesired", "resetRollback"} => disk.current = Zero
  /\ pc = "resetRollback" => disk.desired = Zero
  /\ pc \in {"load", "copy"} => disk.current # Missing
  /\ pc \in {"load", "done"} => disk.desired # Missing
  /\ pc \notin Dormant =>
       /\ disk.current \in {cache.current, Missing}
       /\ disk.desired \in {cache.desired, Missing, Truncated}
       /\ cache.desired.version >= cache.current.version

\* Every device there is a trace of: rendered, polled, queued, remembered or written.
Polled == {publisher.buffer[i] : i \in 1 .. Len(publisher.buffer)}

Known == {server, disk.current, disk.desired, cache.current, cache.desired, queue.item,
          lastConsumed} \union Polled

\* A version stands for one content, one the service may render as that version, and none
\* is ahead of the service.
Coherent ==
  /\ \A x, y \in Known : x.version = y.version => x = y
  /\ \A x \in Known : x.version <= server.version /\ (x.version = 0 => x = Zero)
  /\ \A x \in Known : x.version > 0 => x.content \in Plan[x.version]

\* The queued device has not failed, unless it is the one that runs.
ItemSound(q, current) ==
  q.item # NoDevice => ~IsFailed(q, q.item) \/ q.item.version = current.version

QueueInv ==
  /\ pc \in Dormant => queue = EmptyQueue
  /\ pc \in Syncing => queue.item = NoDevice
  /\ pc = "bootOS" => queue.item \in {NoDevice, cache.desired}
  /\ ItemSound(queue, cache.current)

AgentInv == TypeOK /\ FilesInv /\ Coherent /\ QueueInv /\ FailedNotApplied

-----------------------------------------------------------------------------
(* Devices and the queue.                                                   *)

\* A version tells a device from the marks for a missing and for a truncated file.
LEMMA DeviceFacts ==
  /\ \A d \in Device \union {NoDevice, Truncated} : d.version \in Int
  /\ \A d \in Device : d.version \in Nat /\ d.version \in Versions
                       /\ d.content \in Contents \union {Empty} /\ d # NoDevice /\ d # Truncated
  /\ NoDevice.version = -1 /\ Truncated.version = -2 /\ NoDevice # Truncated
  /\ Zero \in Device /\ Zero.version = 0 /\ Zero.content = Empty
<1>1. Len(Plan) \in Nat
  BY ConstantsAssumption
<1> QED BY <1>1 DEF Device, Versions, NoDevice, Truncated, Zero

LEMMA RefreshFacts ==
  ASSUME NEW q \in Queues, NEW v \in Versions, NEW ready \in Answers
  PROVE  /\ Refresh(q, v, ready) \in Queues
         /\ Refresh(q, v, ready).versions = q.versions
         /\ Refresh(q, v, ready).contents = q.contents
         /\ Refresh(q, v, ready).item = q.item
<1>1. [q.requeue EXCEPT ![v].download = @ \/ ready.download,
                        ![v].update = @ \/ ready.update] \in [Versions -> Requeue]
  BY DEF Queues, Requeue, Answers
<1> QED BY <1>1, Zenon DEF Refresh, Queues

\* queueManager.Add marks nothing as failed, and what it lets in has not failed.
LEMMA AddFacts ==
  ASSUME NEW q \in Queues, NEW d \in Device, NEW ready \in Answers, NEW current \in Device
  PROVE  /\ Add(q, d, ready, current) \in Queues
         /\ Add(q, d, ready, current).versions = q.versions
         /\ Add(q, d, ready, current).contents = q.contents
         /\ \/ Add(q, d, ready, current).item = q.item
            \/ Add(q, d, ready, current).item = d /\ ~IsFailed(q, d)
<1> DEFINE v == d.version
           r == Refresh(q, v, ready)
<1>1. v \in Versions
  BY DeviceFacts, Zenon
<1>2. r \in Queues /\ r.versions = q.versions /\ r.contents = q.contents /\ r.item = q.item
  BY <1>1, RefreshFacts, Zenon
<1>3. CASE Refuses(q, d, current)
  BY <1>3, Zenon DEF Add
<1>4. CASE ~Refuses(q, d, current)
  <2> DEFINE delayed == [r.requeue EXCEPT ![v].delay =
                           IF r.requeue[v].tried /\ @ = "none" THEN "waiting" ELSE @]
             item == IF q.item.version = v THEN q.item ELSE d
  <2>1. delayed \in [Versions -> Requeue]
    BY <1>1, <1>2 DEF Queues, Requeue
  <2>2. Add(q, d, ready, current) = [r EXCEPT !.requeue = delayed, !.item = item]
    BY <1>2, <1>4, Zenon DEF Add, Queues
  <2>3. item \in Device \union {NoDevice}
    BY Zenon DEF Queues
  <2> HIDE DEF r, delayed, item
  <2>4. Add(q, d, ready, current) \in Queues
    BY <1>2, <2>1, <2>2, <2>3, Zenon DEF Queues
  <2>5. /\ Add(q, d, ready, current).versions = q.versions
        /\ Add(q, d, ready, current).contents = q.contents
        /\ Add(q, d, ready, current).item = item
    BY <1>2, <2>2, Zenon DEF Queues
  <2> QED BY <1>4, <2>4, <2>5, Zenon DEF item, Refuses
<1> QED BY <1>3, <1>4, Zenon

\* So does the whole ring buffer.
LEMMA AddAllFacts ==
  ASSUME NEW q \in Queues, NEW s \in Seq(Device), NEW ready \in Answers, NEW current \in Device
  PROVE  /\ AddAll(q, s, ready, current) \in Queues
         /\ AddAll(q, s, ready, current).versions = q.versions
         /\ AddAll(q, s, ready, current).contents = q.contents
         /\ \/ AddAll(q, s, ready, current).item = q.item
            \/ \E i \in 1 .. Len(s) : AddAll(q, s, ready, current).item = s[i] /\ ~IsFailed(q, s[i])
<1> DEFINE first == IF Len(s) < 1 THEN q ELSE Add(q, s[1], ready, current)
           second == IF Len(s) < 2 THEN first ELSE Add(first, s[2], ready, current)
           third == IF Len(s) < 3 THEN second ELSE Add(second, s[3], ready, current)
           Good(a) == /\ a \in Queues /\ a.versions = q.versions /\ a.contents = q.contents
                      /\ \/ a.item = q.item
                         \/ \E i \in 1 .. Len(s) : a.item = s[i] /\ ~IsFailed(q, s[i])
<1>0. Len(s) \in Nat /\ \A i \in 1 .. Len(s) : s[i] \in Device
  OBVIOUS
<1>1. ASSUME NEW a, Good(a), NEW i \in 1 .. Len(s)
      PROVE  Good(Add(a, s[i], ready, current))
  <2> DEFINE b == Add(a, s[i], ready, current)
             d == s[i]
  <2>0. a \in Queues /\ d \in Device
    BY <1>0, <1>1, Zenon
  <2> HIDE DEF Good, d
  <2>1. /\ b \in Queues /\ b.versions = a.versions /\ b.contents = a.contents
        /\ b.item = a.item \/ (b.item = d /\ ~IsFailed(a, d))
    BY <2>0, AddFacts DEF d
  <2>2. IsFailed(a, d) <=> IsFailed(q, d)
    BY <1>1, Zenon DEF IsFailed, Good
  <2> SUFFICES Good(b)
    BY Zenon DEF d
  <2> HIDE DEF b
  <2>3. CASE b.item = a.item BY <1>1, <2>1, <2>3, Zenon DEF Good
  <2>4. CASE b.item = d /\ ~IsFailed(q, d)
    <3>1. b.versions = q.versions /\ b.contents = q.contents
      BY <1>1, <2>1, Zenon DEF Good
    <3>2. \E k \in 1 .. Len(s) : b.item = s[k] /\ ~IsFailed(q, s[k])
      BY <2>4, Zenon DEF d
    <3> QED BY <2>1, <3>1, <3>2, Zenon DEF Good
  <2> QED BY <2>1, <2>2, <2>3, <2>4, Zenon
<1>2. Good(q)
  BY Zenon
<1> HIDE DEF Good
<1>3. Good(first)
  BY <1>0, <1>1, <1>2
<1>4. Good(second)
  <2> HIDE DEF first
  <2> QED BY <1>0, <1>1, <1>3
<1>5. Good(third)
  <2> HIDE DEF second
  <2> QED BY <1>0, <1>1, <1>4
<1>6. AddAll(q, s, ready, current) = third
  BY Zenon DEF AddAll
<1> QED BY <1>5, <1>6 DEF Good

LEMMA SetFailedFacts ==
  ASSUME NEW q \in Queues, NEW v \in Versions, NEW c \in Contents \union {Empty}
  PROVE  /\ SetFailed(q, v, c) \in Queues
         /\ SetFailed(q, v, c).item = IF q.item.version = v THEN NoDevice ELSE q.item
<1>1. FreshRequeue \in Requeue
  BY Zenon DEF FreshRequeue, Requeue
<1>2. [q.requeue EXCEPT ![v] = FreshRequeue] \in [Versions -> Requeue]
  BY <1>1, Zenon DEF Queues
<1>3. /\ q.versions \union {v} \in SUBSET Versions
      /\ q.contents \union ({c} \ {Empty}) \in SUBSET Contents
      /\ (IF q.item.version = v THEN NoDevice ELSE q.item) \in Device \union {NoDevice}
  BY Zenon DEF Queues
<1> QED BY <1>2, <1>3, Zenon DEF SetFailed, Queues

LEMMA EmptyQueueFacts ==
  EmptyQueue \in Queues /\ EmptyQueue.item = NoDevice /\ EmptyQueue.versions = {}
    /\ EmptyQueue.contents = {}
<1>1. FreshRequeue \in Requeue
  BY Zenon DEF FreshRequeue, Requeue
<1> QED BY <1>1, Zenon DEF EmptyQueue, Queues

\* What is known stays coherent as long as nothing but marks and the empty spec is added.
LEMMA CoherentStep ==
  ASSUME TypeOK, Coherent, server' = server,
         Known' \subseteq Known \union {Zero, NoDevice, Truncated}
  PROVE  Coherent'
<1> DEFINE All == Known \union {Zero, NoDevice, Truncated}
<1>1. Known \subseteq Device \union {NoDevice, Truncated}
  BY DEF TypeOK, Known, Polled, Missing
<1>2. \A x \in Device : x.version # -1 /\ x.version # -2
  BY DeviceFacts
<1>3. server.version \in Nat
  BY DeviceFacts, Zenon DEF TypeOK
<1>4. \A x \in All : x.version <= server.version /\ (x.version = 0 => x = Zero)
  BY <1>3, DeviceFacts DEF Coherent
<1>5. \A x, y \in All : x.version = y.version => x = y
  <2> SUFFICES ASSUME NEW x \in All, NEW y \in All, x.version = y.version PROVE x = y
    BY Zenon
  <2>1. CASE x \in Known /\ y \in Known BY <2>1, Zenon DEF Coherent
  <2>2. CASE x = Zero \/ y = Zero BY <2>2, <1>4, DeviceFacts
  <2>3. CASE x = NoDevice \/ y = NoDevice BY <2>3, <1>1, <1>2, DeviceFacts
  <2>4. CASE x = Truncated \/ y = Truncated BY <2>4, <1>1, <1>2, DeviceFacts
  <2> QED BY <2>1, <2>2, <2>3, <2>4, Zenon
<1>6. \A x \in All : x.version > 0 => x.content \in Plan[x.version]
  BY DeviceFacts DEF Coherent
<1> HIDE DEF All
<1>7. Known' \subseteq All
  BY Zenon DEF All
<1> QED BY <1>4, <1>5, <1>6, <1>7, Zenon DEF Coherent

LEMMA InitInv == Init => AgentInv
<1> SUFFICES ASSUME Init PROVE AgentInv
  BY Zenon
<1> USE DEF Init
<1>1. TypeOK
  <2>1. server \in Device /\ lastConsumed \in Device \union {NoDevice}
        /\ cache \in [current : Device, desired : Device]
    BY DeviceFacts, Zenon
  <2>2. disk \in [current : Device \union {Missing},
                  desired : Device \union {Missing, Truncated}, rollback : RollbackFile]
    BY Zenon DEF RollbackFile, NoRollbackFile
  <2>3. os \in [booted : Images, staged : Images, previous : Images, ok : BOOLEAN]
    BY Zenon DEF Images
  <2>4. queue \in Queues
    BY EmptyQueueFacts, Zenon
  <2>5. publisher \in [known : Versions, buffer : Seq(Device)] /\ Len(publisher.buffer) <= 3
    BY ConstantsAssumption DEF Versions
  <2>6. faults \in [FaultKinds -> Nat]
    BY Zenon
  <2> QED BY <2>1, <2>2, <2>3, <2>4, <2>5, <2>6, Zenon DEF TypeOK, Queues
<1>2. FilesInv
  BY DeviceFacts, Zenon DEF FilesInv, DesiredNotOlder, Dormant, Missing
<1>3. Coherent
  <2>1. Known = {Zero, NoDevice}
    BY DEF Known, Polled, EmptyQueue, Missing
  <2> QED BY <2>1, DeviceFacts DEF Coherent
<1>4. QueueInv
  BY EmptyQueueFacts, Zenon DEF QueueInv, ItemSound, Syncing, Dormant
<1>5. FailedNotApplied
  BY Zenon DEF FailedNotApplied, Syncing
<1> QED BY <1>1, <1>2, <1>3, <1>4, <1>5, Zenon DEF AgentInv

-----------------------------------------------------------------------------
(* Two kinds of step that many actions take.                                *)

\* The process ends: its memory is gone, the files stay.
LEMMA StopStep ==
  ASSUME AgentInv, Stop, UNCHANGED <<server, disk>>,
         os' \in [booted : Images, staged : Images, previous : Images, ok : BOOLEAN],
         applied' \in Contents \union {Empty, "mixed"}, faults' \in [FaultKinds -> Nat]
  PROVE  AgentInv'
<1> USE DEF AgentInv
<1>0. /\ pc' = "off" /\ fatal' = FALSE /\ next' = "idle" /\ queue' = EmptyQueue
      /\ cache' = [current |-> Zero, desired |-> Zero] /\ lastConsumed' = NoDevice
      /\ publisher' = [known |-> 0, buffer |-> <<>>]
  BY Zenon DEF Stop
<1>1. TypeOK'
  <2>1. 0 \in Versions
    BY ConstantsAssumption DEF Versions
  <2>2. publisher' \in [known : Versions, buffer : Seq(Device)] /\ Len(publisher'.buffer) <= 3
    BY <1>0, <2>1
  <2>3. cache' \in [current : Device, desired : Device]
    BY <1>0, DeviceFacts, Zenon
  <2> QED BY <1>0, <2>2, <2>3, EmptyQueueFacts, Zenon DEF TypeOK, Queues
<1>2. FilesInv'
  BY <1>0, Zenon DEF FilesInv, DesiredNotOlder, Dormant
<1>3. Coherent'
  <2>1. Known' \subseteq Known \union {Zero, NoDevice, Truncated}
    BY <1>0, EmptyQueueFacts DEF Known, Polled
  <2> QED BY <2>1, CoherentStep, Zenon
<1>4. QueueInv'
  BY <1>0, EmptyQueueFacts, Zenon DEF QueueInv, ItemSound, Syncing, Dormant
<1>5. FailedNotApplied'
  BY <1>0, Zenon DEF FailedNotApplied, Syncing
<1> QED BY <1>1, <1>2, <1>3, <1>4, <1>5, Zenon

\* The process goes on and writes no file.
LEMMA FilesKept ==
  ASSUME FilesInv, UNCHANGED <<disk, cache>>,
         pc \notin Dormant \union {"copy"}, pc' \notin Dormant \union {"copy"},
         pc' = "done" => disk.desired # Missing
  PROVE  FilesInv'
<1>1. DesiredNotOlder'
  BY Zenon DEF FilesInv, DesiredNotOlder
<1>2. /\ disk'.desired # Truncated
      /\ disk'.current \in {cache'.current, Missing}
      /\ disk'.desired \in {cache'.desired, Missing, Truncated}
      /\ cache'.desired.version >= cache'.current.version
  BY Zenon DEF FilesInv
<1>3. /\ pc' \notin {"resetDesired", "resetRollback", "load", "copy"}
      /\ pc' = "done" => disk'.desired # Missing
  BY Zenon DEF Dormant
<1> QED BY <1>1, <1>2, <1>3, Zenon DEF FilesInv

\* The process goes on and touches neither a file nor a device in its memory.
LEMMA QuietStep ==
  ASSUME AgentInv, TypeOK',
         UNCHANGED <<server, disk, cache, queue, lastConsumed, publisher>>,
         pc \notin Dormant \union {"copy"}, pc' \notin Dormant \union {"copy", "bootOS"},
         pc' \in Syncing => pc \in Syncing,
         pc' = "done" => disk.desired # Missing
  PROVE  AgentInv'
<1> USE DEF AgentInv
<1>1. FilesInv'
  BY FilesKept, Zenon
<1>2. Known' = Known
  BY Zenon DEF Known, Polled
<1>3. Coherent'
  BY <1>2, CoherentStep, Zenon
<1>4. QueueInv'
  BY Zenon DEF QueueInv, ItemSound, IsFailed
<1>5. FailedNotApplied'
  BY Zenon DEF FailedNotApplied, IsUpgrading, IsFailed
<1> QED BY <1>1, <1>3, <1>4, <1>5, Zenon

-----------------------------------------------------------------------------
(* The service, the publisher, and what happens around the process.         *)

\* What Tail and Append make of a sequence.
LEMMA TailFacts ==
  ASSUME NEW S, NEW s \in Seq(S), s # <<>>
  PROVE  /\ Tail(s) \in Seq(S) /\ Len(Tail(s)) = Len(s) - 1
         /\ \A i \in 1 .. Len(Tail(s)) : Tail(s)[i] = s[i + 1]
OBVIOUS

LEMMA AppendFacts ==
  ASSUME NEW S, NEW s \in Seq(S), NEW e \in S
  PROVE  /\ Append(s, e) \in Seq(S) /\ Len(Append(s, e)) = Len(s) + 1
         /\ \A i \in 1 .. Len(s) : Append(s, e)[i] = s[i]
         /\ Append(s, e)[Len(s) + 1] = e
OBVIOUS

LEMMA NoEntries == ASSUME NEW S PROVE <<>> \in Seq(S)
OBVIOUS

LEMMA FullBuffer ==
  ASSUME NEW s \in Seq(Device), Len(s) = 3
  PROVE  /\ Tail(s) \in Seq(Device) /\ Len(Tail(s)) = 2
         /\ \A i \in 1 .. 2 : Tail(s)[i] = s[i + 1]
<1>1. s # <<>>
  OBVIOUS
<1>2. /\ Tail(s) \in Seq(Device) /\ Len(Tail(s)) = Len(s) - 1
      /\ \A i \in 1 .. Len(Tail(s)) : Tail(s)[i] = s[i + 1]
  BY <1>1, TailFacts, Zenon
<1>3. Len(s) - 1 = 2
  OBVIOUS
<1>4. Len(Tail(s)) = 2
  BY <1>2, <1>3, Zenon
<1> QED BY <1>2, <1>4, Zenon

LEMMA RingBuffer ==
  ASSUME NEW s \in Seq(Device), Len(s) <= 3, NEW d \in Device
  PROVE  LET b == Append(IF Len(s) = 3 THEN Tail(s) ELSE s, d)
         IN /\ b \in Seq(Device) /\ Len(b) <= 3
            /\ \A i \in 1 .. Len(b) : b[i] = d \/ \E k \in 1 .. Len(s) : b[i] = s[k]
<1> DEFINE kept == IF Len(s) = 3 THEN Tail(s) ELSE s
           b == Append(kept, d)
<1>1. /\ kept \in Seq(Device) /\ Len(kept) \in Nat /\ Len(kept) <= 2
      /\ \A i \in 1 .. Len(kept) : \E k \in 1 .. Len(s) : kept[i] = s[k]
  <2>1. CASE Len(s) = 3
    <3>1. /\ kept = Tail(s) /\ kept \in Seq(Device) /\ Len(kept) = 2
          /\ \A i \in 1 .. 2 : kept[i] = s[i + 1]
      BY <2>1, FullBuffer, Zenon
    <3> HIDE DEF kept
    <3>2. \A i \in 1 .. 2 : i + 1 \in 1 .. Len(s)
      BY <2>1
    <3>3. \A i \in 1 .. 2 : \E k \in 1 .. Len(s) : kept[i] = s[k]
      BY <3>1, <3>2, Zenon
    <3> QED BY <3>1, <3>3
  <2>2. CASE Len(s) # 3
    <3>1. kept = s /\ Len(s) \in Nat
      BY <2>2
    <3>2. \A n \in Nat : n <= 3 /\ n # 3 => n <= 2
      OBVIOUS
    <3>3. Len(s) <= 2
      BY <2>2, <3>1, <3>2, Zenon
    <3> QED BY <3>1, <3>3, Zenon
  <2> QED BY <2>1, <2>2, Zenon
<1> HIDE DEF kept
<1>2. /\ b \in Seq(Device) /\ Len(b) = Len(kept) + 1
      /\ \A i \in 1 .. Len(kept) : b[i] = kept[i]
      /\ b[Len(kept) + 1] = d
  BY <1>1, AppendFacts
<1> HIDE DEF b
<1>3. \A i \in 1 .. Len(b) : i = Len(kept) + 1 \/ i \in 1 .. Len(kept)
  BY <1>1, <1>2
<1>4. Len(b) <= 3
  BY <1>1, <1>2
<1>5. \A i \in 1 .. Len(b) : b[i] = d \/ \E k \in 1 .. Len(s) : b[i] = s[k]
  BY <1>1, <1>2, <1>3, Zenon
<1> QED BY <1>2, <1>4, <1>5, Zenon DEF b, kept

LEMMA ServiceSteps ==
  ASSUME AgentInv, (\E c \in Contents : Publish(c)) \/ Poll \/ BootSucceeds
                     \/ (\E v \in Versions : BackoffElapses(v))
  PROVE  AgentInv'
<1> USE DEF AgentInv
<1>1. ASSUME NEW c \in Contents, Publish(c) PROVE AgentInv'
  <2> USE <1>1 DEF Publish, memory
  <2>1. server'.version = server.version + 1 /\ server'.version \in Versions /\ server' \in Device
    BY ConstantsAssumption, DeviceFacts, SMTT(60) DEF TypeOK, Versions, Device
  <2>2. TypeOK' BY <2>1 DEF TypeOK
  <2>3. FilesInv' BY ZenonT(60) DEF FilesInv, DesiredNotOlder
  <2>4. Coherent'
    <3>1. Known' \subseteq Known \union {server'}
      BY Zenon DEF Known, Polled
    <3>2. server.version \in Nat /\ server \in Known
      BY DeviceFacts, Zenon DEF TypeOK, Known
    <3>3. Known \subseteq Device \union {NoDevice, Truncated}
      BY DEF TypeOK, Known, Polled, Missing
    <3>4. \A x \in Known : x.version \in Int /\ x.version <= server.version
      BY <3>3, DeviceFacts, Zenon DEF Coherent
    <3>5. \A x \in Known \union {server'} : x.version > 0 => x.content \in Plan[x.version]
      BY DEF Coherent
    <3>6. /\ \A x, y \in Known' : x.version = y.version => x = y
          /\ \A x \in Known' : x.version <= server'.version /\ (x.version = 0 => x = Zero)
      BY <2>1, <3>1, <3>2, <3>4 DEF Coherent
    <3> QED BY <3>1, <3>5, <3>6, Zenon DEF Coherent
  <2>5. QueueInv' BY Zenon DEF QueueInv, ItemSound, IsFailed
  <2>6. FailedNotApplied' BY Zenon DEF FailedNotApplied, IsUpgrading, IsFailed
  <2> QED BY <2>2, <2>3, <2>4, <2>5, <2>6, Zenon
<1>2. CASE Poll
  <2> USE <1>2 DEF Poll
  <2>1. /\ publisher'.buffer \in Seq(Device) /\ Len(publisher'.buffer) <= 3
        /\ \A i \in 1 .. Len(publisher'.buffer) :
             publisher'.buffer[i] = server
               \/ \E k \in 1 .. Len(publisher.buffer) : publisher'.buffer[i] = publisher.buffer[k]
    BY RingBuffer, SMTT(60) DEF TypeOK
  <2>2. server.version \in Versions
    BY DeviceFacts, Zenon DEF TypeOK
  <2>3. TypeOK'
    <3>1. publisher' \in [known : Versions, buffer : Seq(Device)]
      BY <2>1, <2>2, Zenon DEF TypeOK
    <3>2. UNCHANGED <<server, disk, os, applied, pc, fatal, next, cache, queue, lastConsumed,
                      faults>>
      BY Zenon
    <3> QED BY <2>1, <3>1, <3>2, ZenonT(60) DEF TypeOK
  <2>4. FilesInv' BY Zenon DEF FilesInv, DesiredNotOlder
  <2>5. Coherent'
    <3>1. Known' \subseteq Known
      BY <2>1, SMTT(60) DEF Known, Polled
    <3> QED BY <3>1, CoherentStep, Zenon
  <2>6. QueueInv' BY Zenon DEF QueueInv, ItemSound, IsFailed
  <2>7. FailedNotApplied' BY Zenon DEF FailedNotApplied, IsUpgrading, IsFailed
  <2> QED BY <2>3, <2>4, <2>5, <2>6, <2>7, ZenonT(60)
<1>3. CASE BootSucceeds
  <2>0. /\ UNCHANGED <<server, disk, applied, pc, memory, faults>>
        /\ os' \in [booted : Images, staged : Images, previous : Images, ok : BOOLEAN]
    BY <1>3, Zenon DEF BootSucceeds, TypeOK
  <2> USE <2>0 DEF memory
  <2>1. TypeOK' BY SMTT(60) DEF TypeOK
  <2>2. FilesInv' BY Zenon DEF FilesInv, DesiredNotOlder
  <2>3. Coherent'
    <3>1. Known' = Known BY ZenonT(60) DEF Known, Polled
    <3> QED BY <3>1, CoherentStep, Zenon
  <2>4. QueueInv' BY Zenon DEF QueueInv, ItemSound, IsFailed
  <2>5. FailedNotApplied' BY Zenon DEF FailedNotApplied, IsUpgrading, IsFailed
  <2> QED BY <2>1, <2>2, <2>3, <2>4, <2>5, Zenon
<1>4. ASSUME NEW v \in Versions, BackoffElapses(v) PROVE AgentInv'
  <2>0. UNCHANGED <<server, disk, os, applied, pc, fatal, next, cache, lastConsumed,
                    publisher, faults>>
    BY <1>4, Zenon DEF BackoffElapses
  <2> USE <2>0
  <2>1. queue' \in Queues /\ queue'.item = queue.item /\ queue'.versions = queue.versions
        /\ queue'.contents = queue.contents
    <3>1. queue \in Queues BY Zenon DEF TypeOK, Queues
    <3>2. [queue.requeue EXCEPT ![v].delay = "elapsed"] \in [Versions -> Requeue]
      BY <3>1, ZenonT(60) DEF Queues, Requeue
    <3> QED BY <1>4, <3>1, <3>2, Zenon DEF Queues, BackoffElapses
  <2>2. TypeOK' BY <2>1 DEF TypeOK, Queues
  <2>3. FilesInv' BY Zenon DEF FilesInv, DesiredNotOlder
  <2>4. Coherent'
    <3>1. Known' = Known BY <2>1, Zenon DEF Known, Polled
    <3> QED BY <3>1, CoherentStep, Zenon
  <2>5. QueueInv'
    <3>1. queue # EmptyQueue
      BY <1>4 DEF EmptyQueue, FreshRequeue, BackoffElapses
    <3> QED BY <2>1, <3>1, Zenon DEF QueueInv, ItemSound, IsFailed
  <2>6. FailedNotApplied' BY <2>1, Zenon DEF FailedNotApplied, IsUpgrading, IsFailed
  <2> QED BY <2>2, <2>3, <2>4, <2>5, <2>6, Zenon
<1> QED BY <1>1, <1>2, <1>3, <1>4, Zenon

-----------------------------------------------------------------------------
(* The start of the process.                                                *)

LEMMA StartStep == AgentInv /\ Start => AgentInv'
<1> SUFFICES ASSUME AgentInv, Start PROVE AgentInv'
  BY Zenon
<1> USE DEF AgentInv
<1>0. /\ pc = "off" /\ pc' \in {"load", "resetCurrent"}
      /\ pc' = "load" => disk.current # Missing /\ disk.desired # Missing
      /\ UNCHANGED <<server, disk, os, applied, fatal, next, cache, queue, lastConsumed, faults>>
  BY Zenon DEF Start, MissingFiles
<1>1. publisher' \in [known : Versions, buffer : Seq(Device)] /\ publisher'.buffer = publisher.buffer
  <2>1. MissingFiles = {} /\ disk.desired # Truncated => disk.desired.version \in Versions
    BY DeviceFacts, Zenon DEF MissingFiles, TypeOK
  <2>2. 0 \in Versions
    BY ConstantsAssumption, SMTT(60) DEF Versions
  <2> QED BY <2>1, <2>2, Zenon DEF Start, TypeOK
<1>2. TypeOK' BY <1>0, <1>1 DEF TypeOK, Booting
<1>3. FilesInv' BY <1>0, Zenon DEF FilesInv, DesiredNotOlder, Dormant
<1>4. Coherent'
  <2>1. Known' = Known BY <1>0, <1>1, Zenon DEF Known, Polled
  <2> QED BY <1>0, <2>1, CoherentStep, Zenon
<1>5. QueueInv' BY <1>0, Zenon DEF QueueInv, ItemSound, IsFailed, Dormant, Syncing
<1>6. FailedNotApplied' BY <1>0, Zenon DEF FailedNotApplied, Syncing
<1> QED BY <1>2, <1>3, <1>4, <1>5, <1>6, Zenon

LEMMA ResetSteps == AgentInv /\ EnsureResets => AgentInv'
<1> SUFFICES ASSUME AgentInv, EnsureResets PROVE AgentInv'
  OBVIOUS
<1> USE DEF AgentInv
<1>0. /\ pc \in Dormant /\ pc' \in {"resetDesired", "resetRollback", "load"}
      /\ UNCHANGED <<server, os, applied, fatal, next, cache, queue, lastConsumed, publisher,
                     faults>>
  BY Zenon DEF EnsureResets, ResetFile, Dormant, memory
<1>1. \/ pc = "resetCurrent" /\ pc' = "resetDesired" /\ disk' = [disk EXCEPT !.current = Zero]
      \/ pc = "resetDesired" /\ pc' = "resetRollback" /\ disk' = [disk EXCEPT !.desired = Zero]
      \/ pc = "resetRollback" /\ pc' = "load" /\ disk' = [disk EXCEPT !.rollback = Cleared]
  BY Zenon DEF EnsureResets, ResetFile
<1>2. TypeOK'
  <2>1. Cleared \in RollbackFile
    BY ConstantsAssumption DEF Cleared, RollbackFile, Versions
  <2>2. disk' \in [current : Device \union {Missing},
                   desired : Device \union {Missing, Truncated}, rollback : RollbackFile]
    BY <1>1, <2>1, DeviceFacts, ZenonT(60) DEF TypeOK
  <2> QED BY <1>0, <2>2 DEF TypeOK, Booting
<1>3. /\ disk'.current \in {disk.current, Zero} /\ disk'.desired \in {disk.desired, Zero}
      /\ pc' \in {"resetDesired", "resetRollback", "load"} => disk'.current = Zero
      /\ pc' \in {"resetRollback", "load"} => disk'.desired = Zero
  BY <1>1 DEF TypeOK, FilesInv
<1>4. FilesInv'
  <2>1. DesiredNotOlder'
    <3>1. disk'.current = Zero
      BY <1>0, <1>3, Zenon
    <3>2. disk'.desired \notin {Missing, Truncated} => disk'.desired \in Device
      BY <1>2, Zenon DEF TypeOK
    <3> QED BY <3>1, <3>2, DeviceFacts DEF DesiredNotOlder
  <2> QED BY <1>0, <1>3, <2>1, DeviceFacts, Zenon DEF FilesInv, Dormant, Missing
<1>5. Coherent'
  <2>1. Known' \subseteq Known \union {Zero} BY <1>0, <1>3, Zenon DEF Known, Polled
  <2> QED BY <1>0, <2>1, CoherentStep, Zenon
<1>6. QueueInv' BY <1>0, Zenon DEF QueueInv, ItemSound, IsFailed, Dormant, Syncing
<1>7. FailedNotApplied' BY <1>0, Zenon DEF FailedNotApplied, Syncing
<1> QED BY <1>2, <1>4, <1>5, <1>6, <1>7

LEMMA LoadStep ==
  ASSUME AgentInv, NEW ready \in PolicyOutcomes, Load(ready)
  PROVE  AgentInv'
<1> USE DEF AgentInv
<1>0. /\ pc = "load" /\ pc' = "bootOS" /\ disk.desired # Truncated
      /\ cache' = [current |-> disk.current, desired |-> disk.desired]
      /\ queue' = Add(queue, disk.desired, ready, disk.current)
      /\ UNCHANGED <<server, disk, os, applied, fatal, next, lastConsumed, publisher, faults>>
  BY Zenon DEF Load
<1>1. disk.current \in Device /\ disk.desired \in Device /\ ready \in Answers
      /\ queue = EmptyQueue
  BY <1>0, ConstantsAssumption, Zenon DEF FilesInv, TypeOK, QueueInv, Dormant, Answers, Missing
<1>2. /\ queue' \in Queues /\ queue'.versions = {} /\ queue'.contents = {}
      /\ queue'.item \in {NoDevice, disk.desired}
  <2>1. /\ Add(EmptyQueue, disk.desired, ready, disk.current) \in Queues
        /\ Add(EmptyQueue, disk.desired, ready, disk.current).versions = {}
        /\ Add(EmptyQueue, disk.desired, ready, disk.current).contents = {}
        /\ Add(EmptyQueue, disk.desired, ready, disk.current).item \in {NoDevice, disk.desired}
    <3> DEFINE e == EmptyQueue
               a == disk.desired
               b == disk.current
    <3>1. e \in Queues /\ a \in Device /\ b \in Device /\ e.item = NoDevice
          /\ e.versions = {} /\ e.contents = {} /\ ready \in Answers
      BY <1>1, EmptyQueueFacts, Zenon
    <3> HIDE DEF e, a, b
    <3>2. /\ Add(e, a, ready, b) \in Queues /\ Add(e, a, ready, b).versions = {}
          /\ Add(e, a, ready, b).contents = {} /\ Add(e, a, ready, b).item \in {NoDevice, a}
      BY <3>1, AddFacts
    <3> QED BY <3>2, Zenon DEF e, a, b
  <2>2. queue' = Add(EmptyQueue, disk.desired, ready, disk.current)
    BY <1>0, <1>1, Zenon
  <2> QED BY <2>1, <2>2, Zenon
<1>u. /\ pc = "load" /\ pc' = "bootOS" /\ disk.desired # Truncated
      /\ cache'.current = disk.current /\ cache'.desired = disk.desired
      /\ cache' \in [current : Device, desired : Device]
      /\ UNCHANGED <<server, disk, os, applied, fatal, next, lastConsumed, publisher, faults>>
  BY <1>0, <1>1, Zenon
<1>3. TypeOK'
  BY <1>u, <1>2, ZenonT(60) DEF TypeOK, Queues, Booting
<1>4. FilesInv'
  BY <1>u, <1>1, DeviceFacts, Zenon DEF FilesInv, DesiredNotOlder, Dormant, Missing
<1>5. Coherent'
  <2>1. Known' \subseteq Known \union {NoDevice} BY <1>u, <1>2, Zenon DEF Known, Polled
  <2> QED BY <1>u, <2>1, CoherentStep, Zenon
<1>6. QueueInv'
  BY <1>u, <1>2, Zenon DEF QueueInv, ItemSound, IsFailed, Dormant, Syncing
<1>7. FailedNotApplied' BY <1>u, Zenon DEF FailedNotApplied, Syncing
<1> QED BY <1>3, <1>4, <1>5, <1>6, <1>7, Zenon

LEMMA BootOSStep == AgentInv /\ BootOS => AgentInv'
<1> SUFFICES ASSUME AgentInv, BootOS PROVE AgentInv'
  OBVIOUS
<1> USE DEF AgentInv
<1>0. /\ pc = "bootOS" /\ pc' \in {"truncate", "idle"} /\ next' \in {"boot", next}
      /\ \/ queue' = SetFailed(queue, cache.desired.version, cache.desired.content)
         \/ /\ RolledBackBefore
            /\ queue' = SetFailed(queue, disk.rollback.version, disk.rollback.content)
         \/ queue' = queue
      /\ UNCHANGED <<server, disk, os, applied, fatal, cache, lastConsumed, publisher, faults>>
  BY Zenon DEF BootOS, MarkDesiredFailed
<1>1. /\ queue \in Queues /\ cache.desired \in Device /\ cache.current \in Device
      /\ queue.item \in {NoDevice, cache.desired} /\ disk.rollback \in RollbackFile
  BY <1>0, Zenon DEF TypeOK, Queues, QueueInv
<1>2. queue' \in Queues /\ queue'.item \in {NoDevice, queue.item}
      /\ ItemSound(queue', cache.current)
  <2>1. CASE queue' = SetFailed(queue, cache.desired.version, cache.desired.content)
    <3>1. cache.desired.version \in Versions /\ cache.desired.content \in Contents \union {Empty}
      BY <1>1, DeviceFacts, Zenon
    <3>2. queue' \in Queues /\ queue'.item = NoDevice
      BY <1>1, <2>1, <3>1, SetFailedFacts, SMTT(60)
    <3> QED BY <3>2, Zenon DEF ItemSound
  <2>2. CASE RolledBackBefore
             /\ queue' = SetFailed(queue, disk.rollback.version, disk.rollback.content)
    <3>1. disk.rollback.version \in Versions /\ disk.rollback.content \in Contents \union {Empty}
      <4>1. disk.rollback.version \in Versions \union {-1} /\ disk.rollback.version > 0
        BY <1>1, <2>2, Zenon DEF RollbackFile, RolledBackBefore
      <4> QED BY <1>1, <4>1 DEF RollbackFile
    <3>2. queue' \in Queues /\ queue'.item \in {NoDevice, queue.item}
      BY <1>1, <2>2, <3>1, SetFailedFacts, Zenon
    <3>3. cache.current.version = cache.desired.version
      BY <2>2, Zenon DEF RolledBackBefore, IsUpgrading
    <3>4. queue'.item # NoDevice => queue'.item.version = cache.current.version
      BY <1>1, <3>2, <3>3, Zenon
    <3> QED BY <3>2, <3>4, Zenon DEF ItemSound
  <2>3. CASE queue' = queue
    BY <1>1, <2>3, Zenon DEF QueueInv
  <2> QED BY <1>0, <2>1, <2>2, <2>3, Zenon
<1>u. /\ pc = "bootOS" /\ pc' \in {"truncate", "idle"} /\ next' \in {"boot", next}
      /\ UNCHANGED <<server, disk, os, applied, fatal, cache, lastConsumed, publisher, faults>>
  BY <1>0, ZenonT(60)
<1>3. TypeOK' BY <1>u, <1>2, SMTT(60) DEF TypeOK, Queues, RollingBack
<1>4. FilesInv'
  <2>1. /\ UNCHANGED <<disk, cache>> /\ pc \notin Dormant \union {"copy"}
        /\ pc' \notin Dormant \union {"copy"} /\ pc' # "done"
    BY <1>u, Zenon DEF Dormant
  <2> QED BY <2>1, FilesKept, Zenon
<1>5. Coherent'
  <2>1. Known' \subseteq Known \union {NoDevice} BY <1>u, <1>2, Zenon DEF Known, Polled
  <2> QED BY <1>u, <2>1, CoherentStep, ZenonT(60)
<1>6. QueueInv' BY <1>u, <1>2, Zenon DEF QueueInv, Dormant, Syncing
<1>7. FailedNotApplied' BY <1>u, Zenon DEF FailedNotApplied, Syncing
<1> QED BY <1>3, <1>4, <1>5, <1>6, <1>7

-----------------------------------------------------------------------------
(* One round of syncDeviceSpec.                                             *)

LEMMA OneElement ==
  ASSUME NEW S, NEW x \in S
  PROVE  <<x>> \in Seq(S) /\ Len(<<x>>) = 1 /\ \A i \in 1 .. Len(<<x>>) : <<x>>[i] = x
OBVIOUS

\* consumeLatest queues devices the agent knows of and remembers the last of them; reading
\* the desired file changes nothing in the cache.
LEMMA ConsumedDevices ==
  ASSUME AgentInv, NEW ready \in PolicyOutcomes, Consume(ready)
  PROVE  /\ \E s \in Seq(Device) : /\ queue' = AddAll(queue, s, ready, cache.current)
                                  /\ \A i \in 1 .. Len(s) : s[i] \in Known
         /\ lastConsumed' \in Device \union {NoDevice} /\ lastConsumed' \in Known
         /\ cache' = cache
<1> USE DEF AgentInv
<1> DEFINE s == IF publisher.buffer # <<>> THEN publisher.buffer
                ELSE IF ConsumeAgain THEN <<lastConsumed>> ELSE <<disk.desired>>
           last == IF publisher.buffer # <<>> THEN publisher.buffer[Len(publisher.buffer)]
                   ELSE IF lastConsumed = NoDevice THEN disk.desired ELSE lastConsumed
<1>0. /\ pc = "idle" /\ pc' = "next" /\ (ReadsDesired => disk.desired # Missing)
      /\ queue' = AddAll(queue, s, ready, cache.current) /\ lastConsumed' = last
      /\ publisher' = [publisher EXCEPT !.buffer = <<>>]
      /\ cache' = IF ReadsDesired THEN [cache EXCEPT !.desired = disk.desired] ELSE cache
      /\ UNCHANGED <<server, disk, os, applied, fatal, next, faults>>
  BY Zenon DEF Consume, DesiredMissing
<1>1. /\ queue \in Queues /\ ready \in Answers /\ cache.current \in Device
      /\ publisher.buffer \in Seq(Device) /\ lastConsumed \in Device \union {NoDevice}
  BY ConstantsAssumption, Zenon DEF TypeOK, Queues, Answers
<1>2. ReadsDesired => disk.desired = cache.desired /\ disk.desired \in Device
  BY <1>0, Zenon DEF FilesInv, Dormant, TypeOK
<1>3. cache' = cache
  BY <1>0, <1>2, Zenon DEF TypeOK
<1>4. s \in Seq(Device) /\ \A i \in 1 .. Len(s) : s[i] \in Known
  <2>1. CASE publisher.buffer # <<>>
    BY <1>1, <2>1, Zenon DEF Known, Polled
  <2>2. CASE publisher.buffer = <<>> /\ ConsumeAgain
    <3>1. s = <<lastConsumed>> /\ lastConsumed \in Device /\ lastConsumed \in Known
      BY <1>1, <2>2, Zenon DEF ConsumeAgain, Known
    <3> HIDE DEF s
    <3> QED BY <3>1, OneElement, Zenon
  <2>3. CASE publisher.buffer = <<>> /\ ~ConsumeAgain
    <3>1. s = <<disk.desired>> /\ disk.desired \in Device /\ disk.desired \in Known
      BY <1>2, <2>3, Zenon DEF ReadsDesired, Known
    <3> HIDE DEF s
    <3> QED BY <3>1, OneElement, Zenon
  <2> QED BY <2>1, <2>2, <2>3, Zenon
<1>5. last \in Device \union {NoDevice} /\ last \in Known
  <2>1. CASE publisher.buffer # <<>>
    <3>1. Len(publisher.buffer) \in 1 .. Len(publisher.buffer)
      BY <1>1, <2>1
    <3> QED BY <1>1, <2>1, <3>1 DEF Known, Polled
  <2>2. CASE publisher.buffer = <<>> /\ lastConsumed = NoDevice
    <3>1. ReadsDesired
      BY <2>2, Zenon DEF ReadsDesired, ConsumeAgain
    <3> QED BY <1>2, <2>2, <3>1, Zenon DEF Known
  <2>3. CASE publisher.buffer = <<>> /\ lastConsumed # NoDevice
    BY <1>1, <2>3, Zenon DEF Known
  <2> QED BY <2>1, <2>2, <2>3, Zenon
<1> HIDE DEF s, last
<1> QED BY <1>0, <1>3, <1>4, <1>5, Zenon

LEMMA ConsumeStep ==
  ASSUME AgentInv, NEW ready \in PolicyOutcomes, Consume(ready)
  PROVE  AgentInv'
<1> USE DEF AgentInv
<1>0. /\ pc = "idle" /\ pc' = "next" /\ publisher' = [publisher EXCEPT !.buffer = <<>>]
      /\ UNCHANGED <<server, disk, os, applied, fatal, next, faults>>
  BY Zenon DEF Consume
<1>1. queue \in Queues /\ ready \in Answers /\ cache.current \in Device
  BY ConstantsAssumption, Zenon DEF TypeOK, Queues, Answers
<1>3. cache' = cache
  BY ConsumedDevices, Zenon
<1>4. PICK s \in Seq(Device) : /\ queue' = AddAll(queue, s, ready, cache.current)
                               /\ \A i \in 1 .. Len(s) : s[i] \in Known
  BY ConsumedDevices, Zenon
<1>5. lastConsumed' \in Device \union {NoDevice} /\ lastConsumed' \in Known
  BY ConsumedDevices, Zenon
<1>6. /\ queue' \in Queues /\ queue'.versions = queue.versions
      /\ queue'.contents = queue.contents
      /\ \/ queue'.item = queue.item
         \/ queue'.item \in Known /\ ~IsFailed(queue, queue'.item)
  <2>1. /\ queue' \in Queues /\ queue'.versions = queue.versions
        /\ queue'.contents = queue.contents
        /\ \/ queue'.item = queue.item
           \/ \E i \in 1 .. Len(s) : queue'.item = s[i] /\ ~IsFailed(queue, s[i])
    BY <1>1, <1>4, AddAllFacts, Zenon
  <2> QED BY <1>4, <2>1, Zenon
<1>u. /\ pc = "idle" /\ pc' = "next"
      /\ publisher' \in [known : Versions, buffer : Seq(Device)] /\ publisher'.buffer = <<>>
      /\ UNCHANGED <<server, disk, os, applied, fatal, next, faults, cache>>
  <2>1. <<>> \in Seq(Device)
    BY NoEntries, Zenon
  <2>2. publisher \in [known : Versions, buffer : Seq(Device)]
    BY Zenon DEF TypeOK
  <2>3. publisher' \in [known : Versions, buffer : Seq(Device)] /\ publisher'.buffer = <<>>
    BY <1>0, <2>1, <2>2, Zenon
  <2> QED BY <1>0, <1>3, <2>3, Zenon
<1>7. TypeOK'
  <2>1. Len(publisher'.buffer) <= 3
    BY <1>u, SMTT(60)
  <2> QED BY <1>u, <1>5, <1>6, <2>1, Zenon DEF TypeOK, Queues
<1>8. FilesInv'
  <2>1. /\ UNCHANGED <<disk, cache>> /\ pc \notin Dormant \union {"copy"}
        /\ pc' \notin Dormant \union {"copy"} /\ pc' # "done"
    BY <1>u, Zenon DEF Dormant
  <2> QED BY <2>1, FilesKept, Zenon
<1>9. Coherent'
  <2>0. Polled' = {}
    BY <1>u, SMTT(60) DEF Polled
  <2>1. Known' \subseteq Known
    BY <1>u, <1>5, <1>6, <2>0, Zenon DEF Known
  <2> QED BY <1>u, <2>1, CoherentStep, ZenonT(60)
<1>10. QueueInv' BY <1>u, <1>6, Zenon DEF QueueInv, ItemSound, IsFailed, Dormant, Syncing
<1>11. FailedNotApplied' BY <1>u, Zenon DEF FailedNotApplied, Syncing
<1> QED BY <1>7, <1>8, <1>9, <1>10, <1>11, Zenon

\* queueManager.Next takes the item off the queue and notes that its version was tried.
Taken(q, v) == [q EXCEPT !.item = NoDevice, !.requeue[v].tried = TRUE,
                         !.requeue[v].delay = "none"]

LEMMA TakenFacts ==
  ASSUME NEW p \in Queues, p.item # NoDevice, NEW ready \in Answers
  PROVE  /\ p.item \in Device /\ p.item.version \in Versions
         /\ Refresh(p, p.item.version, ready) \in Queues
         /\ Refresh(p, p.item.version, ready).versions = p.versions
         /\ Refresh(p, p.item.version, ready).contents = p.contents
         /\ Refresh(p, p.item.version, ready).item = p.item
         /\ Taken(Refresh(p, p.item.version, ready), p.item.version) \in Queues
         /\ Taken(Refresh(p, p.item.version, ready), p.item.version).versions = p.versions
         /\ Taken(Refresh(p, p.item.version, ready), p.item.version).contents = p.contents
         /\ Taken(Refresh(p, p.item.version, ready), p.item.version).item = NoDevice
<1> DEFINE d == p.item
           q == Refresh(p, d.version, ready)
<1>1. d \in Device /\ d.version \in Versions
  BY DeviceFacts, Zenon DEF Queues
<1>2. q \in Queues /\ q.versions = p.versions /\ q.contents = p.contents /\ q.item = d
  BY <1>1, RefreshFacts, Zenon
<1> SUFFICES /\ Taken(q, d.version) \in Queues
             /\ Taken(q, d.version).versions = p.versions
             /\ Taken(q, d.version).contents = p.contents
             /\ Taken(q, d.version).item = NoDevice
  BY <1>1, <1>2, Zenon
<1> HIDE DEF q, d
<1>3. [q.requeue EXCEPT ![d.version].tried = TRUE, ![d.version].delay = "none"]
        \in [Versions -> Requeue]
  <2> DEFINE f == q.requeue
             g == [f EXCEPT ![d.version].tried = TRUE]
  <2>1. f \in [Versions -> Requeue] BY <1>2, Zenon DEF Queues
  <2> HIDE DEF f
  <2>2. g \in [Versions -> Requeue] BY <1>1, <2>1, ZenonT(60) DEF Requeue
  <2> HIDE DEF g
  <2>3. [g EXCEPT ![d.version].delay = "none"] \in [Versions -> Requeue]
    BY <1>1, <2>2, Zenon DEF Requeue
  <2> QED BY <2>3, Zenon DEF f, g
<1> QED BY <1>2, <1>3, Zenon DEF Queues, Taken

LEMMA TakeNextStep ==
  ASSUME AgentInv, NEW ready \in PolicyOutcomes, TakeNext(ready)
  PROVE  AgentInv'
<1> USE DEF AgentInv
<1> DEFINE d == queue.item
           q == Refresh(queue, d.version, ready)
           taken == Taken(q, d.version)
<1>0. /\ pc = "next" /\ queue \in Queues /\ ready \in Answers /\ cache.desired \in Device
      /\ cache.current \in Device
      /\ UNCHANGED <<server, os, applied, fatal, next, lastConsumed, publisher, faults>>
  BY ConstantsAssumption, Zenon DEF TakeNext, TypeOK, Queues, Answers
<1>1. CASE pc' = "idle" /\ UNCHANGED <<queue, disk, cache>>
  <2>1. TypeOK' BY <1>0, <1>1, ZenonT(60) DEF TypeOK
  <2> QED BY <1>0, <1>1, <2>1, QuietStep, ZenonT(60) DEF Dormant, Syncing
<1>2. ASSUME d # NoDevice
      PROVE  /\ d \in Device /\ d.version \in Versions
             /\ q \in Queues /\ q.versions = queue.versions /\ q.contents = queue.contents
             /\ q.item = d
             /\ taken \in Queues /\ taken.versions = queue.versions
             /\ taken.contents = queue.contents /\ taken.item = NoDevice
  BY <1>0, <1>2, TakenFacts, ZenonT(60)
<1>3. CASE d # NoDevice /\ queue' = q /\ pc' = "idle" /\ UNCHANGED <<disk, cache>>
  <2>1. /\ queue' \in Queues /\ queue'.versions = queue.versions
        /\ queue'.contents = queue.contents /\ queue'.item = queue.item
    BY <1>2, <1>3, Zenon
  <2>2. TypeOK' BY <1>0, <1>3, <2>1, ZenonT(60) DEF TypeOK, Queues
  <2>3. FilesInv' BY <1>0, <1>3, Zenon DEF FilesInv, DesiredNotOlder, Dormant
  <2>4. Coherent'
    <3>1. Known' = Known BY <1>0, <1>3, <2>1, ZenonT(60) DEF Known, Polled
    <3> QED BY <1>0, <3>1, CoherentStep, Zenon
  <2>5. QueueInv' BY <1>3, <2>1, Zenon DEF QueueInv, ItemSound, IsFailed, Dormant, Syncing
  <2>6. FailedNotApplied' BY <1>3, ZenonT(60) DEF FailedNotApplied, Syncing
  <2> QED BY <2>2, <2>3, <2>4, <2>5, <2>6
<1>4. CASE /\ d # NoDevice /\ queue' = taken
           /\ pc' = IF d.version < cache.desired.version THEN "idle" ELSE "prepare"
           /\ IF d.version > cache.desired.version
              THEN disk' = [disk EXCEPT !.desired = d] /\ cache' = [cache EXCEPT !.desired = d]
              ELSE UNCHANGED <<disk, cache>>
  <2>1. /\ queue' \in Queues /\ queue'.versions = queue.versions
        /\ queue'.contents = queue.contents /\ queue'.item = NoDevice /\ d \in Device
        /\ d # NoDevice
    BY <1>2, <1>4, Zenon
  <2>2. /\ pc' \in {"idle", "prepare"} /\ cache'.current = cache.current
        /\ disk'.current = disk.current
        /\ disk' \in [current : Device \union {Missing},
                       desired : Device \union {Missing, Truncated}, rollback : RollbackFile]
        /\ cache' \in [current : Device, desired : Device]
    BY <1>4, <2>1, ZenonT(60) DEF TypeOK
  <2>3. \/ disk' = disk /\ cache' = cache
        \/ disk'.desired = d /\ cache'.desired = d /\ d.version > cache.desired.version
    BY <1>4, Zenon DEF TypeOK
  <2>4. pc' = "prepare" => cache'.desired = d
    <3>1. d \in Known /\ cache.desired \in Known
      BY Zenon DEF Known
    <3>2. CASE d.version = cache.desired.version
      <4>1. d = cache.desired BY <3>1, <3>2, Zenon DEF Coherent
      <4>2. ~(d.version > cache.desired.version)
        BY <1>0, <2>1, <3>2, DeviceFacts
      <4> QED BY <1>4, <4>1, <4>2, Zenon
    <3>3. CASE d.version > cache.desired.version BY <1>4, <3>3, Zenon DEF TypeOK
    <3>4. CASE d.version < cache.desired.version BY <1>4, <3>4, ZenonT(60)
    <3>5. d.version \in Nat /\ cache.desired.version \in Nat
      BY <1>0, <2>1, DeviceFacts, Zenon
    <3>6. \/ d.version = cache.desired.version \/ d.version > cache.desired.version
          \/ d.version < cache.desired.version
      BY <3>5
    <3> QED BY <3>2, <3>3, <3>4, <3>6, Zenon
  <2> HIDE DEF d
  <2>5. TypeOK' BY <1>0, <2>1, <2>2, Zenon DEF TypeOK, Queues, Syncing
  <2>6. FilesInv'
    <3>1. CASE disk' = disk /\ cache' = cache
      BY <1>0, <2>2, <3>1, ZenonT(60) DEF FilesInv, DesiredNotOlder, Dormant
    <3>2. CASE disk'.desired = d /\ cache'.desired = d /\ d.version > cache.desired.version
      <4>1. cache'.desired.version >= cache'.current.version
        <5>1. cache.desired.version >= cache.current.version
          BY <1>0, Zenon DEF FilesInv, Dormant
        <5>2. /\ d.version \in Int /\ cache.desired.version \in Int
              /\ cache.current.version \in Int
          BY <1>0, <2>1, DeviceFacts, Zenon
        <5> QED BY <2>2, <3>2, <5>1, <5>2, SMTT(60)
      <4>2. disk'.current \in {cache'.current, Missing}
        BY <1>0, <2>2, Zenon DEF FilesInv, Dormant
      <4>3. DesiredNotOlder'
        BY <3>2, <4>1, <4>2, Zenon DEF DesiredNotOlder
      <4> QED BY <2>1, <2>2, <3>2, <4>1, <4>2, <4>3, DeviceFacts, ZenonT(60) DEF FilesInv, Dormant
    <3> QED BY <2>3, <3>1, <3>2, Zenon
  <2>7. Coherent'
    <3>1. Known' \subseteq Known \union {NoDevice}
      BY <1>0, <2>1, <2>2, <2>3, ZenonT(60) DEF Known, Polled, d
    <3> QED BY <1>0, <3>1, CoherentStep, Zenon
  <2>8. QueueInv' BY <2>1, <2>2, Zenon DEF QueueInv, ItemSound, Dormant, Syncing
  <2>9. FailedNotApplied'
    <3> SUFFICES ASSUME pc' \in Syncing, cache'.current.version # cache'.desired.version
                 PROVE  ~IsFailed(queue', cache'.desired)
      BY Zenon DEF FailedNotApplied, IsUpgrading
    <3>1. cache'.desired = d
      BY <2>2, <2>4, ZenonT(60) DEF Syncing
    <3>2. ~IsFailed(queue, d)
      BY <2>1, <2>2, <3>1, Zenon DEF QueueInv, ItemSound, d
    <3> QED BY <2>1, <3>1, <3>2, Zenon DEF IsFailed
  <2> QED BY <2>5, <2>6, <2>7, <2>8, <2>9
<1> QED BY <1>1, <1>3, <1>4, Zenon DEF TakeNext, Taken

\* The error path: nothing in the steady state, a rollback in an update.
LEMMA FailStep ==
  ASSUME AgentInv, pc \in Syncing, NEW isFatal \in BOOLEAN, Fail(isFatal),
         UNCHANGED <<server, disk, os, next, cache, lastConsumed, publisher>>,
         applied' \in Contents \union {Empty, "mixed"}, faults' \in [FaultKinds -> Nat]
  PROVE  AgentInv'
<1> USE DEF AgentInv
<1>0. queue \in Queues /\ queue.item = NoDevice /\ cache.desired \in Device
  BY Zenon DEF TypeOK, Queues, QueueInv
<1>1. CASE ~IsUpgrading
  <2>1. pc' = "idle" /\ UNCHANGED <<queue, fatal>>
    BY <1>1, ZenonT(60) DEF Fail
  <2>2. TypeOK' BY <2>1, ZenonT(60) DEF TypeOK
  <2> QED BY <2>1, <2>2, QuietStep, Zenon DEF Dormant, Syncing
<1>2. CASE IsUpgrading
  <2>1. /\ pc' = "failing" /\ fatal' \in BOOLEAN
        /\ queue' \in {queue, SetFailed(queue, cache.desired.version, cache.desired.content)}
    BY <1>2, ZenonT(60) DEF Fail, MarkDesiredFailed
  <2>2. queue' \in Queues /\ queue'.item = NoDevice
    <3>1. cache.desired.version \in Versions /\ cache.desired.content \in Contents \union {Empty}
      BY <1>0, DeviceFacts, Zenon
    <3> QED BY <1>0, <2>1, <3>1, SetFailedFacts, SMTT(60)
  <2>3. TypeOK' BY <2>1, <2>2, ZenonT(60) DEF TypeOK, Queues, RollingBack
  <2>4. FilesInv' BY <2>1, Zenon DEF FilesInv, DesiredNotOlder, Dormant, Syncing
  <2>5. Coherent'
    <3>1. Known' \subseteq Known \union {NoDevice} BY <2>2, ZenonT(60) DEF Known, Polled
    <3> QED BY <3>1, CoherentStep, ZenonT(60)
  <2>6. QueueInv' BY <2>1, <2>2, Zenon DEF QueueInv, ItemSound, Dormant, Syncing
  <2>7. FailedNotApplied' BY <2>1, Zenon DEF FailedNotApplied, Syncing
  <2> QED BY <2>3, <2>4, <2>5, <2>6, <2>7, Zenon
<1> QED BY <1>1, <1>2, Zenon

\* A fault is counted.
LEMMA FaultCounted ==
  ASSUME TypeOK, NEW kind \in FaultKinds, Fault(kind)
  PROVE  faults' \in [FaultKinds -> Nat]
BY DEF Fault, TypeOK

LEMMA PhaseSteps ==
  ASSUME AgentInv,
         \/ \E kind \in {"retry", "fatal"} : PhaseFails(kind)
         \/ DesiredUnreadable \/ BeforeUpdate \/ PrefetchNotReady \/ SyncDevice
  PROVE  AgentInv'
<1> USE DEF AgentInv
<1>1. ASSUME NEW kind \in {"retry", "fatal"}, PhaseFails(kind) PROVE AgentInv'
  <2>1. kind \in FaultKinds /\ (kind = "fatal") \in BOOLEAN
    BY Zenon DEF FaultKinds
  <2>2. faults' \in [FaultKinds -> Nat]
    BY <1>1, <2>1, FaultCounted, Zenon DEF PhaseFails
  <2>3. pc \in Syncing /\ applied' \in Contents \union {Empty, "mixed"}
    BY <1>1, Zenon DEF PhaseFails, Syncing, TypeOK
  <2> QED BY <1>1, <2>1, <2>2, <2>3, FailStep, Zenon DEF PhaseFails
<1>2. CASE DesiredUnreadable
  <2>1. pc \in Syncing /\ applied' \in Contents \union {Empty, "mixed"}
        /\ faults' \in [FaultKinds -> Nat]
    BY <1>2, Zenon DEF DesiredUnreadable, Syncing, TypeOK
  <2> QED BY <1>2, <2>1, FailStep, Zenon DEF DesiredUnreadable
<1>3. CASE BeforeUpdate
  <2>1. pc \in Syncing /\ applied' \in Contents \union {Empty, "mixed"}
        /\ faults' \in [FaultKinds -> Nat]
    BY <1>3, Zenon DEF BeforeUpdate, Syncing, TypeOK
  <2>2. CASE Fail(FALSE)
    BY <1>3, <2>1, <2>2, FailStep, Zenon DEF BeforeUpdate
  <2>3. CASE pc' = "apply" /\ UNCHANGED <<queue, fatal>>
    <3>1. TypeOK' BY <1>3, <2>3, ZenonT(60) DEF BeforeUpdate, TypeOK, Syncing
    <3> QED BY <1>3, <2>1, <2>3, <3>1, QuietStep, Zenon DEF BeforeUpdate, Dormant, Syncing
  <2> QED BY <1>3, <2>2, <2>3, Zenon DEF BeforeUpdate
<1>4. CASE PrefetchNotReady
  <2>1. faults' \in [FaultKinds -> Nat]
    BY <1>4, FaultCounted, Zenon DEF PrefetchNotReady, FaultKinds
  <2>2. /\ pc = "prepare" /\ pc' \in {"truncate", "idle"} /\ next' = "idle"
        /\ UNCHANGED <<server, disk, os, applied, fatal, cache, queue, lastConsumed, publisher>>
    BY <1>4, ZenonT(60) DEF PrefetchNotReady
  <2>3. TypeOK' BY <2>1, <2>2, SMTT(60) DEF TypeOK, RollingBack
  <2> QED BY <2>2, <2>3, QuietStep, Zenon DEF Dormant, Syncing
<1>5. CASE SyncDevice
  <2>1. /\ pc = "apply" /\ pc' = "after"
        /\ UNCHANGED <<server, disk, os, fatal, next, cache, queue, lastConsumed, publisher, faults>>
    BY <1>5, Zenon DEF SyncDevice, memory
  <2>2. applied' \in Contents \union {Empty, "mixed"}
    BY <1>5, DeviceFacts, Zenon DEF SyncDevice, TypeOK
  <2>3. TypeOK' BY <2>1, <2>2, Zenon DEF TypeOK, Syncing
  <2> QED BY <2>1, <2>3, QuietStep, Zenon DEF Dormant, Syncing
<1> QED BY <1>1, <1>2, <1>3, <1>4, <1>5, Zenon

LEMMA ImageTypes ==
  \A d \in Device \union {NoDevice, Truncated} : OsImage(d) \in Images
BY DEF OsImage, Images, Device, NoDevice, Truncated

LEMMA BootTypes ==
  ASSUME TypeOK
  PROVE  /\ Boot(os) \in [booted : Images, staged : Images, previous : Images, ok : BOOLEAN]
         /\ BootPrevious(os) \in [booted : Images, staged : Images, previous : Images, ok : BOOLEAN]
<1>1. os \in [booted : Images, staged : Images, previous : Images, ok : BOOLEAN]
      /\ NoImage \in Images
  BY Zenon DEF TypeOK, Images
<1> QED BY <1>1, ZenonT(60) DEF Boot, BootPrevious

LEMMA CommitSteps ==
  ASSUME AgentInv, AfterUpdate \/ CreateRollback \/ Upgrade \/ ClearRollback
  PROVE  AgentInv'
<1> USE DEF AgentInv
<1>1. CASE AfterUpdate
  <2>1. /\ pc = "after" /\ pc' \in {"staged", "done"} /\ disk.desired # Missing
        /\ UNCHANGED <<server, disk, applied, fatal, next, cache, queue, lastConsumed, publisher,
                       faults>>
    BY <1>1, Zenon DEF AfterUpdate, memory
  <2>2. os' \in [booted : Images, staged : Images, previous : Images, ok : BOOLEAN]
    <3>1. os \in [booted : Images, staged : Images, previous : Images, ok : BOOLEAN]
          /\ OsImage(cache.desired) \in Images
      BY ImageTypes, Zenon DEF TypeOK
    <3> QED BY <1>1, <3>1, Zenon DEF AfterUpdate
  <2>3. TypeOK' BY <2>1, <2>2, ZenonT(60) DEF TypeOK, Syncing
  <2> QED BY <2>1, <2>3, QuietStep, Zenon DEF Dormant, Syncing
<1>2. CASE CreateRollback
  <2> DEFINE new == [image |-> RollbackImage, version |-> cache.desired.version,
                     content |-> cache.desired.content]
  <2>1. /\ pc = "staged" /\ pc' = "reboot" /\ disk' = [disk EXCEPT !.rollback = new]
        /\ UNCHANGED <<server, os, applied, fatal, next, cache, queue, lastConsumed, publisher,
                       faults>>
    BY <1>2, Zenon DEF CreateRollback, memory
  <2>2. new \in RollbackFile
    <3>1. OsImage(disk.current) \in Images /\ os.booted \in Images
      BY ImageTypes, Zenon DEF TypeOK, Missing
    <3>2. cache.desired.version \in Versions /\ cache.desired.content \in Contents \union {Empty}
      BY DeviceFacts, Zenon DEF TypeOK
    <3> QED BY <3>1, <3>2, Zenon DEF RollbackFile, RollbackImage, Images
  <2> HIDE DEF new
  <2>3. /\ disk'.current = disk.current /\ disk'.desired = disk.desired
        /\ disk' \in [current : Device \union {Missing},
                      desired : Device \union {Missing, Truncated}, rollback : RollbackFile]
    BY <2>1, <2>2, Zenon DEF TypeOK
  <2>4. TypeOK' BY <2>1, <2>3, Zenon DEF TypeOK, Syncing
  <2>5. FilesInv' BY <2>1, <2>3, Zenon DEF FilesInv, DesiredNotOlder, Dormant
  <2>6. Coherent'
    <3>1. Known' = Known BY <2>1, <2>3, Zenon DEF Known, Polled
    <3> QED BY <2>1, <3>1, CoherentStep, Zenon
  <2>7. QueueInv' BY <2>1, Zenon DEF QueueInv, ItemSound, IsFailed, Dormant, Syncing
  <2>8. FailedNotApplied' BY <2>1, Zenon DEF FailedNotApplied, IsUpgrading, IsFailed, Syncing
  <2> QED BY <2>4, <2>5, <2>6, <2>7, <2>8, Zenon
<1>3. CASE Upgrade
  <2>1. /\ pc = "done"
        /\ UNCHANGED <<server, os, applied, fatal, next, queue, lastConsumed, publisher, faults>>
    BY <1>3, Zenon DEF Upgrade
  <2>2. CASE pc' = "idle" /\ UNCHANGED <<disk, cache>>
    <3>1. TypeOK' BY <2>1, <2>2, ZenonT(60) DEF TypeOK
    <3> QED BY <2>1, <2>2, <3>1, QuietStep, Zenon DEF Dormant, Syncing
  <2>3. CASE /\ pc' = "clear" /\ disk' = [disk EXCEPT !.current = disk.desired]
             /\ cache' = [cache EXCEPT !.current = disk.desired]
    <3>1. disk.desired = cache.desired /\ disk.desired \in Device
      BY <2>1, Zenon DEF FilesInv, TypeOK, Dormant
    <3>2. /\ disk'.current = cache.desired /\ disk'.desired = cache.desired
          /\ cache'.current = cache.desired /\ cache'.desired = cache.desired
          /\ disk' \in [current : Device \union {Missing},
                        desired : Device \union {Missing, Truncated}, rollback : RollbackFile]
          /\ cache' \in [current : Device, desired : Device]
      BY <2>3, <3>1, Zenon DEF TypeOK
    <3>3. TypeOK' BY <2>1, <2>3, <3>2, Zenon DEF TypeOK, Syncing
    <3>4. FilesInv'
      BY <2>3, <3>1, <3>2, DeviceFacts DEF FilesInv, DesiredNotOlder, Dormant
    <3>5. Coherent'
      <4>1. Known' \subseteq Known BY <2>1, <3>2, Zenon DEF Known, Polled
      <4> QED BY <2>1, <4>1, CoherentStep, Zenon
    <3>6. QueueInv' BY <2>1, <2>3, Zenon DEF QueueInv, ItemSound, Dormant, Syncing
    <3>7. FailedNotApplied' BY <3>2, Zenon DEF FailedNotApplied, IsUpgrading
    <3> QED BY <3>3, <3>4, <3>5, <3>6, <3>7
  <2> QED BY <1>3, <2>2, <2>3, Zenon DEF Upgrade
<1>4. CASE ClearRollback
  <2>1. /\ pc = "clear" /\ pc' = "idle" /\ disk' = [disk EXCEPT !.rollback = Cleared]
        /\ UNCHANGED <<server, os, applied, fatal, next, cache, lastConsumed, publisher, faults>>
    BY <1>4, Zenon DEF ClearRollback, RollbackCleared
  <2>2. Cleared \in RollbackFile
    BY ConstantsAssumption DEF Cleared, RollbackFile, Versions
  <2>3. /\ disk'.current = disk.current /\ disk'.desired = disk.desired
        /\ disk' \in [current : Device \union {Missing},
                      desired : Device \union {Missing, Truncated}, rollback : RollbackFile]
    BY <2>1, <2>2, Zenon DEF TypeOK
  <2>4. queue' \in Queues /\ queue'.item = NoDevice
    <3>1. queue \in Queues /\ queue.item = NoDevice
      BY <2>1, Zenon DEF TypeOK, Queues, QueueInv, Syncing
    <3> QED BY <1>4, <3>1, Zenon DEF ClearRollback, Queues
  <2>5. TypeOK' BY <2>1, <2>3, <2>4, Zenon DEF TypeOK, Queues
  <2>6. FilesInv' BY <2>1, <2>3, Zenon DEF FilesInv, DesiredNotOlder, Dormant
  <2>7. Coherent'
    <3>1. Known' \subseteq Known \union {NoDevice} BY <2>1, <2>3, <2>4, Zenon DEF Known, Polled
    <3> QED BY <2>1, <3>1, CoherentStep, Zenon
  <2>8. QueueInv' BY <2>1, <2>4, Zenon DEF QueueInv, ItemSound, Dormant, Syncing
  <2>9. FailedNotApplied' BY <2>1, Zenon DEF FailedNotApplied, Syncing
  <2> QED BY <2>5, <2>6, <2>7, <2>8, <2>9
<1> QED BY <1>1, <1>2, <1>3, <1>4, Zenon

-----------------------------------------------------------------------------
(* Rollback, faults and restarts.                                           *)

LEMMA RollbackSteps ==
  ASSUME AgentInv,
         \/ RollbackDevice \/ RollbackHookFails \/ TruncateDesired \/ Resync
         \/ \E ready \in PolicyOutcomes : CopyCurrent(ready)
  PROVE  AgentInv'
<1> USE DEF AgentInv
<1>f. Fault("retry") => faults' \in [FaultKinds -> Nat]
  BY FaultCounted, Zenon DEF FaultKinds
<1>a. cache.current.content \in Contents \union {Empty, "mixed"}
  BY DeviceFacts, Zenon DEF TypeOK
<1>1. CASE RollbackDevice
  <2>1. /\ pc = "failing" /\ pc' \in {"osRollback", "truncate"} /\ next' \in {next, "resync"}
        /\ UNCHANGED <<server, disk, os, fatal, cache, queue, lastConsumed, publisher>>
    BY <1>1, Zenon DEF RollbackDevice
  <2>2. applied' \in Contents \union {Empty, "mixed"} /\ faults' \in [FaultKinds -> Nat]
    BY <1>1, <1>f, <1>a, ZenonT(60) DEF RollbackDevice, TypeOK
  <2>3. TypeOK' BY <2>1, <2>2, ZenonT(60) DEF TypeOK, RollingBack
  <2> QED BY <2>1, <2>3, QuietStep, Zenon DEF Dormant, Syncing
<1>2. CASE RollbackHookFails
  <2>1. /\ pc = "osRollback" /\ pc' = "idle" /\ faults' \in [FaultKinds -> Nat]
        /\ UNCHANGED <<server, disk, os, applied, fatal, next, cache, queue, lastConsumed, publisher>>
    BY <1>2, FaultCounted, Zenon DEF RollbackHookFails, FaultKinds, memory
  <2>2. TypeOK' BY <2>1 DEF TypeOK
  <2> QED BY <2>1, <2>2, QuietStep, Zenon DEF Dormant, Syncing
<1>3. CASE Resync
  <2>1. /\ pc = "resync" /\ pc' = "idle"
        /\ UNCHANGED <<server, disk, os, fatal, next, cache, queue, lastConsumed, publisher>>
    BY <1>3, Zenon DEF Resync, memory
  <2>2. applied' \in Contents \union {Empty, "mixed"} /\ faults' \in [FaultKinds -> Nat]
    BY <1>3, <1>f, <1>a, ZenonT(60) DEF Resync, TypeOK
  <2>3. TypeOK' BY <2>1, <2>2, Zenon DEF TypeOK
  <2> QED BY <2>1, <2>3, QuietStep, Zenon DEF Dormant, Syncing
<1>4. CASE TruncateDesired
  <2>1. /\ pc = "truncate" /\ pc' = "copy" /\ disk.current # Missing
        /\ disk' = [disk EXCEPT !.desired = Truncated]
        /\ UNCHANGED <<server, os, applied, fatal, next, cache, queue, lastConsumed, publisher,
                       faults>>
    BY <1>4, Zenon DEF TruncateDesired, memory
  <2>2. /\ disk'.current = disk.current /\ disk'.desired = Truncated
        /\ disk' \in [current : Device \union {Missing},
                      desired : Device \union {Missing, Truncated}, rollback : RollbackFile]
    BY <2>1, Zenon DEF TypeOK
  <2>3. TypeOK' BY <2>1, <2>2, Zenon DEF TypeOK, RollingBack
  <2>4. FilesInv' BY <2>1, <2>2, Zenon DEF FilesInv, DesiredNotOlder, Dormant
  <2>5. Coherent'
    <3>1. Known' \subseteq Known \union {Truncated} BY <2>1, <2>2, Zenon DEF Known, Polled
    <3> QED BY <2>1, <3>1, CoherentStep, Zenon
  <2>6. QueueInv' BY <2>1, Zenon DEF QueueInv, ItemSound, IsFailed, Dormant, Syncing
  <2>7. FailedNotApplied' BY <2>1, Zenon DEF FailedNotApplied, Syncing
  <2> QED BY <2>3, <2>4, <2>5, <2>6, <2>7, Zenon
<1>5. ASSUME NEW ready \in PolicyOutcomes, CopyCurrent(ready) PROVE AgentInv'
  <2>1. /\ pc = "copy" /\ pc' \in {"resync", "idle"} /\ next' = "idle"
        /\ disk' = [disk EXCEPT !.desired = disk.current]
        /\ queue' = Add(queue, disk.current, ready, cache.current)
        /\ cache' = [cache EXCEPT !.desired = disk.current]
        /\ UNCHANGED <<server, os, applied, fatal, lastConsumed, publisher, faults>>
    BY <1>5, Zenon DEF CopyCurrent
  <2>2. /\ disk.current = cache.current /\ disk.current \in Device /\ cache.current \in Device
        /\ queue \in Queues /\ ready \in Answers
    BY <2>1, ConstantsAssumption, Zenon DEF FilesInv, TypeOK, Dormant, Queues, Answers
  <2>3. /\ queue' \in Queues /\ queue'.versions = queue.versions
        /\ queue'.contents = queue.contents
        /\ queue'.item = queue.item
             \/ (queue'.item = disk.current /\ ~IsFailed(queue, disk.current))
    BY <2>1, <2>2, AddFacts
  <2>4. /\ disk'.current = cache.current /\ disk'.desired = cache.current
        /\ cache'.current = cache.current /\ cache'.desired = cache.current
        /\ disk' \in [current : Device \union {Missing},
                      desired : Device \union {Missing, Truncated}, rollback : RollbackFile]
        /\ cache' \in [current : Device, desired : Device]
    BY <2>1, <2>2, Zenon DEF TypeOK
  <2>u. /\ pc' \in {"resync", "idle"} /\ next' = "idle"
        /\ UNCHANGED <<server, os, applied, fatal, lastConsumed, publisher, faults>>
    BY <2>1, Zenon
  <2>5. TypeOK' BY <2>u, <2>3, <2>4, ZenonT(60) DEF TypeOK, Queues, RollingBack
  <2>6. FilesInv'
    <3>1. /\ cache.current.version \in Int /\ cache.current # Missing
          /\ cache.current # Truncated
      BY <2>2, DeviceFacts, Zenon DEF Missing
    <3>2. DesiredNotOlder'
      BY <2>4, <3>1, SMTT(60) DEF DesiredNotOlder
    <3>3. /\ disk'.desired # Truncated
          /\ disk'.current \in {cache'.current, Missing}
          /\ disk'.desired \in {cache'.desired, Missing, Truncated}
          /\ cache'.desired.version >= cache'.current.version
      BY <2>4, <3>1
    <3>4. pc' \notin {"resetDesired", "resetRollback", "load", "copy", "done"}
      BY <2>u, Zenon
    <3> QED BY <3>2, <3>3, <3>4, Zenon DEF FilesInv
  <2>7. Coherent'
    <3>1. Known' \subseteq Known BY <2>u, <2>3, <2>4, <2>2, Zenon DEF Known, Polled
    <3> QED BY <2>u, <3>1, CoherentStep, Zenon
  <2>8. QueueInv'
    BY <2>u, <2>3, <2>4, Zenon DEF QueueInv, ItemSound, IsFailed, Dormant, Syncing
  <2>9. FailedNotApplied' BY <2>u, Zenon DEF FailedNotApplied, Syncing
  <2> QED BY <2>5, <2>6, <2>7, <2>8, <2>9, Zenon
<1> QED BY <1>1, <1>2, <1>3, <1>4, <1>5, Zenon

LEMMA EndSteps ==
  ASSUME AgentInv,
         LoadFails \/ MissingSpec \/ Reboot \/ RebootIntoRollbackOS \/ Crash \/ PowerCycle \/ BootFails
  PROVE  AgentInv'
<1> USE DEF AgentInv
<1>0. /\ os \in [booted : Images, staged : Images, previous : Images, ok : BOOLEAN]
      /\ applied \in Contents \union {Empty, "mixed"} /\ faults \in [FaultKinds -> Nat]
  BY Zenon DEF TypeOK
<1>1. CASE LoadFails \/ MissingSpec
  BY <1>0, <1>1, StopStep, Zenon DEF LoadFails, MissingSpec
<1>2. CASE Reboot
  BY <1>0, <1>2, BootTypes, StopStep, Zenon DEF Reboot
<1>3. CASE RebootIntoRollbackOS
  <2>1. CASE Stop /\ os' \in {os, BootPrevious(os)}
    BY <1>0, <1>3, <2>1, BootTypes, StopStep, Zenon DEF RebootIntoRollbackOS
  <2>2. CASE pc' = "idle" /\ UNCHANGED <<os, memory>>
    <3>1. /\ pc = "osRollback" /\ pc' = "idle"
          /\ UNCHANGED <<server, disk, os, applied, fatal, next, cache, queue, lastConsumed,
                         publisher, faults>>
      BY <1>3, <2>2, Zenon DEF RebootIntoRollbackOS, memory
    <3>2. TypeOK' BY <3>1, ZenonT(60) DEF TypeOK
    <3> QED BY <3>1, <3>2, QuietStep, Zenon DEF Dormant, Syncing
  <2> QED BY <1>3, <2>1, <2>2, Zenon DEF RebootIntoRollbackOS
<1>4. CASE Crash
  <2>1. faults' \in [FaultKinds -> Nat]
    BY <1>4, FaultCounted, Zenon DEF Crash, FaultKinds
  <2> QED BY <1>0, <1>4, <2>1, StopStep, Zenon DEF Crash
<1>5. CASE PowerCycle
  <2>1. faults' \in [FaultKinds -> Nat]
    BY <1>5, FaultCounted, Zenon DEF PowerCycle, FaultKinds
  <2> QED BY <1>0, <1>5, <2>1, BootTypes, StopStep, Zenon DEF PowerCycle
<1>6. CASE BootFails
  <2>1. faults' \in [FaultKinds -> Nat]
    BY <1>6, FaultCounted, Zenon DEF BootFails, FaultKinds
  <2> QED BY <1>0, <1>6, <2>1, BootTypes, StopStep, Zenon DEF BootFails
<1> QED BY <1>1, <1>2, <1>3, <1>4, <1>5, <1>6, Zenon

LEMMA DropStep ==
  ASSUME AgentInv, NEW f \in {"current", "desired", "rollback"}, DropFile(f)
  PROVE  AgentInv'
<1> USE DEF AgentInv
<1>1. /\ pc \in {"off", "idle"} /\ pc' = pc /\ faults' \in [FaultKinds -> Nat]
      /\ UNCHANGED <<server, os, applied, fatal, next, cache, queue, lastConsumed, publisher>>
  BY FaultCounted, Zenon DEF DropFile, FaultKinds, memory
<1>2. /\ disk'.current \in {disk.current, Missing} /\ disk'.desired \in {disk.desired, Missing}
      /\ disk' \in [current : Device \union {Missing},
                    desired : Device \union {Missing, Truncated}, rollback : RollbackFile]
  <2>1. NoRollbackFile \in RollbackFile
    BY Zenon DEF NoRollbackFile, RollbackFile
  <2> QED BY <2>1, Zenon DEF DropFile, TypeOK
<1>3. TypeOK' BY <1>1, <1>2, ZenonT(60) DEF TypeOK
<1>4. FilesInv'
  <2>1. DesiredNotOlder' BY <1>2, Zenon DEF FilesInv, DesiredNotOlder
  <2>2. disk'.desired = Truncated => disk.desired = Truncated
    BY <1>2, DeviceFacts, Zenon DEF Missing
  <2> QED BY <1>1, <1>2, <2>1, <2>2, ZenonT(60) DEF FilesInv, Dormant
<1>5. Coherent'
  <2>1. Known' \subseteq Known \union {NoDevice} BY <1>1, <1>2, Zenon DEF Known, Polled, Missing
  <2> QED BY <1>1, <2>1, CoherentStep, Zenon
<1>6. QueueInv' BY <1>1, Zenon DEF QueueInv, ItemSound, IsFailed, Dormant, Syncing
<1>7. FailedNotApplied' BY <1>1, Zenon DEF FailedNotApplied, Syncing
<1> QED BY <1>3, <1>4, <1>5, <1>6, <1>7, Zenon

LEMMA StutterStep == AgentInv /\ UNCHANGED vars => AgentInv'
<1> SUFFICES ASSUME AgentInv, UNCHANGED vars PROVE AgentInv'
  BY Zenon
<1> USE DEF AgentInv
<1>0. UNCHANGED <<server, disk, os, applied, pc, fatal, next, cache, queue, lastConsumed,
                  publisher, faults>>
  BY Zenon DEF vars, memory
<1>1. TypeOK'
  <2>1. /\ server' \in Device
        /\ disk' \in [current : Device \union {Missing},
                      desired : Device \union {Missing, Truncated}, rollback : RollbackFile]
        /\ os' \in [booted : Images, staged : Images, previous : Images, ok : BOOLEAN]
        /\ applied' \in Contents \union {Empty, "mixed"}
    BY <1>0, Zenon DEF TypeOK
  <2>2. /\ pc' \in {"off", "idle", "next"} \union Booting \union Syncing \union RollingBack
        /\ fatal' \in BOOLEAN /\ next' \in {"idle", "resync", "boot"}
        /\ cache' \in [current : Device, desired : Device]
    BY <1>0, Zenon DEF TypeOK
  <2>3. /\ queue' \in [item : Device \union {NoDevice}, versions : SUBSET Versions,
                       contents : SUBSET Contents, requeue : [Versions -> Requeue]]
        /\ lastConsumed' \in Device \union {NoDevice}
        /\ publisher' \in [known : Versions, buffer : Seq(Device)]
        /\ Len(publisher'.buffer) <= 3 /\ faults' \in [FaultKinds -> Nat]
    BY <1>0, Zenon DEF TypeOK
  <2> QED BY <2>1, <2>2, <2>3, Zenon DEF TypeOK
<1>2. FilesInv' BY <1>0, Zenon DEF FilesInv, DesiredNotOlder
<1>3. Coherent'
  <2>1. Known' = Known BY <1>0, Zenon DEF Known, Polled
  <2> QED BY <1>0, <2>1, CoherentStep, Zenon
<1>4. QueueInv' BY <1>0, Zenon DEF QueueInv, ItemSound, IsFailed
<1>5. FailedNotApplied' BY <1>0, Zenon DEF FailedNotApplied, IsUpgrading, IsFailed
<1> QED BY <1>1, <1>2, <1>3, <1>4, <1>5, Zenon

-----------------------------------------------------------------------------
(* The theorems.                                                            *)

\* Every step of the service, the publisher, the agent and the faults keeps the files,
\* the versions and the queue in the relation AgentInv states.
THEOREM AgentInvariant == Spec => []AgentInv
<1>1. AgentInv /\ [Next]_vars => AgentInv'
  <2> SUFFICES ASSUME AgentInv, [Next]_vars PROVE AgentInv'
    BY Zenon
  <2>1. CASE (\E c \in Contents : Publish(c)) \/ Poll \/ BootSucceeds
               \/ (\E v \in Versions : BackoffElapses(v))
    BY <2>1, ServiceSteps, Zenon
  <2>2. CASE Start \/ EnsureResets \/ BootOS
    BY <2>2, StartStep, ResetSteps, BootOSStep, Zenon
  <2>3. ASSUME NEW ready \in PolicyOutcomes,
               Load(ready) \/ Consume(ready) \/ TakeNext(ready) \/ CopyCurrent(ready)
        PROVE  AgentInv'
    BY <2>3, LoadStep, ConsumeStep, TakeNextStep, RollbackSteps, Zenon
  <2>4. CASE DesiredUnreadable \/ BeforeUpdate \/ SyncDevice
    BY <2>4, PhaseSteps, Zenon
  <2>5. CASE AfterUpdate \/ CreateRollback \/ Upgrade \/ ClearRollback
    BY <2>5, CommitSteps, Zenon
  <2>6. CASE RollbackDevice \/ TruncateDesired \/ Resync
    BY <2>6, RollbackSteps, Zenon
  <2>7. CASE LoadFails \/ MissingSpec \/ Reboot \/ RebootIntoRollbackOS
    BY <2>7, EndSteps, Zenon
  <2>8. CASE Faults
    BY <2>8, PhaseSteps, RollbackSteps, EndSteps, DropStep, Zenon DEF Faults
  <2>9. CASE UNCHANGED vars
    BY <2>9, StutterStep, Zenon
  <2> QED BY <2>1, <2>2, <2>3, <2>4, <2>5, <2>6, <2>7, <2>8, <2>9, Zenon DEF Next, AgentStep
<1> QED BY <1>1, InitInv, PTL DEF Spec

\* The variables keep their types: no file, cache entry, queue entry or polled device is
\* ever something the manager cannot read, whatever dies, is lost or is repeated.
THEOREM AgentTypes == Spec => []TypeOK
BY AgentInvariant, PTL DEF AgentInv

\* The desired file is never older than the current one, so that a restart in the middle
\* of Ensure, Rollback or Upgrade resumes forward.
THEOREM DesiredFollowsCurrent == Spec => []DesiredNotOlder
<1>1. AgentInv => DesiredNotOlder
  BY Zenon DEF AgentInv, FilesInv
<1> QED BY <1>1, AgentInvariant, PTL

\* An update never works on a version or a content that SetUpgradeFailed marked, however
\* often a content comes back under a new version and wherever the process dies.
THEOREM FailedStaysOut == Spec => []FailedNotApplied
BY AgentInvariant, PTL DEF AgentInv

\* The current spec goes back only when Ensure resets the files: Upgrade commits nothing
\* older than what runs.
THEOREM CurrentNeverBack == Spec => CurrentForward
<1> DEFINE Forward == \/ disk'.current.version >= disk.current.version
                      \/ disk'.current = Missing
                      \/ pc = "resetCurrent"
<1>1. AgentInv /\ [Next]_vars => [Forward]_vars
  <2> SUFFICES ASSUME AgentInv, Next PROVE Forward
    BY Zenon DEF vars
  <2> USE DEF AgentInv
  <2>0. disk.current.version \in Int /\ disk \in [current : Device \union {Missing},
              desired : Device \union {Missing, Truncated}, rollback : RollbackFile]
    BY DeviceFacts, Zenon DEF TypeOK, Missing
  <2>1. CASE disk'.current = disk.current
    BY <2>0, <2>1
  <2>2. CASE Upgrade
    <3>1. CASE disk' = disk BY <2>0, <3>1, SMTT(60)
    <3>2. CASE disk' = [disk EXCEPT !.current = disk.desired] /\ pc = "done"
      <4>1. disk.desired = cache.desired /\ disk.desired \in Device
        BY <3>2, Zenon DEF FilesInv, TypeOK, Dormant
      <4>2. disk.current \in {cache.current, Missing}
              /\ cache.desired.version >= cache.current.version
        BY <3>2, Zenon DEF FilesInv, Dormant
      <4>3. disk'.current = cache.desired
        BY <2>0, <3>2, <4>1, Zenon
      <4> QED BY <4>1, <4>2, <4>3, DeviceFacts DEF Missing
    <3> QED BY <2>2, <3>1, <3>2, Zenon DEF Upgrade
  <2>3. CASE EnsureResets
    BY <2>0, <2>1, <2>3, Zenon DEF EnsureResets, ResetFile
  <2>4. ASSUME NEW f \in {"current", "desired", "rollback"}, DropFile(f) PROVE Forward
    <3>1. disk'.current \in {disk.current, Missing}
      BY <2>0, <2>4, Zenon DEF DropFile
    <3> QED BY <2>0, <3>1
  <2>5. CASE \/ (\E c \in Contents : Publish(c)) \/ Poll \/ BootSucceeds
             \/ (\E v \in Versions : BackoffElapses(v))
    BY <2>1, <2>5, Zenon DEF Publish, Poll, BootSucceeds, BackoffElapses
  <2>6. ASSUME NEW ready \in PolicyOutcomes,
               Load(ready) \/ Consume(ready) \/ TakeNext(ready) \/ CopyCurrent(ready)
        PROVE  Forward
    <3>1. disk'.current = disk.current
      BY <2>0, <2>6, Zenon DEF Load, Consume, TakeNext, CopyCurrent
    <3> QED BY <2>1, <3>1, ZenonT(60)
  <2>7. CASE Start \/ LoadFails \/ BootOS \/ MissingSpec \/ DesiredUnreadable \/ BeforeUpdate
               \/ SyncDevice \/ AfterUpdate \/ Reboot \/ RollbackDevice
               \/ RebootIntoRollbackOS \/ Resync
    BY <2>1, <2>7, Zenon DEF Start, LoadFails, BootOS, MissingSpec, DesiredUnreadable, BeforeUpdate,
         SyncDevice, AfterUpdate, Reboot, RollbackDevice, RebootIntoRollbackOS, Resync
  <2>8. CASE CreateRollback \/ ClearRollback \/ TruncateDesired
    <3>1. disk'.current = disk.current
      BY <2>0, <2>8, Zenon DEF CreateRollback, ClearRollback, TruncateDesired
    <3> QED BY <2>1, <3>1, Zenon
  <2>9. CASE (\E kind \in {"retry", "fatal"} : PhaseFails(kind)) \/ PrefetchNotReady
               \/ RollbackHookFails \/ Crash \/ PowerCycle \/ BootFails
    BY <2>1, <2>9, Zenon DEF PhaseFails, PrefetchNotReady, RollbackHookFails, Crash, PowerCycle, BootFails
  <2> QED BY <2>2, <2>3, <2>4, <2>5, <2>6, <2>7, <2>8, <2>9, Zenon DEF Next, AgentStep, Faults
<1> QED BY <1>1, AgentInvariant, PTL DEF Spec, CurrentForward

-----------------------------------------------------------------------------
(* What getDeviceFromQueue may do.                                         *)

\* getDeviceFromQueue leaves the queue alone, drops an item that is older than the desired
\* spec, works on it again, or makes it the desired spec.
LEMMA TakeNextCases ==
  ASSUME AgentInv, NEW ready \in PolicyOutcomes, TakeNext(ready)
  PROVE  /\ pc = "next"
         /\ UNCHANGED <<server, os, applied, fatal, next, lastConsumed, publisher, faults>>
         /\ queue'.versions = queue.versions /\ queue'.contents = queue.contents
         /\ \/ pc' = "idle" /\ queue'.item = queue.item /\ UNCHANGED <<disk, cache>>
            \/ /\ pc' \in {"idle", "prepare"} /\ queue'.item = NoDevice
               /\ UNCHANGED <<disk, cache>>
            \/ /\ pc' = "prepare" /\ queue.item \in Device /\ queue'.item = NoDevice
               /\ disk' = [disk EXCEPT !.desired = queue.item]
               /\ cache' = [cache EXCEPT !.desired = queue.item]
               /\ queue.item.version > cache.desired.version
<1> USE DEF AgentInv
<1> DEFINE d == queue.item
           q == Refresh(queue, d.version, ready)
           taken == Taken(q, d.version)
<1>0. /\ pc = "next" /\ queue \in Queues /\ ready \in Answers /\ cache.desired \in Device
      /\ UNCHANGED <<server, os, applied, fatal, next, lastConsumed, publisher, faults>>
  BY ConstantsAssumption, Zenon DEF TakeNext, TypeOK, Queues, Answers
<1>1. CASE pc' = "idle" /\ UNCHANGED <<queue, disk, cache>>
  BY <1>0, <1>1, Zenon
<1>2. CASE d # NoDevice /\ queue' = q /\ pc' = "idle" /\ UNCHANGED <<disk, cache>>
  <2>1. /\ q.versions = queue.versions /\ q.contents = queue.contents /\ q.item = d
    BY <1>0, <1>2, TakenFacts, Zenon
  <2> HIDE DEF q
  <2> QED BY <1>0, <1>2, <2>1, Zenon
<1>3. CASE /\ d # NoDevice /\ queue' = taken
           /\ pc' = IF d.version < cache.desired.version THEN "idle" ELSE "prepare"
           /\ IF d.version > cache.desired.version
              THEN disk' = [disk EXCEPT !.desired = d] /\ cache' = [cache EXCEPT !.desired = d]
              ELSE UNCHANGED <<disk, cache>>
  <2>1. /\ d \in Device /\ taken.versions = queue.versions /\ taken.contents = queue.contents
        /\ taken.item = NoDevice
    BY <1>0, <1>3, TakenFacts, Zenon
  <2>2. d.version \in Int /\ cache.desired.version \in Int
    BY <1>0, <2>1, DeviceFacts, Zenon
  <2> HIDE DEF taken
  <2>3. CASE d.version > cache.desired.version
    <3>1. ~(d.version < cache.desired.version)
      BY <2>2, <2>3
    <3> QED BY <1>0, <1>3, <2>1, <2>3, <3>1, Zenon
  <2>4. CASE ~(d.version > cache.desired.version)
    BY <1>0, <1>3, <2>1, <2>4, Zenon
  <2> QED BY <2>3, <2>4, Zenon
<1> QED BY <1>1, <1>2, <1>3, Zenon DEF TakeNext, Taken

-----------------------------------------------------------------------------
(* A new image is committed after its boot was approved.                    *)

\* Past the preparation the current file is there; past afterUpdate the image of the
\* desired spec is booted, if the update is about one.
CommitInv ==
  /\ pc \in {"apply", "after", "done"} => disk.current = cache.current
  /\ pc = "done" => \/ OsReconciled
                    \/ ~ShouldApplyOSImageUpdate
                    \/ OsImage(cache.desired) = NoImage

LEMMA StepsIntoPhases ==
  ASSUME TypeOK, Next, pc' \in {"apply", "after", "done"}
  PROVE  \/ BeforeUpdate \/ SyncDevice \/ AfterUpdate
         \/ UNCHANGED <<pc, disk, cache>> /\ os'.booted = os.booted
<1>1. CASE (\E c \in Contents : Publish(c)) \/ Poll \/ BootSucceeds
             \/ (\E v \in Versions : BackoffElapses(v))
  <2>1. UNCHANGED <<pc, disk, cache>>
    BY <1>1, Zenon DEF Publish, Poll, BootSucceeds, BackoffElapses, memory
  <2>2. os'.booted = os.booted
    BY <1>1, Zenon DEF Publish, Poll, BootSucceeds, BackoffElapses, TypeOK
  <2> QED BY <2>1, <2>2, Zenon
<1>2. CASE Start \/ EnsureResets \/ LoadFails \/ BootOS \/ MissingSpec
  BY <1>2, Zenon DEF Start, EnsureResets, ResetFile, LoadFails, BootOS, MissingSpec, Stop
<1>3. CASE \E ready \in PolicyOutcomes : Load(ready) \/ Consume(ready) \/ TakeNext(ready)
                                         \/ CopyCurrent(ready)
  BY <1>3, Zenon DEF Load, Consume, TakeNext, CopyCurrent
<1>4. CASE DesiredUnreadable \/ (\E kind \in {"retry", "fatal"} : PhaseFails(kind))
             \/ PrefetchNotReady
  BY <1>4, Zenon DEF DesiredUnreadable, PhaseFails, PrefetchNotReady, Fail
<1>5. CASE CreateRollback \/ Reboot \/ Upgrade \/ ClearRollback
  BY <1>5, Zenon DEF CreateRollback, Reboot, Upgrade, ClearRollback, Stop
<1>6. CASE RollbackDevice \/ RebootIntoRollbackOS \/ TruncateDesired \/ Resync
             \/ RollbackHookFails
  BY <1>6, Zenon DEF RollbackDevice, RebootIntoRollbackOS, TruncateDesired, Resync,
              RollbackHookFails, Stop
<1>7. CASE Crash \/ PowerCycle \/ BootFails \/ \E f \in {"current", "desired", "rollback"} : DropFile(f)
  BY <1>7, Zenon DEF Crash, PowerCycle, BootFails, DropFile, Stop
<1> QED BY <1>1, <1>2, <1>3, <1>4, <1>5, <1>6, <1>7, Zenon DEF Next, AgentStep, Faults

\* Only Upgrade writes the current file of a process that has done a sync.
LEMMA StepsFromDone ==
  ASSUME TypeOK, Next, pc = "done", disk'.current # disk.current
  PROVE  Upgrade
<1>1. CASE (\E c \in Contents : Publish(c)) \/ Poll \/ BootSucceeds
             \/ (\E v \in Versions : BackoffElapses(v))
  BY <1>1, Zenon DEF Publish, Poll, BootSucceeds, BackoffElapses
<1>2. CASE Start \/ EnsureResets \/ LoadFails \/ BootOS \/ MissingSpec
  BY <1>2, Zenon DEF Start, EnsureResets, ResetFile, LoadFails, BootOS, MissingSpec
<1>3. CASE \E ready \in PolicyOutcomes : Load(ready) \/ Consume(ready) \/ TakeNext(ready)
                                         \/ CopyCurrent(ready)
  BY <1>3, Zenon DEF Load, Consume, TakeNext, CopyCurrent
<1>4. CASE DesiredUnreadable \/ (\E kind \in {"retry", "fatal"} : PhaseFails(kind))
             \/ PrefetchNotReady \/ BeforeUpdate \/ SyncDevice \/ AfterUpdate
  BY <1>4, Zenon DEF DesiredUnreadable, PhaseFails, PrefetchNotReady, BeforeUpdate, SyncDevice, AfterUpdate
<1>5. CASE CreateRollback \/ Reboot \/ ClearRollback
  BY <1>5, Zenon DEF CreateRollback, Reboot, ClearRollback
<1>6. CASE RollbackDevice \/ RebootIntoRollbackOS \/ TruncateDesired \/ Resync
             \/ RollbackHookFails
  BY <1>6, Zenon DEF RollbackDevice, RebootIntoRollbackOS, TruncateDesired, Resync, RollbackHookFails
<1>7. CASE Crash \/ PowerCycle \/ BootFails \/ \E f \in {"current", "desired", "rollback"} : DropFile(f)
  BY <1>7, Zenon DEF Crash, PowerCycle, BootFails, DropFile
<1> QED BY <1>1, <1>2, <1>3, <1>4, <1>5, <1>6, <1>7, Zenon DEF Next, AgentStep, Faults

\* What an update that has got past its preparation, or past afterUpdate, relies on.
THEOREM CommitInvariant == Spec => []CommitInv
<1>1. Init => CommitInv
  BY Zenon DEF Init, CommitInv
<1>2. AgentInv /\ CommitInv /\ [Next]_vars => CommitInv'
  <2> SUFFICES ASSUME AgentInv, CommitInv, [Next]_vars PROVE CommitInv'
    BY Zenon
  <2> USE DEF AgentInv
  <2>1. CASE pc' \notin {"apply", "after", "done"}
    BY <2>1, Zenon DEF CommitInv
  <2>2. CASE UNCHANGED <<pc, disk, cache>> /\ os'.booted = os.booted
    <3>1. OsReconciled' <=> OsReconciled
      BY <2>2, Zenon DEF OsReconciled, OsImage
    <3>2. /\ ShouldApplyOSImageUpdate' <=> ShouldApplyOSImageUpdate
          /\ OsImage(cache.desired)' = OsImage(cache.desired)
      BY <2>2, Zenon DEF ShouldApplyOSImageUpdate, OsImage
    <3> QED BY <2>2, <3>1, <3>2, Zenon DEF CommitInv
  <2>3. CASE BeforeUpdate
    <3>1. disk.current = cache.current /\ UNCHANGED <<disk, cache>>
      BY <2>3, Zenon DEF BeforeUpdate, FilesInv, Dormant
    <3>2. pc' = "apply" \/ pc' \notin {"apply", "after", "done"}
      BY <2>3, Zenon DEF BeforeUpdate, Fail
    <3> QED BY <2>1, <3>1, <3>2, Zenon DEF CommitInv
  <2>4. CASE SyncDevice
    BY <2>4, Zenon DEF SyncDevice, CommitInv, memory
  <2>5. CASE AfterUpdate
    BY <2>5, Zenon DEF AfterUpdate, CommitInv, OsReconciled, ShouldApplyOSImageUpdate, memory
  <2>6. CASE UNCHANGED vars
    BY <2>2, <2>6, Zenon DEF vars, memory
  <2> QED BY <2>1, <2>2, <2>3, <2>4, <2>5, <2>6, StepsIntoPhases, Zenon
<1> QED BY <1>1, <1>2, AgentInvariant, PTL DEF Spec

\* A version with a new OS image becomes the current one only in a boot of that image that
\* greenboot approved, whatever happened between the staging and the commit.
THEOREM BootedBeforeCommit == Spec => CommittedImageBooted
<1> DEFINE Booted == pc = "done" /\ disk'.current # disk.current
                       /\ OsImage(disk'.current) \notin {NoImage, OsImage(disk.current)}
                     => os.booted = OsImage(disk'.current) /\ os.ok
<1>1. AgentInv /\ CommitInv /\ [Next]_vars => [Booted]_vars
  <2> SUFFICES ASSUME AgentInv, CommitInv, Next, pc = "done", disk'.current # disk.current,
                      OsImage(disk'.current) \notin {NoImage, OsImage(disk.current)}
               PROVE  os.booted = OsImage(disk'.current) /\ os.ok
    BY Zenon
  <2> USE DEF AgentInv
  <2>1. Upgrade
    BY StepsFromDone, Zenon
  <2>2. /\ ~AwaitsGreenboot /\ disk'.current = disk.desired /\ disk.desired = cache.desired
        /\ disk.current = cache.current
    BY <2>1, Zenon DEF Upgrade, TypeOK, FilesInv, Dormant, CommitInv
  <2>3. ShouldApplyOSImageUpdate /\ OsImage(cache.desired) # NoImage
    BY <2>2, Zenon DEF ShouldApplyOSImageUpdate
  <2>4. OsReconciled
    BY <2>3, Zenon DEF CommitInv
  <2> QED BY <2>2, <2>3, <2>4, Zenon DEF OsReconciled, AwaitsGreenboot, TypeOK
<1> QED BY <1>1, AgentInvariant, CommitInvariant, PTL DEF Spec, CommittedImageBooted

-----------------------------------------------------------------------------
(* What runs is not marked as failed.                                       *)

\* rollback.json is about a version newer than the current one, except between the two
\* writes of Upgrade; the current version is not among the failed ones, and every failed
\* content came with a failed version.
ResyncInv ==
  /\ disk.rollback.version > 0 =>
       /\ disk.rollback.content \in Plan[disk.rollback.version]
       /\ pc \in Dormant => disk.rollback.version > disk.current.version
       /\ pc \notin Dormant \union {"clear"} => disk.rollback.version > cache.current.version
  /\ pc = "staged" => ShouldApplyOSImageUpdate
  /\ \A c \in queue.contents : \E v \in queue.versions : v > 0 /\ c \in Plan[v]
  /\ pc \notin Dormant => cache.current.version \notin queue.versions

\* Whatever is queued, nothing more is marked as failed.
LEMMA QueueKeepsFailed ==
  ASSUME AgentInv, NEW ready \in PolicyOutcomes, Consume(ready) \/ CopyCurrent(ready)
  PROVE  queue'.versions = queue.versions /\ queue'.contents = queue.contents
<1> USE DEF AgentInv
<1>0. queue \in Queues /\ ready \in Answers /\ cache.current \in Device
  BY ConstantsAssumption, Zenon DEF TypeOK, Queues, Answers
<1>1. CASE Consume(ready)
  <2>1. PICK s \in Seq(Device) : queue' = AddAll(queue, s, ready, cache.current)
    BY <1>1, ConsumedDevices, Zenon
  <2> QED BY <1>0, <2>1, AddAllFacts, Zenon
<1>2. CASE CopyCurrent(ready)
  <2>1. queue' = Add(queue, disk.current, ready, cache.current) /\ disk.current \in Device
    BY <1>2, Zenon DEF CopyCurrent, FilesInv, Dormant, TypeOK
  <2> QED BY <1>0, <2>1, AddFacts
<1> QED BY <1>1, <1>2, Zenon

LEMMA RollbackTypes ==
  ASSUME TypeOK
  PROVE  /\ disk.rollback.version \in Int /\ disk.rollback.version \in Versions \union {-1}
         /\ disk.rollback.content \in Contents \union {Empty} /\ disk.rollback.image \in Images
<1>1. disk.rollback \in RollbackFile
  BY Zenon DEF TypeOK
<1>2. Versions \subseteq Int
  BY ConstantsAssumption DEF Versions
<1>3. RollbackFile = [image : Images, version : Versions \union {-1},
                      content : Contents \union {Empty}]
  BY Zenon DEF RollbackFile, Images
<1>4. disk.rollback \in [image : Images, version : Versions \union {-1},
                         content : Contents \union {Empty}]
  BY <1>1, <1>3, Zenon
<1>5. /\ disk.rollback.version \in Versions \union {-1}
      /\ disk.rollback.content \in Contents \union {Empty} /\ disk.rollback.image \in Images
  BY <1>4, Zenon
<1>6. Versions \union {-1} \subseteq Int
  BY <1>2
<1>7. disk.rollback.version \in Int
  BY <1>5, <1>6, Zenon
<1> QED BY <1>5, <1>7, Zenon

\* The process goes on and marks nothing.
LEMMA ResyncKeep ==
  ASSUME ResyncInv, disk'.rollback = disk.rollback, cache'.current = cache.current,
         queue'.versions = queue.versions, queue'.contents = queue.contents,
         pc \notin Dormant \union {"clear"}, pc' \notin Dormant,
         pc' = "staged" => ShouldApplyOSImageUpdate'
  PROVE  ResyncInv'
BY Zenon DEF ResyncInv

\* The process does nothing.
LEMMA ResyncSame ==
  ASSUME ResyncInv, UNCHANGED <<disk, cache, pc>>,
         queue'.versions = queue.versions, queue'.contents = queue.contents
  PROVE  ResyncInv'
BY Zenon DEF ResyncInv, ShouldApplyOSImageUpdate

\* The process ends, outside of Upgrade.
LEMMA ResyncStop ==
  ASSUME AgentInv, ResyncInv, Stop, disk' = disk, pc # "clear"
  PROVE  ResyncInv'
<1>1. /\ pc' = "off" /\ queue'.versions = {} /\ queue'.contents = {}
  BY EmptyQueueFacts, Zenon DEF Stop
<1>2. disk.rollback.version > 0 => disk.rollback.version > disk.current.version
  <2>1. CASE pc \in Dormant BY <2>1, Zenon DEF ResyncInv
  <2>2. CASE pc \notin Dormant
    <3>1. disk.current \in {cache.current, Missing} /\ Missing.version = -1
      BY <2>2, DeviceFacts, Zenon DEF AgentInv, FilesInv, Missing
    <3>2. disk.rollback.version \in Int
      BY RollbackTypes, Zenon DEF AgentInv
    <3> QED BY <2>2, <3>1, <3>2, SMTT(60) DEF ResyncInv
  <2> QED BY <2>1, <2>2, Zenon
<1> QED BY <1>1, <1>2, Zenon DEF ResyncInv, Dormant

\* A version other than the current one is marked as failed.
LEMMA ResyncMark ==
  ASSUME AgentInv, ResyncInv, NEW d \in Device, d.version > 0, d.content \in Plan[d.version],
         queue' = SetFailed(queue, d.version, d.content), d.version # cache.current.version,
         UNCHANGED <<disk, cache>>, pc \notin Dormant \union {"clear"}, pc' \notin Dormant \union {"staged"}
  PROVE  ResyncInv'
<1>1. /\ queue'.versions = queue.versions \union {d.version}
      /\ queue'.contents \subseteq queue.contents \union {d.content}
  BY Zenon DEF SetFailed, AgentInv, TypeOK
<1>2. \A c \in queue'.contents : \E v \in queue'.versions : v > 0 /\ c \in Plan[v]
  BY <1>1 DEF ResyncInv
<1>3. cache'.current.version \notin queue'.versions
  BY <1>1, Zenon DEF ResyncInv
<1> QED BY <1>2, <1>3, Zenon DEF ResyncInv

\* What the manager applies was rendered by the service.
LEMMA DesiredPlanned ==
  ASSUME AgentInv, pc \notin Dormant, cache.current.version # cache.desired.version
  PROVE  /\ cache.desired \in Device /\ cache.desired.version > 0
         /\ cache.desired.version > cache.current.version
         /\ cache.desired.content \in Plan[cache.desired.version]
<1>1. cache.desired.version >= cache.current.version
  BY Zenon DEF AgentInv, FilesInv
<1>2. cache.desired \in Device /\ cache.current \in Device /\ cache.desired \in Known
  BY Zenon DEF AgentInv, TypeOK, Known
<1>3. cache.desired.version > 0 /\ cache.desired.version > cache.current.version
  BY <1>1, <1>2, DeviceFacts
<1> QED BY <1>2, <1>3, Zenon DEF AgentInv, Coherent

LEMMA ResyncPhases ==
  ASSUME AgentInv, ResyncInv,
         \/ \E kind \in {"retry", "fatal"} : PhaseFails(kind)
         \/ DesiredUnreadable \/ BeforeUpdate \/ PrefetchNotReady \/ SyncDevice
  PROVE  ResyncInv'
<1>0. /\ pc \in Syncing \ {"done", "clear"} /\ UNCHANGED <<disk, cache>>
  BY Zenon DEF PhaseFails, DesiredUnreadable, BeforeUpdate, PrefetchNotReady, SyncDevice, Syncing, memory
<1>1. ASSUME NEW isFatal, Fail(isFatal) PROVE ResyncInv'
  <2>1. CASE queue' = queue
    BY <1>0, <1>1, <2>1, ResyncKeep, Zenon DEF Fail, Dormant, Syncing
  <2>2. CASE IsUpgrading /\ queue' = MarkDesiredFailed(queue)
    <3>1. /\ cache.desired \in Device /\ cache.desired.version > 0
          /\ cache.desired.content \in Plan[cache.desired.version]
      BY <1>0, <2>2, DesiredPlanned, Zenon DEF IsUpgrading, Dormant, Syncing
    <3>2. pc' = "failing"
      BY <1>1, <2>2, Zenon DEF Fail
    <3> QED BY <1>0, <2>2, <3>1, <3>2, ResyncMark, Zenon
              DEF MarkDesiredFailed, IsUpgrading, Dormant, Syncing
  <2> QED BY <1>1, <2>1, <2>2, Zenon DEF Fail
<1>2. CASE queue' = queue /\ pc' \in {"apply", "truncate", "idle", "after"}
  BY <1>0, <1>2, ResyncKeep, Zenon DEF Syncing, Dormant
<1>3. ASSUME NEW kind \in {"retry", "fatal"}, PhaseFails(kind) PROVE ResyncInv'
  BY <1>1, <1>3, Zenon DEF PhaseFails
<1>4. CASE DesiredUnreadable
  BY <1>1, <1>4, Zenon DEF DesiredUnreadable
<1>5. CASE BeforeUpdate
  BY <1>1, <1>2, <1>5, Zenon DEF BeforeUpdate
<1>6. CASE PrefetchNotReady \/ SyncDevice
  BY <1>2, <1>6, Zenon DEF PrefetchNotReady, SyncDevice, memory
<1> QED BY <1>3, <1>4, <1>5, <1>6, Zenon

\* checkRollback marks what rollback.json names, which is newer than the current version.
LEMMA ResyncBootOS ==
  ASSUME AgentInv, ResyncInv, BootOS
  PROVE  ResyncInv'
<1> DEFINE rollback == ShouldApplyOSImageUpdate /\ ~OsReconciled /\ IsRollingBack
<1>0. pc = "bootOS" /\ pc' \in {"truncate", "idle"} /\ UNCHANGED <<disk, cache>>
  BY Zenon DEF BootOS
<1>1. CASE rollback
  <2>1. cache.current.version # cache.desired.version
    <3>1. cache.current \in Known /\ cache.desired \in Known
      BY Zenon DEF Known
    <3> QED BY <1>1, <3>1, Zenon DEF AgentInv, Coherent, ShouldApplyOSImageUpdate
  <2>2. /\ cache.desired \in Device /\ cache.desired.version > 0
        /\ cache.desired.content \in Plan[cache.desired.version]
    BY <1>0, <2>1, DesiredPlanned, Zenon DEF Dormant
  <2>3. queue' = SetFailed(queue, cache.desired.version, cache.desired.content)
    BY <1>1, Zenon DEF BootOS, MarkDesiredFailed
  <2> QED BY <1>0, <2>1, <2>2, <2>3, ResyncMark, Zenon DEF Dormant
<1>2. CASE ~rollback /\ RolledBackBefore
  <2> DEFINE d == [version |-> disk.rollback.version, content |-> disk.rollback.content]
  <2>1. queue' = SetFailed(queue, disk.rollback.version, disk.rollback.content)
        /\ disk.rollback.version > 0
    BY <1>2, Zenon DEF BootOS, RolledBackBefore
  <2>2. disk.rollback.version \in Versions /\ disk.rollback.content \in Contents \union {Empty}
    BY <2>1 DEF AgentInv, TypeOK, RollbackFile
  <2>3. d \in Device /\ d.version = disk.rollback.version /\ d.content = disk.rollback.content
    BY <2>2, Zenon DEF Device
  <2>4. disk.rollback.version > cache.current.version /\ cache.current.version \in Nat
    <3>1. cache.current \in Device
      BY Zenon DEF AgentInv, TypeOK
    <3> QED BY <1>0, <2>1, <3>1, DeviceFacts, Zenon DEF ResyncInv, Dormant
  <2>5. disk.rollback.version \in Nat
    BY <2>3, DeviceFacts, Zenon
  <2>6. d.content \in Plan[d.version]
    BY <2>1, <2>3, Zenon DEF ResyncInv
  <2> HIDE DEF d
  <2> QED BY <1>0, <2>1, <2>3, <2>4, <2>5, <2>6, ResyncMark, SMTT(60) DEF Dormant
<1>3. CASE ~rollback /\ ~RolledBackBefore
  <2>1. queue' = queue
    BY <1>3, Zenon DEF BootOS
  <2> QED BY <1>0, <2>1, ResyncKeep, Zenon DEF Dormant
<1> QED BY <1>1, <1>2, <1>3, Zenon

\* Upgrade commits what has not failed.
LEMMA ResyncCommit ==
  ASSUME AgentInv, ResyncInv, AfterUpdate \/ CreateRollback \/ Upgrade \/ ClearRollback
  PROVE  ResyncInv'
<1> USE DEF AgentInv
<1>1. CASE AfterUpdate
  <2>1. /\ pc = "after" /\ pc' \in {"staged", "done"} /\ UNCHANGED <<disk, cache, queue>>
        /\ pc' = "staged" => ShouldApplyOSImageUpdate
    BY <1>1, Zenon DEF AfterUpdate, memory
  <2> QED BY <2>1, ResyncKeep, Zenon DEF Dormant, ShouldApplyOSImageUpdate
<1>2. CASE CreateRollback
  <2>1. /\ pc = "staged" /\ pc' = "reboot" /\ UNCHANGED <<cache, queue>>
        /\ disk'.rollback.version = cache.desired.version
        /\ disk'.rollback.content = cache.desired.content
    BY <1>2, Zenon DEF CreateRollback, memory, TypeOK
  <2>2. cache.current.version # cache.desired.version
    <3>1. cache.current \in Known /\ cache.desired \in Known
      BY Zenon DEF Known
    <3> QED BY <2>1, <3>1, Zenon DEF Coherent, ShouldApplyOSImageUpdate, ResyncInv
  <2>3. /\ cache.desired.version > cache.current.version
        /\ cache.desired.content \in Plan[cache.desired.version]
    BY <2>1, <2>2, DesiredPlanned, Zenon DEF Dormant
  <2> QED BY <2>1, <2>3, Zenon DEF ResyncInv, Dormant
<1>3. CASE Upgrade
  <2>1. CASE pc' = "idle" /\ UNCHANGED <<disk, cache>>
    BY <1>3, <2>1, ResyncKeep, Zenon DEF Upgrade, Dormant
  <2>2. CASE ~(pc' = "idle" /\ UNCHANGED <<disk, cache>>)
    <3>1. /\ pc = "done" /\ pc' = "clear" /\ IsUpgrading /\ queue' = queue
          /\ disk'.rollback = disk.rollback /\ cache'.current = disk.desired
      BY <1>3, <2>2, Zenon DEF Upgrade, TypeOK
    <3>2. disk.desired = cache.desired
      BY <3>1, Zenon DEF FilesInv, Dormant
    <3>3. cache'.current.version \notin queue'.versions
      BY <3>1, <3>2, Zenon DEF FailedNotApplied, IsFailed, Syncing
    <3> QED BY <3>1, <3>3, Zenon DEF ResyncInv, Dormant
  <2> QED BY <2>1, <2>2, Zenon
<1>4. CASE ClearRollback
  <2>1. /\ pc = "clear" /\ pc' = "idle" /\ cache' = cache
        /\ disk'.rollback.version = 0
        /\ queue'.versions = queue.versions /\ queue'.contents = queue.contents
    BY <1>4, Zenon DEF ClearRollback, RollbackCleared, Cleared, TypeOK
  <2> QED BY <2>1 DEF ResyncInv, Dormant
<1> QED BY <1>1, <1>2, <1>3, <1>4, Zenon

LEMMA ResyncStart ==
  ASSUME AgentInv, ResyncInv, Start \/ EnsureResets \/ \E ready \in PolicyOutcomes : Load(ready)
  PROVE  ResyncInv'
<1> USE DEF AgentInv
<1>1. CASE Start
  BY <1>1, Zenon DEF Start, ResyncInv, Dormant
<1>2. CASE EnsureResets
  <2>1. /\ pc \in Dormant /\ pc' \in Dormant /\ queue' = queue
        /\ disk'.current \in {disk.current, Zero}
        /\ disk'.rollback = disk.rollback \/ disk'.rollback.version = 0
    <3>1. /\ pc \in Dormant /\ pc' \in Dormant /\ queue' = queue
          /\ \/ disk' = [disk EXCEPT !.current = Zero]
             \/ disk' = [disk EXCEPT !.desired = Zero]
             \/ disk' = [disk EXCEPT !.rollback = Cleared]
      BY <1>2, Zenon DEF EnsureResets, ResetFile, memory, Dormant
    <3>2. disk \in [current : Device \union {Missing},
                    desired : Device \union {Missing, Truncated}, rollback : RollbackFile]
      BY Zenon DEF TypeOK
    <3> QED BY <3>1, <3>2 DEF Cleared
  <2>2. Zero.version = 0
    BY DeviceFacts, Zenon
  <2> QED BY <2>1, <2>2, SMTT(60) DEF ResyncInv, Dormant
<1>3. ASSUME NEW ready \in PolicyOutcomes, Load(ready) PROVE ResyncInv'
  <2>1. /\ pc = "load" /\ pc' = "bootOS" /\ disk' = disk /\ cache'.current = disk.current
        /\ queue' = Add(EmptyQueue, disk.desired, ready, disk.current)
    BY <1>3, Zenon DEF Load, QueueInv, Dormant
  <2>2. disk.desired \in Device /\ disk.current \in Device /\ ready \in Answers
    <3>1. disk.desired \in Device \union {Missing, Truncated} /\ disk.current \in Device \union {Missing}
      BY Zenon DEF TypeOK
    <3>2. disk.desired \notin {Missing, Truncated} /\ disk.current # Missing
      BY <1>3, Zenon DEF Load, FilesInv
    <3>3. ready \in Answers
      BY <1>3, ConstantsAssumption, Zenon DEF Answers
    <3> QED BY <3>1, <3>2, <3>3, Zenon
  <2>3. queue'.versions = {} /\ queue'.contents = {}
    BY <2>1, <2>2, AddFacts, EmptyQueueFacts
  <2> QED BY <2>1, <2>3, ZenonT(60) DEF ResyncInv, Dormant
<1> QED BY <1>1, <1>2, <1>3, Zenon

LEMMA ResyncQueue ==
  ASSUME AgentInv, ResyncInv, NEW ready \in PolicyOutcomes,
         Consume(ready) \/ TakeNext(ready) \/ CopyCurrent(ready)
  PROVE  ResyncInv'
<1> USE DEF AgentInv
<1>1. CASE TakeNext(ready)
  <2>1. /\ pc = "next" /\ pc' \in {"idle", "prepare"} /\ queue'.versions = queue.versions
        /\ queue'.contents = queue.contents
        /\ disk'.rollback = disk.rollback /\ cache'.current = cache.current
    BY <1>1, TakeNextCases, ZenonT(30) DEF TypeOK, TakeNext
  <2> QED BY <2>1, ResyncKeep, Zenon DEF Dormant
<1>2. CASE Consume(ready) \/ CopyCurrent(ready)
  <2>1. /\ pc \in {"idle", "copy"} /\ pc' \in {"next", "resync", "idle"}
        /\ disk'.rollback = disk.rollback /\ cache'.current = cache.current
    BY <1>2, Zenon DEF Consume, CopyCurrent, TypeOK
  <2>2. queue'.versions = queue.versions /\ queue'.contents = queue.contents
    BY <1>2, QueueKeepsFailed, Zenon
  <2> QED BY <2>1, <2>2, ResyncKeep, Zenon DEF Dormant
<1> QED BY <1>1, <1>2, Zenon

LEMMA ResyncEnds ==
  ASSUME AgentInv, ResyncInv, "clear" \notin CrashPoints,
         \/ LoadFails \/ MissingSpec \/ Reboot \/ Crash \/ PowerCycle \/ BootFails
         \/ RebootIntoRollbackOS \/ RollbackDevice \/ RollbackHookFails \/ TruncateDesired \/ Resync
         \/ \E f \in {"current", "desired", "rollback"} : DropFile(f)
  PROVE  ResyncInv'
<1>1. CASE LoadFails \/ MissingSpec \/ Reboot \/ Crash \/ PowerCycle \/ BootFails
  <2>1. Stop /\ disk' = disk /\ pc # "clear"
    BY <1>1, Zenon DEF LoadFails, MissingSpec, Reboot, Crash, PowerCycle, BootFails
  <2> QED BY <2>1, ResyncStop, Zenon
<1>2. CASE RebootIntoRollbackOS
  <2>1. CASE Stop BY <1>2, <2>1, ResyncStop, Zenon DEF RebootIntoRollbackOS
  <2>2. CASE pc' = "idle" /\ UNCHANGED memory
    BY <1>2, <2>2, ResyncKeep, Zenon DEF RebootIntoRollbackOS, memory, Dormant
  <2> QED BY <1>2, <2>1, <2>2, Zenon DEF RebootIntoRollbackOS
<1>3. CASE RollbackDevice \/ RollbackHookFails \/ TruncateDesired \/ Resync
  <2>1. /\ pc \in RollingBack /\ pc' \in {"osRollback", "truncate", "copy", "idle"}
        /\ UNCHANGED <<cache, queue>> /\ disk'.rollback = disk.rollback
    BY <1>3, Zenon
       DEF RollbackDevice, RollbackHookFails, TruncateDesired, Resync, memory, RollingBack,
                AgentInv, TypeOK
  <2> QED BY <2>1, ResyncKeep, Zenon DEF RollingBack, Dormant
<1>4. ASSUME NEW f \in {"current", "desired", "rollback"}, DropFile(f) PROVE ResyncInv'
  <2>1. /\ pc \in {"off", "idle"} /\ UNCHANGED <<pc, cache, queue>>
        /\ disk'.current \in {disk.current, Missing}
        /\ disk'.rollback = disk.rollback \/ disk'.rollback.version = -1
    BY <1>4, Zenon DEF DropFile, memory, AgentInv, TypeOK, NoRollbackFile
  <2>2. Missing.version = -1
    BY DeviceFacts, Zenon DEF Missing
  <2>3. disk.rollback.version \in Int
    BY RollbackTypes, Zenon DEF AgentInv
  <2>4. disk'.rollback.version > 0 => disk'.rollback = disk.rollback
    BY <2>1, SMTT(60)
  <2>5. disk.rollback.version > 0 /\ pc \in Dormant => disk.rollback.version > disk'.current.version
    BY <2>1, <2>2, <2>3 DEF ResyncInv
  <2> QED BY <2>1, <2>4, <2>5, Zenon DEF ResyncInv, Dormant
<1> QED BY <1>1, <1>2, <1>3, <1>4, Zenon

\* The content that runs is never marked as failed, so that it can be queued again, provided
\* that no two versions have the same content and that the process does not die between the
\* two writes of Upgrade.
THEOREM CurrentNeverFailed ==
  ASSUME \A v, w \in 1 .. Len(Plan) : v # w => Plan[v] \cap Plan[w] = {},
         "clear" \notin CrashPoints
  PROVE  Spec => []CurrentCanResync
<1>1. Init => ResyncInv
  <2> SUFFICES ASSUME Init PROVE ResyncInv
    BY Zenon
  <2>1. pc = "off" /\ queue = EmptyQueue /\ ~(disk.rollback.version > 0)
    <3>1. pc = "off" /\ queue = EmptyQueue /\ disk.rollback = NoRollbackFile
      BY Zenon DEF Init
    <3>2. ~(NoRollbackFile.version > 0)
      BY DEF NoRollbackFile
    <3> QED BY <3>1, <3>2, Zenon
  <2> QED BY <2>1, EmptyQueueFacts, Zenon DEF ResyncInv, Dormant
<1>2. AgentInv /\ ResyncInv /\ [Next]_vars => ResyncInv'
  <2> SUFFICES ASSUME AgentInv, ResyncInv, [Next]_vars PROVE ResyncInv'
    BY Zenon
  <2>1. CASE (\E c \in Contents : Publish(c)) \/ Poll \/ BootSucceeds
               \/ (\E v \in Versions : BackoffElapses(v))
    <3>1. UNCHANGED <<disk, cache, pc>>
      BY <2>1, Zenon DEF Publish, Poll, BootSucceeds, BackoffElapses, memory
    <3>2. queue'.versions = queue.versions /\ queue'.contents = queue.contents
      BY <2>1, Zenon DEF Publish, Poll, BootSucceeds, BackoffElapses, memory, AgentInv, TypeOK
    <3> QED BY <3>1, <3>2, ResyncSame, Zenon
  <2>2. CASE Start \/ EnsureResets \/ BootOS
    BY <2>2, ResyncStart, ResyncBootOS, Zenon
  <2>3. ASSUME NEW ready \in PolicyOutcomes,
               Load(ready) \/ Consume(ready) \/ TakeNext(ready) \/ CopyCurrent(ready)
        PROVE  ResyncInv'
    BY <2>3, ResyncStart, ResyncQueue, Zenon
  <2>4. CASE DesiredUnreadable \/ BeforeUpdate \/ SyncDevice
    BY <2>4, ResyncPhases, Zenon
  <2>5. CASE AfterUpdate \/ CreateRollback \/ Upgrade \/ ClearRollback
    BY <2>5, ResyncCommit, Zenon
  <2>6. CASE RollbackDevice \/ TruncateDesired \/ Resync \/ RebootIntoRollbackOS
             \/ LoadFails \/ MissingSpec \/ Reboot
    BY <2>6, ResyncEnds, Zenon
  <2>7. CASE Faults
    BY <2>7, ResyncPhases, ResyncEnds, Zenon DEF Faults
  <2>8. CASE UNCHANGED vars
    BY <2>8, ResyncSame, Zenon DEF vars, memory
  <2> QED BY <2>1, <2>2, <2>3, <2>4, <2>5, <2>6, <2>7, <2>8, Zenon DEF Next, AgentStep
<1>3. AgentInv /\ ResyncInv => CurrentCanResync
  <2> SUFFICES ASSUME AgentInv, ResyncInv, pc \notin Booting \union {"off"},
                      IsFailed(queue, cache.current)
               PROVE  FALSE
    BY Zenon DEF CurrentCanResync
  <2>1. /\ cache.current.version \notin queue.versions /\ cache.current \in Known
        /\ cache.current.version \in Nat /\ cache.current \in Device
    <3>1. pc \notin Dormant
      BY Zenon DEF Dormant, Booting
    <3>2. cache.current.version \notin queue.versions
      BY <3>1, Zenon DEF ResyncInv
    <3>3. cache.current \in Device /\ cache.current \in Known
      BY Zenon DEF AgentInv, TypeOK, Known
    <3> QED BY <3>2, <3>3, DeviceFacts, Zenon
  <2>2. PICK v \in queue.versions : v > 0 /\ cache.current.content \in Plan[v]
    BY <2>1, Zenon DEF IsFailed, ResyncInv
  <2>3. /\ v \in 1 .. Len(Plan) /\ v # cache.current.version
    <3>1. queue.versions \subseteq Versions
      BY Zenon DEF AgentInv, TypeOK
    <3>2. v \in Versions /\ v # cache.current.version
      BY <2>1, <2>2, <3>1, Zenon
    <3> QED BY <2>2, <3>2 DEF Versions
  <2>4. cache.current.content # Empty
    BY <2>1, <2>2, Zenon DEF IsFailed
  <2>5. cache.current.version # 0
    <3>1. cache.current.version = 0 => cache.current = Zero
      BY <2>1, Zenon DEF AgentInv, Coherent
    <3> QED BY <2>4, <3>1 DEF Zero
  <2>6. /\ cache.current.version \in 1 .. Len(Plan)
        /\ cache.current.content \in Plan[cache.current.version]
    <3>1. cache.current.version \in Versions
      BY <2>1, DeviceFacts, Zenon
    <3>2. cache.current.version \in 1 .. Len(Plan) /\ cache.current.version > 0
      BY <2>1, <2>5, <3>1 DEF Versions
    <3>3. cache.current.content \in Plan[cache.current.version]
      BY <2>1, <3>2, Zenon DEF AgentInv, Coherent
    <3> QED BY <3>2, <3>3, Zenon
  <2> QED BY <2>2, <2>3, <2>6, Zenon
<1> QED BY <1>1, <1>2, <1>3, AgentInvariant, PTL DEF Spec
=============================================================================
