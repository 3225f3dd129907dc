-------------------------- MODULE AgentSpecUpdates ---------------------------
(****************************************************************************)
(* The versions on their way through the agent, for any plan of versions, any *)
(* answers of the policies and any faults: they are consumed, queued and      *)
(* applied in order (QueueNotOlder), and, unless a spec file is removed, a    *)
(* version whose image did not come up is not tried again                     *)
(* (RejectedNotRetried).                                                      *)
(****************************************************************************)
EXTENDS AgentSpecProofs

-----------------------------------------------------------------------------
(* The order in which versions reach the queue.                             *)

\* The newest version the manager consumed, or else the desired one.
Top == IF lastConsumed = NoDevice THEN cache.desired.version ELSE lastConsumed.version

\* The versions of the sequence do not go back and stay between the two bounds.
InOrder(s, low, high) ==
  \A i \in 1 .. Len(s) : /\ low <= s[i].version /\ s[i].version <= high
                         /\ \A k \in i .. Len(s) : s[i].version <= s[k].version

\* What is polled is at least as new as what was consumed, which is at least as new as
\* what is queued, which is at least as new as what is being applied.
OrderInv ==
  /\ publisher.known <= server.version
  /\ pc \in Dormant => publisher.buffer = <<>> /\ lastConsumed = NoDevice
  /\ pc \in {"resetRollback", "load"} => disk.desired.version <= publisher.known
  /\ pc \in {"failing", "osRollback", "truncate", "copy"} => queue.item = NoDevice
  /\ pc = "next" => lastConsumed # NoDevice
  /\ pc \notin Dormant =>
       /\ cache.desired.version <= Top /\ queue.item.version <= Top /\ Top <= publisher.known
       /\ queue.item = NoDevice \/ queue.item.version >= cache.desired.version
       /\ InOrder(publisher.buffer, Top, publisher.known)

LEMMA OrderTypes ==
  ASSUME TypeOK
  PROVE  /\ server.version \in Nat /\ publisher.known \in Nat /\ Top \in Nat
         /\ queue.item.version \in Int /\ disk.current.version \in Int
         /\ disk.desired.version \in Int
         /\ cache.current.version \in Nat /\ cache.desired.version \in Nat
         /\ publisher.buffer \in Seq(Device) /\ Len(publisher.buffer) \in Nat
         /\ \A i \in 1 .. Len(publisher.buffer) : publisher.buffer[i].version \in Nat
<1>1. /\ server \in Device /\ cache.current \in Device /\ cache.desired \in Device
      /\ lastConsumed \in Device \union {NoDevice}
      /\ queue.item \in Device \union {NoDevice, Truncated}
      /\ disk.current \in Device \union {NoDevice, Truncated}
      /\ disk.desired \in Device \union {NoDevice, Truncated}
  BY Zenon DEF TypeOK, Missing
<1>2. publisher.known \in Versions /\ publisher.buffer \in Seq(Device)
  BY Zenon DEF TypeOK
<1>3. Versions \subseteq Nat
  BY ConstantsAssumption DEF Versions
<1>4. /\ Len(publisher.buffer) \in Nat
      /\ \A i \in 1 .. Len(publisher.buffer) : publisher.buffer[i] \in Device
  BY <1>2
<1>5. Top \in Nat
  BY <1>1, DeviceFacts, Zenon DEF Top
<1> QED BY <1>1, <1>2, <1>3, <1>4, <1>5, DeviceFacts, Zenon

\* The ring buffer keeps its order when a device at least as new as the others comes in.
LEMMA RingOrder ==
  ASSUME NEW s \in Seq(Device), Len(s) <= 3, NEW d \in Device, NEW low \in Int, NEW high \in Int,
         InOrder(s, low, high), low <= high, high <= d.version
  PROVE  InOrder(Append(IF Len(s) = 3 THEN Tail(s) ELSE s, d), low, d.version)
<1> DEFINE kept == IF Len(s) = 3 THEN Tail(s) ELSE s
           b == Append(kept, d)
<1>0. d.version \in Int /\ \A i \in 1 .. Len(s) : s[i].version \in Int
  BY DeviceFacts
<1>1. /\ kept \in Seq(Device) /\ Len(kept) \in Nat
      /\ \A i \in 1 .. Len(kept) :
           /\ kept[i].version \in Int /\ low <= kept[i].version /\ kept[i].version <= high
           /\ \A k \in i .. Len(kept) : kept[i].version <= kept[k].version
  <2>1. CASE Len(s) = 3
    <3>1. /\ kept = Tail(s) /\ kept \in Seq(Device) /\ Len(kept) = 2
          /\ \A i \in 1 .. 2 : kept[i] = s[i + 1]
      BY <2>1, FullBuffer, Zenon
    <3> HIDE DEF kept
    <3>2. \A i \in 1 .. 2 : i + 1 \in 1 .. Len(s) /\ \A k \in i .. 2 : k \in 1 .. 2 /\ k + 1 \in i + 1 .. Len(s)
      BY <2>1
    <3> QED BY <1>0, <3>1, <3>2 DEF InOrder
  <2>2. CASE Len(s) # 3
    BY <1>0, <2>2 DEF InOrder
  <2> QED BY <2>1, <2>2, Zenon
<1> HIDE DEF kept
<1>2. /\ b \in Seq(Device) /\ Len(b) = Len(kept) + 1
      /\ \A i \in 1 .. Len(kept) : b[i] = kept[i]
      /\ b[Len(kept) + 1] = d
  BY <1>1, AppendFacts
<1> HIDE DEF b
<1>3. ASSUME NEW i \in 1 .. Len(b)
      PROVE  /\ low <= b[i].version /\ b[i].version <= d.version
             /\ \A k \in i .. Len(b) : b[i].version <= b[k].version
  <2>1. CASE i = Len(kept) + 1
    <3>1. \A k \in i .. Len(b) : k = i BY <1>1, <1>2, <2>1
    <3> QED BY <1>0, <1>1, <1>2, <2>1, <3>1
  <2>2. CASE i \in 1 .. Len(kept)
    <3>1. \A k \in i .. Len(b) : k = Len(kept) + 1 \/ (k \in 1 .. Len(kept) /\ k \in i .. Len(kept))
      BY <1>1, <1>2, <2>2
    <3>2. /\ b[i] = kept[i] /\ kept[i].version \in Int
          /\ low <= kept[i].version /\ kept[i].version <= high
      BY <1>1, <1>2, <2>2, Zenon
    <3>3. ASSUME NEW k \in i .. Len(b) PROVE b[i].version <= b[k].version
      <4>1. CASE k = Len(kept) + 1
        <5>1. b[k] = d BY <1>2, <4>1, Zenon
        <5> QED BY <1>0, <3>2, <5>1
      <4>2. CASE k \in 1 .. Len(kept) /\ k \in i .. Len(kept)
        <5>1. b[k] = kept[k] /\ kept[i].version <= kept[k].version
          BY <1>1, <1>2, <2>2, <4>2, Zenon
        <5> QED BY <3>2, <5>1, Zenon
      <4> QED BY <3>1, <3>3, <4>1, <4>2, Zenon
    <3> QED BY <1>0, <3>2, <3>3
  <2> QED BY <1>1, <1>2, <2>1, <2>2
<1> QED BY <1>3, Zenon DEF InOrder, b, kept

\* The process ends.
LEMMA OrderStop ==
  ASSUME AgentInv, Stop, server' = server
  PROVE  OrderInv'
<1>1. server.version \in Nat
  BY OrderTypes, Zenon DEF AgentInv
<1> QED BY <1>1 DEF Stop, OrderInv, Dormant

\* The process goes on, polls and consumes nothing, and queues at most less.
LEMMA OrderQuiet ==
  ASSUME AgentInv, OrderInv, UNCHANGED <<server, lastConsumed, publisher>>,
         cache'.desired = cache.desired, queue'.item \in {queue.item, NoDevice},
         pc \notin Dormant, pc' \notin Dormant, pc' = "next" => pc = "next",
         pc' \in {"failing", "osRollback", "truncate", "copy"} => queue'.item = NoDevice
  PROVE  OrderInv'
<1>1. Top' = Top
  BY Zenon DEF Top
<1>2. Top \in Nat /\ NoDevice.version = -1
  BY OrderTypes, DeviceFacts, Zenon DEF AgentInv
<1>3. /\ publisher'.known <= server'.version
      /\ pc' = "next" => lastConsumed' # NoDevice
      /\ cache'.desired.version <= Top' /\ Top' <= publisher'.known
      /\ InOrder(publisher.buffer, Top, publisher.known)'
  BY <1>1, Zenon DEF OrderInv, InOrder
<1>4. queue'.item.version <= Top'
      /\ (queue'.item = NoDevice \/ queue'.item.version >= cache'.desired.version)
  BY <1>1, <1>2 DEF OrderInv
<1> QED BY <1>3, <1>4, Zenon DEF OrderInv, Dormant

\* Nothing of it changes.
LEMMA OrderSame ==
  ASSUME OrderInv, UNCHANGED <<server, disk, pc, cache, lastConsumed, publisher>>,
         queue'.item = queue.item
  PROVE  OrderInv'
BY DEF OrderInv, InOrder, Top

LEMMA OrderService ==
  ASSUME AgentInv, OrderInv,
         (\E c \in Contents : Publish(c)) \/ Poll \/ BootSucceeds
           \/ (\E v \in Versions : BackoffElapses(v))
  PROVE  OrderInv'
<1> USE DEF AgentInv
<1>0. server.version \in Nat /\ publisher.known \in Nat
  BY OrderTypes, Zenon
<1>1. ASSUME NEW c \in Contents, Publish(c) PROVE OrderInv'
  <2>1. UNCHANGED <<disk, pc, cache, queue, lastConsumed, publisher>>
        /\ server'.version = server.version + 1
    BY <1>1, Zenon DEF Publish, memory
  <2>2. publisher'.known <= server'.version
    BY <1>0, <2>1 DEF OrderInv
  <2>3. Top' = Top
    BY <2>1, Zenon DEF Top
  <2> QED BY <2>1, <2>2, <2>3 DEF OrderInv, InOrder
<1>2. CASE Poll
  <2> DEFINE b == Append(IF Len(publisher.buffer) = 3 THEN Tail(publisher.buffer)
                                                       ELSE publisher.buffer, server)
  <2>1. /\ pc \notin Dormant /\ UNCHANGED <<server, disk, pc, cache, queue, lastConsumed>>
        /\ publisher'.known = server.version /\ publisher'.buffer = b
    BY <1>0, <1>2 DEF Poll, Dormant, Booting, OrderInv
  <2>2. Top' = Top /\ Top \in Nat
    BY <2>1, OrderTypes, Zenon DEF Top
  <2>3. InOrder(publisher'.buffer, Top, server.version)
    <3>1. InOrder(b, Top, server.version)
      BY <1>0, <2>1, <2>2, RingOrder DEF OrderInv, TypeOK
    <3> QED BY <2>1, <3>1, Zenon
  <2>4. Top <= publisher'.known
    BY <1>0, <2>1, <2>2 DEF OrderInv
  <2>5. publisher'.known <= server'.version
    BY <1>0, <2>1, SMTT(60)
  <2>6. InOrder(publisher.buffer, Top, publisher.known)'
    BY <2>1, <2>2, <2>3, Zenon DEF InOrder
  <2>7. /\ cache'.desired.version <= Top' /\ queue'.item.version <= Top'
        /\ queue'.item = NoDevice \/ queue'.item.version >= cache'.desired.version
    BY <2>1, <2>2, Zenon DEF OrderInv
  <2> HIDE DEF b
  <2>8. /\ pc' \notin Dormant /\ (pc' = "next" => lastConsumed' # NoDevice)
        /\ pc' \in {"failing", "osRollback", "truncate", "copy"} => queue'.item = NoDevice
    BY <2>1, Zenon DEF OrderInv
  <2> QED BY <2>2, <2>4, <2>5, <2>6, <2>7, <2>8, Zenon DEF OrderInv, Dormant
<1>3. CASE BootSucceeds
  BY <1>3, OrderSame, Zenon DEF BootSucceeds, memory
<1>4. ASSUME NEW v \in Versions, BackoffElapses(v) PROVE OrderInv'
  <2>1. queue'.item = queue.item
    BY <1>4, Zenon DEF BackoffElapses, TypeOK
  <2> QED BY <1>4, <2>1, OrderSame, Zenon DEF BackoffElapses
<1> QED BY <1>1, <1>2, <1>3, <1>4, Zenon

\* NewManager takes the known version from the desired file, Ensure resets both.
LEMMA OrderStart ==
  ASSUME AgentInv, OrderInv, Start \/ EnsureResets
  PROVE  OrderInv'
<1> USE DEF AgentInv
<1>0. /\ server.version \in Nat /\ publisher.known \in Nat /\ disk.desired.version \in Int
      /\ disk.desired.version <= server.version
      /\ Missing.version = -1 /\ Truncated.version = -2 /\ Zero.version = 0
  BY OrderTypes, DeviceFacts, Zenon DEF Coherent, Known, Missing
<1>1. CASE Start
  <2>1. /\ pc = "off" /\ pc' \in {"load", "resetCurrent"}
        /\ UNCHANGED <<server, disk, cache, queue, lastConsumed>>
        /\ publisher'.buffer = publisher.buffer
    BY <1>1, Zenon DEF Start, TypeOK
  <2>2. publisher'.known \in {0, disk.desired.version}
    BY <1>1, Zenon DEF Start, TypeOK
  <2>3. pc' = "load" => MissingFiles = {}
    BY <1>1, Zenon DEF Start
  <2>4. pc' = "load" => disk.desired.version <= publisher'.known
    <3>1. CASE MissingFiles = {} /\ disk.desired # Truncated
      <4>1. publisher'.known = disk.desired.version
        BY <1>1, <3>1, Zenon DEF Start, TypeOK
      <4> QED BY <1>0, <4>1
    <3>2. CASE disk.desired = Truncated
      <4>1. publisher'.known = 0
        BY <1>1, <3>2, Zenon DEF Start, TypeOK
      <4> QED BY <1>0, <3>2, <4>1
    <3> QED BY <2>3, <3>1, <3>2, Zenon
  <2>5. publisher'.known <= server'.version
    BY <1>0, <2>1, <2>2
  <2> QED BY <2>1, <2>4, <2>5, Zenon DEF OrderInv, Dormant
<1>2. CASE EnsureResets
  <2>1. /\ pc \in Dormant /\ pc' \in Dormant \ {"off", "resetCurrent"}
        /\ UNCHANGED <<server, cache, queue, lastConsumed, publisher>>
    BY <1>2, Zenon DEF EnsureResets, ResetFile, memory, Dormant
  <2>2. pc' \in {"resetRollback", "load"} => disk'.desired.version <= publisher'.known
    BY <1>0, <1>2, SMTT(60) DEF EnsureResets, ResetFile, memory, OrderInv, TypeOK
  <2> QED BY <2>1, <2>2, Zenon DEF OrderInv, Dormant
<1> QED BY <1>1, <1>2, Zenon

LEMMA OrderLoad ==
  ASSUME AgentInv, OrderInv, NEW ready \in PolicyOutcomes, Load(ready)
  PROVE  OrderInv'
<1> USE DEF AgentInv
<1>1. /\ pc = "load" /\ pc' = "bootOS" /\ UNCHANGED <<server, disk, lastConsumed, publisher>>
      /\ cache' = [current |-> disk.current, desired |-> disk.desired]
      /\ queue' = Add(EmptyQueue, disk.desired, ready, disk.current)
      /\ publisher.buffer = <<>> /\ lastConsumed = NoDevice
      /\ disk.desired.version <= publisher.known
  BY Zenon DEF Load, QueueInv, OrderInv, Dormant
<1>2. disk.desired \in Device /\ disk.current \in Device /\ ready \in Answers
  BY ConstantsAssumption, Zenon DEF Load, TypeOK, FilesInv, Answers
<1>3. queue'.item \in {NoDevice, disk.desired}
  BY <1>1, <1>2, AddFacts, EmptyQueueFacts
<1>4. Top' = disk.desired.version /\ cache'.desired = disk.desired
  BY <1>1, Zenon DEF Top
<1>5. disk.desired.version \in Nat /\ NoDevice.version = -1
  BY <1>2, DeviceFacts, Zenon
<1>6. publisher'.known <= server'.version
  BY <1>1, Zenon DEF OrderInv
<1>7. InOrder(publisher.buffer, Top, publisher.known)'
  BY <1>1 DEF InOrder
<1>8. /\ queue'.item.version <= Top'
      /\ queue'.item = NoDevice \/ queue'.item.version >= cache'.desired.version
      /\ cache'.desired.version <= Top' /\ Top' <= publisher'.known
  BY <1>1, <1>3, <1>4, <1>5
<1> QED BY <1>1, <1>6, <1>7, <1>8, Zenon DEF OrderInv, Dormant

\* ensureBootedOS takes the desired version off the queue when it rolls back.
LEMMA OrderBootOS ==
  ASSUME AgentInv, OrderInv, BootOS
  PROVE  OrderInv'
<1> USE DEF AgentInv
<1> DEFINE rollback == ShouldApplyOSImageUpdate /\ ~OsReconciled /\ IsRollingBack
<1>0. /\ pc = "bootOS" /\ queue \in Queues /\ cache.desired \in Device
      /\ queue.item \in {NoDevice, cache.desired}
      /\ UNCHANGED <<server, cache, lastConsumed, publisher>>
  BY Zenon DEF BootOS, TypeOK, Queues, QueueInv
<1>1. CASE rollback
  <2>1. pc' = "truncate" /\ queue' = SetFailed(queue, cache.desired.version, cache.desired.content)
    BY <1>1, Zenon DEF BootOS, MarkDesiredFailed
  <2>2. queue'.item = NoDevice
    BY <1>0, <2>1, SetFailedFacts, DeviceFacts
  <2> QED BY <1>0, <2>1, <2>2, OrderQuiet, Zenon DEF Dormant
<1>2. CASE ~rollback /\ RolledBackBefore
  <2>1. pc' = "idle" /\ queue' = SetFailed(queue, disk.rollback.version, disk.rollback.content)
    BY <1>2, Zenon DEF BootOS
  <2>2. disk.rollback.version \in Versions /\ disk.rollback.content \in Contents \union {Empty}
    BY <1>2 DEF RolledBackBefore, TypeOK, RollbackFile
  <2>3. queue'.item \in {queue.item, NoDevice}
    BY <1>0, <2>1, <2>2, SetFailedFacts, Zenon
  <2> QED BY <1>0, <2>1, <2>3, OrderQuiet, Zenon DEF Dormant
<1>3. CASE ~rollback /\ ~RolledBackBefore
  <2>1. pc' = "idle" /\ queue' = queue
    BY <1>3, Zenon DEF BootOS
  <2> QED BY <1>0, <2>1, OrderQuiet, Zenon DEF Dormant
<1> QED BY <1>1, <1>2, <1>3, Zenon

\* Whatever the manager consumed is queued and remembered.
LEMMA OrderConsumed ==
  ASSUME AgentInv, OrderInv, pc = "idle", pc' = "next", UNCHANGED <<server, cache>>,
         publisher'.known = publisher.known, publisher'.buffer = <<>>, lastConsumed' \in Device,
         Top <= lastConsumed'.version, lastConsumed'.version <= publisher.known,
         \/ queue'.item = queue.item
         \/ /\ cache.desired.version <= queue'.item.version
            /\ queue'.item.version <= lastConsumed'.version
  PROVE  OrderInv'
<1>1. /\ Top \in Nat /\ lastConsumed'.version \in Nat /\ lastConsumed' # NoDevice
      /\ queue.item.version \in Int /\ cache.desired.version \in Nat
  BY OrderTypes, DeviceFacts, Zenon DEF AgentInv
<1>2. Top' = lastConsumed'.version
  BY <1>1, Zenon DEF Top
<1>3. InOrder(publisher.buffer, Top, publisher.known)'
  BY DEF InOrder
<1>4. /\ cache.desired.version <= Top /\ queue.item.version <= Top
      /\ queue.item = NoDevice \/ queue.item.version >= cache.desired.version
      /\ publisher.known <= server.version
  BY Zenon DEF OrderInv, Dormant
<1>5. /\ cache'.desired.version <= Top' /\ queue'.item.version <= Top'
      /\ queue'.item = NoDevice \/ queue'.item.version >= cache'.desired.version
  <2>1. CASE queue'.item = queue.item
    BY <1>1, <1>2, <1>4, <2>1
  <2>2. CASE /\ cache.desired.version <= queue'.item.version
             /\ queue'.item.version <= lastConsumed'.version
    BY <1>1, <1>2, <1>4, <2>2
  <2> QED BY <2>1, <2>2, Zenon
<1> QED BY <1>1, <1>2, <1>3, <1>4, <1>5, Zenon DEF OrderInv, Dormant

LEMMA OrderConsume ==
  ASSUME AgentInv, OrderInv, NEW ready \in PolicyOutcomes, Consume(ready)
  PROVE  OrderInv'
<1> USE DEF AgentInv
<1> DEFINE b == publisher.buffer
           s == IF b # <<>> THEN b
                ELSE IF ConsumeAgain THEN <<lastConsumed>> ELSE <<disk.desired>>
           last == IF b # <<>> THEN b[Len(b)]
                   ELSE IF lastConsumed = NoDevice THEN disk.desired ELSE lastConsumed
<1>0. /\ pc = "idle" /\ pc' = "next" /\ (ReadsDesired => disk.desired # Missing)
      /\ queue' = AddAll(queue, s, ready, cache.current) /\ lastConsumed' = last
      /\ publisher' = [publisher EXCEPT !.buffer = <<>>]
      /\ cache' = IF ReadsDesired THEN [cache EXCEPT !.desired = disk.desired] ELSE cache
      /\ server' = server
  BY Zenon DEF Consume, DesiredMissing
<1>1. /\ queue \in Queues /\ ready \in Answers /\ cache.current \in Device
      /\ cache.desired \in Device /\ b \in Seq(Device)
      /\ lastConsumed \in Device \union {NoDevice}
  BY ConstantsAssumption, Zenon DEF TypeOK, Queues, Answers
<1>2. ReadsDesired => disk.desired = cache.desired
  BY <1>0, Zenon DEF FilesInv, Dormant
<1>3. /\ cache' = cache /\ publisher'.known = publisher.known /\ publisher'.buffer = <<>>
  BY <1>0, <1>2, Zenon DEF TypeOK
<1>4. /\ cache.desired.version <= Top /\ Top <= publisher.known
      /\ InOrder(b, Top, publisher.known)
      /\ Top \in Nat /\ publisher.known \in Nat /\ cache.desired.version \in Nat
  BY <1>0, OrderTypes, Zenon DEF OrderInv, Dormant
<1>5. ASSUME s \in Seq(Device), last \in Device, Top <= last.version, last.version <= publisher.known,
             \A i \in 1 .. Len(s) : /\ cache.desired.version <= s[i].version
                                    /\ s[i].version <= last.version
      PROVE  OrderInv'
  <2> HIDE DEF s, last
  <2>1. \/ queue'.item = queue.item
        \/ \E i \in 1 .. Len(s) : queue'.item = s[i]
    BY <1>0, <1>1, <1>5, AddAllFacts, Zenon
  <2>2. \/ queue'.item = queue.item
        \/ /\ cache.desired.version <= queue'.item.version
           /\ queue'.item.version <= lastConsumed'.version
    BY <1>0, <1>5, <2>1, Zenon
  <2> QED BY <1>0, <1>3, <1>5, <2>2, OrderConsumed, Zenon
<1>6. CASE b # <<>>
  <2>1. s = b /\ last = b[Len(b)] /\ Len(b) \in 1 .. Len(b)
    BY <1>1, <1>6
  <2>2. last \in Device /\ last.version \in Nat
    BY <1>1, <2>1, DeviceFacts
  <2>3. Top <= last.version /\ last.version <= publisher.known
    BY <1>4, <2>1, Zenon DEF InOrder
  <2>4. ASSUME NEW i \in 1 .. Len(b)
        PROVE  cache.desired.version <= b[i].version /\ b[i].version <= last.version
    <3>1. Len(b) \in i .. Len(b) /\ b[i].version \in Nat
      BY <1>1, <2>1, DeviceFacts
    <3>2. Top <= b[i].version /\ b[i].version <= b[Len(b)].version
      BY <1>4, <3>1, Zenon DEF InOrder
    <3> QED BY <1>4, <2>1, <3>1, <3>2
  <2> HIDE DEF s, last
  <2> QED BY <1>1, <1>5, <2>1, <2>2, <2>3, <2>4, Zenon
<1>7. CASE b = <<>> /\ ConsumeAgain
  <2>1. s = <<lastConsumed>> /\ last = lastConsumed /\ lastConsumed \in Device
    BY <1>1, <1>7, Zenon DEF ConsumeAgain
  <2>2. Top = lastConsumed.version
    BY <1>7, Zenon DEF Top, ConsumeAgain
  <2> HIDE DEF s, last
  <2> QED BY <1>4, <1>5, <2>1, <2>2, OneElement
<1>8. CASE b = <<>> /\ ~ConsumeAgain
  <2>1. /\ s = <<cache.desired>> /\ disk.desired = cache.desired
        /\ last = IF lastConsumed = NoDevice THEN cache.desired ELSE lastConsumed
    BY <1>2, <1>8, Zenon DEF ReadsDesired
  <2>2. last \in Device /\ last.version = Top
    BY <1>1, <2>1, Zenon DEF Top
  <2> HIDE DEF s, last
  <2> QED BY <1>1, <1>4, <1>5, <2>1, <2>2, OneElement
<1> QED BY <1>6, <1>7, <1>8, Zenon

LEMMA OrderTakeNext ==
  ASSUME AgentInv, OrderInv, NEW ready \in PolicyOutcomes, TakeNext(ready)
  PROVE  OrderInv'
<1> USE DEF AgentInv
<1> DEFINE d == queue.item
<1>0. pc = "next" /\ UNCHANGED <<server, lastConsumed, publisher>> /\ lastConsumed # NoDevice
  BY Zenon DEF TakeNext, OrderInv
<1>1. CASE pc' = "idle" /\ queue'.item = d /\ cache' = cache
  BY <1>0, <1>1, OrderQuiet, Zenon DEF Dormant
<1>2. CASE pc' \in {"idle", "prepare"} /\ queue'.item = NoDevice /\ cache' = cache
  BY <1>0, <1>2, OrderQuiet, Zenon DEF Dormant
<1>3. CASE /\ pc' = "prepare" /\ d \in Device /\ queue'.item = NoDevice
           /\ cache' = [cache EXCEPT !.desired = d]
  <2>1. cache'.desired = d /\ d.version <= Top /\ Top <= publisher.known
        /\ publisher.known <= server.version /\ InOrder(publisher.buffer, Top, publisher.known)
    BY <1>0, <1>3, Zenon DEF OrderInv, Dormant, TypeOK
  <2>2. Top' = Top /\ Top \in Nat /\ NoDevice.version = -1
    BY <1>0, OrderTypes, DeviceFacts, Zenon DEF Top
  <2>3. InOrder(publisher.buffer, Top, publisher.known)'
    BY <1>0, <2>1, <2>2, Zenon DEF InOrder
  <2> QED BY <1>0, <1>3, <2>1, <2>2, <2>3 DEF OrderInv, Dormant
<1> QED BY <1>1, <1>2, <1>3, TakeNextCases, Zenon

\* The error path of a phase queues nothing.
LEMMA FailKeepsQueueEmpty ==
  ASSUME AgentInv, NEW isFatal, pc \in Syncing, Fail(isFatal)
  PROVE  queue'.item = NoDevice /\ pc' \in {"idle", "failing"}
<1> USE DEF AgentInv
<1>1. queue.item = NoDevice /\ queue \in Queues /\ cache.desired \in Device
  BY Zenon DEF QueueInv, TypeOK, Queues
<1>2. MarkDesiredFailed(queue).item = NoDevice
  BY <1>1, SetFailedFacts, DeviceFacts DEF MarkDesiredFailed
<1> QED BY <1>1, <1>2, Zenon DEF Fail

LEMMA OrderPhases ==
  ASSUME AgentInv, OrderInv,
         \/ \E kind \in {"retry", "fatal"} : PhaseFails(kind)
         \/ DesiredUnreadable \/ BeforeUpdate \/ PrefetchNotReady \/ SyncDevice
  PROVE  OrderInv'
<1>0. pc \in Syncing /\ UNCHANGED <<server, cache, lastConsumed, publisher>>
  BY Zenon DEF PhaseFails, DesiredUnreadable, BeforeUpdate, PrefetchNotReady, SyncDevice, Syncing, memory
<1>1. queue.item = NoDevice
  BY <1>0, Zenon DEF AgentInv, QueueInv
<1>2. ASSUME NEW isFatal, Fail(isFatal) PROVE OrderInv'
  <2>1. queue'.item = NoDevice /\ pc' \in {"idle", "failing"}
    BY <1>0, <1>2, FailKeepsQueueEmpty, Zenon
  <2> QED BY <1>0, <2>1, OrderQuiet, Zenon DEF Syncing, Dormant
<1>3. CASE queue' = queue /\ pc' \in {"apply", "truncate", "idle", "after"}
  BY <1>0, <1>1, <1>3, OrderQuiet, Zenon DEF Syncing, Dormant
<1>4. ASSUME NEW kind \in {"retry", "fatal"}, PhaseFails(kind) PROVE OrderInv'
  BY <1>2, <1>4, Zenon DEF PhaseFails
<1>5. CASE DesiredUnreadable
  BY <1>2, <1>5, Zenon DEF DesiredUnreadable
<1>6. CASE BeforeUpdate
  BY <1>2, <1>3, <1>6, Zenon DEF BeforeUpdate
<1>7. CASE PrefetchNotReady
  BY <1>3, <1>7, Zenon DEF PrefetchNotReady
<1>8. CASE SyncDevice
  BY <1>3, <1>8, Zenon DEF SyncDevice, memory
<1> QED BY <1>4, <1>5, <1>6, <1>7, <1>8, Zenon

LEMMA OrderCommit ==
  ASSUME AgentInv, OrderInv, AfterUpdate \/ CreateRollback \/ Upgrade \/ ClearRollback
  PROVE  OrderInv'
<1>0. /\ pc \in Syncing /\ pc' \in {"idle", "staged", "done", "reboot", "clear"}
      /\ UNCHANGED <<server, lastConsumed, publisher>>
  BY Zenon DEF AfterUpdate, CreateRollback, Upgrade, ClearRollback, Syncing, memory
<1>1. cache'.desired = cache.desired
  BY Zenon DEF AgentInv, TypeOK, AfterUpdate, CreateRollback, Upgrade, ClearRollback, memory
<1>2. queue'.item \in {queue.item, NoDevice}
  BY Zenon DEF AgentInv, TypeOK, AfterUpdate, CreateRollback, Upgrade, ClearRollback, memory
<1> QED BY <1>0, <1>1, <1>2, OrderQuiet, Zenon DEF Syncing, Dormant

\* Rollback puts the current spec into the queue and makes it the desired one.
LEMMA OrderRollback ==
  ASSUME AgentInv, OrderInv,
         \/ RollbackDevice \/ RollbackHookFails \/ TruncateDesired \/ Resync
         \/ RebootIntoRollbackOS
         \/ \E ready \in PolicyOutcomes : CopyCurrent(ready)
  PROVE  OrderInv'
<1> USE DEF AgentInv
<1>1. CASE RollbackDevice \/ RollbackHookFails \/ TruncateDesired \/ Resync
  <2>1. /\ pc \in RollingBack /\ pc' \in {"osRollback", "truncate", "copy", "idle"}
        /\ UNCHANGED <<server, cache, queue, lastConsumed, publisher>>
        /\ pc' # "idle" => pc \in {"failing", "osRollback", "truncate", "copy"}
    BY <1>1, Zenon DEF RollbackDevice, RollbackHookFails, TruncateDesired, Resync, memory, RollingBack
  <2>2. pc' # "idle" => queue.item = NoDevice
    BY <2>1, Zenon DEF OrderInv
  <2> QED BY <2>1, <2>2, OrderQuiet, Zenon DEF RollingBack, Dormant
<1>2. CASE RebootIntoRollbackOS
  <2>1. CASE Stop BY <1>2, <2>1, OrderStop, Zenon DEF RebootIntoRollbackOS
  <2>2. CASE pc' = "idle" /\ UNCHANGED memory
    BY <1>2, <2>2, OrderQuiet, Zenon DEF RebootIntoRollbackOS, memory, Dormant
  <2> QED BY <1>2, <2>1, <2>2, Zenon DEF RebootIntoRollbackOS
<1>3. ASSUME NEW ready \in PolicyOutcomes, CopyCurrent(ready) PROVE OrderInv'
  <2>0. /\ pc = "copy" /\ pc' \in {"resync", "idle"}
        /\ queue' = Add(queue, disk.current, ready, cache.current)
        /\ cache'.desired = disk.current
        /\ UNCHANGED <<server, lastConsumed, publisher>>
    BY <1>3, Zenon DEF CopyCurrent, TypeOK
  <2>1. /\ disk.current = cache.current /\ disk.current \in Device /\ cache.desired \in Device
        /\ queue \in Queues /\ ready \in Answers
        /\ cache.desired.version >= cache.current.version
    BY <2>0, ConstantsAssumption, Zenon DEF FilesInv, Dormant, TypeOK, Queues, Answers
  <2>2. queue.item = NoDevice
    BY <2>0, Zenon DEF OrderInv
  <2>3. queue'.item \in {NoDevice, disk.current}
    BY <2>0, <2>1, <2>2, AddFacts, SMTT(60)
  <2>4. /\ disk.current.version \in Nat /\ cache.desired.version \in Nat /\ NoDevice.version = -1
        /\ Top \in Nat /\ publisher.known \in Nat
    BY <2>1, DeviceFacts, OrderTypes, Zenon
  <2>5. /\ cache.desired.version <= Top /\ Top <= publisher.known
        /\ InOrder(publisher.buffer, Top, publisher.known) /\ publisher.known <= server.version
    BY <2>0, Zenon DEF OrderInv, Dormant
  <2>6. Top' \in {Top, disk.current.version}
    BY <2>0, Zenon DEF Top
  <2>7. Top' \in Nat /\ Top' <= Top /\ disk.current.version <= Top'
    BY <2>1, <2>4, <2>5, <2>6, SMTT(60)
  <2>8. InOrder(publisher.buffer, Top, publisher.known)'
    <3>1. \A i \in 1 .. Len(publisher.buffer) : publisher.buffer[i].version \in Nat
      BY OrderTypes, Zenon
    <3> QED BY <2>0, <2>4, <2>5, <2>7, <3>1 DEF InOrder
  <2>9. /\ cache'.desired.version <= Top' /\ queue'.item.version <= Top'
        /\ Top' <= publisher'.known
        /\ queue'.item = NoDevice \/ queue'.item.version >= cache'.desired.version
    BY <2>0, <2>3, <2>4, <2>5, <2>7
  <2> QED BY <2>0, <2>5, <2>8, <2>9, Zenon DEF OrderInv, Dormant
<1> QED BY <1>1, <1>2, <1>3, Zenon

LEMMA OrderEnds ==
  ASSUME AgentInv, OrderInv,
         \/ LoadFails \/ MissingSpec \/ Reboot \/ Crash \/ PowerCycle \/ BootFails
         \/ \E f \in {"current", "desired", "rollback"} : DropFile(f)
  PROVE  OrderInv'
<1>1. CASE LoadFails \/ MissingSpec \/ Reboot \/ Crash \/ PowerCycle \/ BootFails
  BY <1>1, OrderStop, Zenon DEF LoadFails, MissingSpec, Reboot, Crash, PowerCycle, BootFails
<1>2. ASSUME NEW f \in {"current", "desired", "rollback"}, DropFile(f) PROVE OrderInv'
  <2>1. pc \in {"off", "idle"} /\ UNCHANGED <<server, pc, cache, queue, lastConsumed, publisher>>
    BY <1>2, Zenon DEF DropFile, memory
  <2>2. Top' = Top
    BY <2>1, Zenon DEF Top
  <2> QED BY <2>1, <2>2, Zenon DEF OrderInv, InOrder, Dormant
<1> QED BY <1>1, <1>2, Zenon

\* What is polled, consumed, queued and applied stays in the order of the versions.
THEOREM VersionsInOrder == Spec => []OrderInv
<1>1. Init => OrderInv
  BY DeviceFacts DEF Init, OrderInv, Dormant, Zero
<1>2. AgentInv /\ OrderInv /\ [Next]_vars => OrderInv'
  <2> SUFFICES ASSUME AgentInv, OrderInv, [Next]_vars PROVE OrderInv'
    BY Zenon
  <2>1. CASE (\E c \in Contents : Publish(c)) \/ Poll \/ BootSucceeds
               \/ (\E v \in Versions : BackoffElapses(v))
    BY <2>1, OrderService, Zenon
  <2>2. CASE Start \/ EnsureResets \/ BootOS
    BY <2>2, OrderStart, OrderBootOS, Zenon
  <2>3. ASSUME NEW ready \in PolicyOutcomes,
               Load(ready) \/ Consume(ready) \/ TakeNext(ready) \/ CopyCurrent(ready)
        PROVE  OrderInv'
    BY <2>3, OrderLoad, OrderConsume, OrderTakeNext, OrderRollback, Zenon
  <2>4. CASE DesiredUnreadable \/ BeforeUpdate \/ SyncDevice
    BY <2>4, OrderPhases, Zenon
  <2>5. CASE AfterUpdate \/ CreateRollback \/ Upgrade \/ ClearRollback
    BY <2>5, OrderCommit, Zenon
  <2>6. CASE RollbackDevice \/ TruncateDesired \/ Resync \/ RebootIntoRollbackOS
    BY <2>6, OrderRollback, Zenon
  <2>7. CASE LoadFails \/ MissingSpec \/ Reboot
    BY <2>7, OrderEnds, Zenon
  <2>8. CASE Faults
    BY <2>8, OrderPhases, OrderRollback, OrderEnds, Zenon DEF Faults
  <2>9. CASE UNCHANGED vars
    BY <2>9, OrderSame, Zenon DEF vars, memory
  <2> QED BY <2>1, <2>2, <2>3, <2>4, <2>5, <2>6, <2>7, <2>8, <2>9, Zenon DEF Next, AgentStep
<1> QED BY <1>1, <1>2, AgentInvariant, PTL DEF Spec

\* The queue never offers an older version than the one being applied, so the guard of
\* getDeviceFromQueue against older versions is never needed.
THEOREM QueueFollowsDesired == Spec => []QueueNotOlder
<1>1. OrderInv => QueueNotOlder
  BY Zenon DEF OrderInv, QueueNotOlder, Dormant
<1> QED BY <1>1, VersionsInOrder, PTL

-----------------------------------------------------------------------------
(* A version whose image did not come up is not tried again. *)

\* The booted image is the one rollback.json goes back to, and no other is waiting.
Rejected == os.staged = NoImage /\ os.booted = disk.rollback.image

\* rollback.json names a version, and no file was ever removed.
Recorded == faults["drop"] = 0 /\ disk.rollback.version > 0

Whole == disk.current # Missing /\ disk.desired # Missing

\* The booted image has a name, and so has the one a boot on trial goes back to.
BootInv == os.booted # NoImage /\ (os.ok \/ os.previous # NoImage)

\* CreateRollback runs when another image than the booted one is staged.
StagedInv ==
  pc = "staged" => /\ os.staged # NoImage /\ ShouldApplyOSImageUpdate
                   /\ OsImage(cache.desired) \notin {NoImage, os.booted}
                   /\ disk.current = cache.current

\* Between the current version and the one rollback.json names there is no other.
Apart ==
  /\ server.version >= disk.rollback.version
  /\ \A x \in Known :
       /\ x.version >= disk.rollback.version \/ x.version <= disk.current.version
       /\ x.version = disk.rollback.version => x.content = disk.rollback.content

\* The version rollback.json names comes with an image of its own.
NewImage ==
  disk.rollback.version > disk.current.version =>
    /\ disk.rollback.content # Empty
    /\ Image[disk.rollback.content] \notin {NoImage, disk.rollback.image, OsImage(disk.current)}

\* checkRollback has marked a rejected version as failed, or it will not come back.
Refused ==
  Rejected /\ pc \notin Dormant \union {"bootOS"} =>
    \/ disk.rollback.version \in queue.versions
    \/ disk.current.version >= disk.rollback.version
    \/ \A x \in Known : x.version # disk.rollback.version

RejectInv ==
  /\ BootInv /\ StagedInv
  /\ pc = "bootOS" => publisher.buffer = <<>> /\ lastConsumed = NoDevice
  /\ faults["drop"] = 0 /\ pc \notin Dormant => Whole
  /\ Recorded => /\ Whole /\ pc \notin {"resetCurrent", "resetDesired", "resetRollback"}
                 /\ Apart /\ NewImage /\ Refused

LEMMA RecordTypes ==
  ASSUME TypeOK
  PROVE  /\ Known \subseteq Device \union {NoDevice, Truncated}
         /\ \A x \in Known : x.version \in Int
         /\ disk.rollback.version \in Int /\ server.version \in Nat
         /\ disk.current.version \in Int
         /\ disk.current # Missing => disk.current \in Device /\ disk.current.version \in Nat
<1>1. Known \subseteq Device \union {NoDevice, Truncated}
  BY DEF TypeOK, Known, Polled, Missing
<1>2. \A x \in Known : x.version \in Int
  BY <1>1, DeviceFacts, Zenon
<1>3. disk.current # Missing => disk.current \in Device
  BY Zenon DEF TypeOK
<1>4. disk.current \in Known /\ server \in Device
  BY Zenon DEF Known, TypeOK
<1> QED BY <1>1, <1>2, <1>3, <1>4, RollbackTypes, DeviceFacts, Zenon

\* What rollback.json says stays right when nothing newer becomes known than what the
\* service renders next.
LEMMA ApartKept ==
  ASSUME TypeOK, Apart, disk.rollback.version > 0, disk.current # Missing,
         disk'.rollback = disk.rollback, disk'.current = disk.current,
         server' \in Device, server' = server \/ server'.version > server.version,
         Known' \subseteq Known \union {Zero, NoDevice, Truncated, server'}
  PROVE  /\ Apart'
         /\ (\A x \in Known : x.version # disk.rollback.version)
              => server' = server \/ server'.version # disk.rollback.version
         /\ (\A x \in Known : x.version # disk.rollback.version)
              => (\A x \in Known' : x.version # disk.rollback.version)
<1> DEFINE v == disk.rollback.version
           c == disk.rollback.content
           w == disk.current.version
<1>1. v \in Int /\ v > 0 /\ w \in Nat /\ server.version \in Nat /\ server'.version \in Nat
  BY RecordTypes, DeviceFacts, Zenon
<1>2. \A x \in {Zero, NoDevice, Truncated} : x.version \in Int /\ x.version <= 0
  BY DeviceFacts
<1>3. server.version >= v /\ server'.version >= v /\ server \in Known
  BY <1>1 DEF Apart, Known
<1>4. server' = server \/ server'.version > v
  BY <1>1, <1>3
<1>5. \A x \in Known : /\ x.version \in Int /\ (x.version >= v \/ x.version <= w)
                       /\ (x.version = v => x.content = c)
  BY RecordTypes, Zenon DEF Apart
<1>6. ASSUME NEW x \in Known'
      PROVE  /\ x.version >= v \/ x.version <= w
             /\ x.version = v => x.content = c
             /\ x \in Known \/ x.version # v
  <2>1. CASE x \in Known BY <1>5, <2>1, Zenon
  <2>2. CASE x \in {Zero, NoDevice, Truncated} BY <1>1, <1>2, <2>2
  <2>3. CASE x = server' /\ server' # server BY <1>1, <1>4, <2>3
  <2> QED BY <1>3, <2>1, <2>2, <2>3, Zenon
<1>7. disk'.rollback.version = v /\ disk'.rollback.content = c /\ disk'.current.version = w
  BY Zenon
<1>8. Apart'
  BY <1>3, <1>6, <1>7, Zenon DEF Apart
<1> QED BY <1>1, <1>3, <1>4, <1>6, <1>8

LEMMA RecordKept ==
  ASSUME TypeOK, RejectInv, Recorded,
         disk'.rollback = disk.rollback, disk'.current = disk.current,
         server' \in Device, server' = server \/ server'.version > server.version,
         Known' \subseteq Known \union {Zero, NoDevice, Truncated, server'},
         \/ pc' \in Dormant \union {"bootOS"}
         \/ /\ pc \notin Dormant \union {"bootOS"} /\ queue.versions \subseteq queue'.versions
            /\ Rejected' => Rejected
  PROVE  Apart' /\ NewImage' /\ Refused'
<1>1. /\ Whole /\ Apart /\ NewImage /\ Refused /\ disk.rollback.version > 0
      /\ disk.current # Missing
  BY Zenon DEF RejectInv, Recorded, Whole
<1>2. /\ Apart'
      /\ (\A x \in Known : x.version # disk.rollback.version)
           => (\A x \in Known' : x.version # disk.rollback.version)
  BY <1>1, ApartKept, Zenon
<1>3. NewImage'
  BY <1>1, Zenon DEF NewImage, OsImage
<1>4. Refused'
  <2>1. CASE pc' \in Dormant \union {"bootOS"}
    BY <2>1, Zenon DEF Refused
  <2>2. CASE pc \notin Dormant \union {"bootOS"} /\ queue.versions \subseteq queue'.versions
             /\ (Rejected' => Rejected)
    BY <1>1, <1>2, <2>2, Zenon DEF Refused
  <2> QED BY <2>1, <2>2, Zenon
<1> QED BY <1>2, <1>3, <1>4, Zenon

\* The process ends.
LEMMA RejectStop ==
  ASSUME AgentInv, RejectInv, Stop, UNCHANGED <<server, disk>>,
         faults'["drop"] = faults["drop"], BootInv'
  PROVE  RejectInv'
<1>1. TypeOK /\ server \in Device /\ pc' = "off"
  BY Zenon DEF AgentInv, TypeOK, Stop
<1>2. Known' \subseteq Known \union {Zero, NoDevice, Truncated, server'}
  <2>1. Polled' = {}
    BY DEF Stop, Polled
  <2>2. queue'.item = NoDevice /\ cache'.current = Zero /\ cache'.desired = Zero
        /\ lastConsumed' = NoDevice
    <3>1. /\ queue' = EmptyQueue /\ cache'.current = Zero /\ cache'.desired = Zero
          /\ lastConsumed' = NoDevice
      BY Zenon DEF Stop
    <3> QED BY <3>1, EmptyQueueFacts, Zenon
  <2> QED BY <2>1, <2>2, Zenon DEF Known
<1>3. Recorded' => Recorded /\ Whole
  BY Zenon DEF Recorded, RejectInv
<1>4. Recorded' => Apart' /\ NewImage' /\ Refused'
  BY <1>1, <1>2, <1>3, RecordKept, Zenon DEF Dormant
<1>5. Whole' = Whole
  BY Zenon DEF Whole
<1> QED BY <1>1, <1>3, <1>4, <1>5, Zenon DEF RejectInv, StagedInv, Dormant

\* The process goes on and leaves rollback.json and the images alone.
LEMMA RejectRun ==
  ASSUME AgentInv, RejectInv, UNCHANGED <<server, os>>, disk'.rollback = disk.rollback,
         disk'.current = disk.current, disk'.desired # Missing \/ disk'.desired = disk.desired,
         faults'["drop"] = faults["drop"], queue.versions \subseteq queue'.versions,
         Known' \subseteq Known \union {Zero, NoDevice, Truncated},
         pc \notin Dormant \union {"bootOS"}, pc' \notin Dormant \union {"bootOS", "staged"}
  PROVE  RejectInv'
<1>1. TypeOK /\ server \in Device
  BY Zenon DEF AgentInv, TypeOK
<1>2. Recorded' => Recorded
  BY Zenon DEF Recorded
<1>3. Rejected' => Rejected
  BY Zenon DEF Rejected
<1>4. Recorded' => Apart' /\ NewImage' /\ Refused'
  BY <1>1, <1>2, <1>3, RecordKept, Zenon
<1>5. Whole => Whole'
  BY Zenon DEF Whole
<1>6. BootInv' /\ StagedInv'
  BY Zenon DEF RejectInv, BootInv, StagedInv
<1> QED BY <1>2, <1>4, <1>5, <1>6, Zenon DEF RejectInv, Dormant

\* The process does nothing.
LEMMA RejectSame ==
  ASSUME AgentInv, RejectInv, UNCHANGED <<pc, disk, cache>>, server' \in Device,
         server' = server \/ server'.version > server.version, BootInv',
         os'.booted = os.booted, os'.staged = os.staged,
         faults'["drop"] = faults["drop"], queue'.versions = queue.versions,
         Known' \subseteq Known \union {server'},
         pc = "bootOS" => UNCHANGED <<publisher, lastConsumed>>
  PROVE  RejectInv'
<1>1. TypeOK
  BY Zenon DEF AgentInv
<1>2. Recorded' => Recorded
  BY Zenon DEF Recorded
<1>3. Rejected' => Rejected
  BY Zenon DEF Rejected
<1>4. Recorded' => Apart' /\ NewImage' /\ Refused'
  BY <1>1, <1>2, <1>3, RecordKept, Zenon
<1>5. Whole' = Whole
  BY Zenon DEF Whole
<1>6. StagedInv'
  BY Zenon DEF RejectInv, StagedInv, ShouldApplyOSImageUpdate, OsImage
<1> QED BY <1>2, <1>4, <1>5, <1>6, Zenon DEF RejectInv

LEMMA KnownKept ==
  ASSUME UNCHANGED <<server, disk, cache, lastConsumed, publisher>>,
         queue'.item \in Known \union {NoDevice}
  PROVE  Known' \subseteq Known \union {NoDevice}
BY Zenon DEF Known, Polled

\* Only DropFile counts removed files.
LEMMA DropsKept ==
  ASSUME TypeOK, NEW kind \in FaultKinds \ {"drop"}, Fault(kind)
  PROVE  faults'["drop"] = faults["drop"]
BY Zenon DEF Fault, TypeOK, FaultKinds

LEMMA RejectService ==
  ASSUME AgentInv, RejectInv,
         \/ \E c \in Contents : Publish(c)
         \/ Poll \/ BootSucceeds \/ \E v \in Versions : BackoffElapses(v)
  PROVE  RejectInv'
<1> USE DEF AgentInv
<1>0. BootInv /\ server \in Device
  BY Zenon DEF RejectInv, TypeOK
<1>1. ASSUME NEW c \in Contents, Publish(c) PROVE RejectInv'
  <2>1. UNCHANGED <<disk, os, pc, cache, queue, lastConsumed, publisher, faults>>
    BY <1>1, Zenon DEF Publish, memory
  <2>2. server' \in Device /\ server'.version > server.version
    BY <1>0, <1>1, ConstantsAssumption, DeviceFacts DEF Publish, Versions, Device
  <2>3. Known' \subseteq Known \union {server'}
    BY <2>1, Zenon DEF Known, Polled
  <2>4. BootInv'
    BY <1>0, <2>1, Zenon DEF BootInv
  <2> QED BY <2>1, <2>2, <2>3, <2>4, RejectSame, Zenon
<1>2. CASE Poll
  <2>1. /\ UNCHANGED <<server, disk, os, pc, cache, queue, lastConsumed, faults>>
        /\ pc # "bootOS"
    BY <1>2, Zenon DEF Poll, Booting
  <2>2. \A i \in 1 .. Len(publisher'.buffer) :
          publisher'.buffer[i] = server
            \/ \E k \in 1 .. Len(publisher.buffer) : publisher'.buffer[i] = publisher.buffer[k]
    <3>1. publisher.buffer \in Seq(Device) /\ Len(publisher.buffer) <= 3 /\ server \in Device
      BY <1>0, Zenon DEF TypeOK
    <3>2. publisher'.buffer = Append(IF Len(publisher.buffer) = 3 THEN Tail(publisher.buffer)
                                                                 ELSE publisher.buffer, server)
      BY <1>2, Zenon DEF Poll
    <3> DEFINE b == Append(IF Len(publisher.buffer) = 3 THEN Tail(publisher.buffer)
                                                        ELSE publisher.buffer, server)
    <3>3. \A i \in 1 .. Len(b) :
            b[i] = server \/ \E k \in 1 .. Len(publisher.buffer) : b[i] = publisher.buffer[k]
      BY <3>1, RingBuffer, Zenon
    <3>4. publisher'.buffer = b
      BY <3>2, Zenon
    <3> HIDE DEF b
    <3> QED BY <3>3, <3>4, Zenon
  <2>3. Polled' \subseteq Polled \union {server}
    BY <2>2, Zenon DEF Polled
  <2>4. Known' \subseteq Known \union {server'}
    BY <2>1, <2>3, Zenon DEF Known
  <2>5. BootInv'
    BY <1>0, <2>1, Zenon DEF BootInv
  <2> QED BY <1>0, <2>1, <2>4, <2>5, RejectSame, Zenon
<1>3. CASE BootSucceeds
  <2>1. /\ UNCHANGED <<server, disk, pc, cache, queue, lastConsumed, publisher, faults>>
        /\ os'.booted = os.booted /\ os'.staged = os.staged /\ os'.ok
    BY <1>3, Zenon DEF BootSucceeds, memory, TypeOK
  <2>2. Known' = Known
    BY <2>1, Zenon DEF Known, Polled
  <2>3. BootInv'
    BY <1>0, <2>1, Zenon DEF BootInv
  <2> QED BY <1>0, <2>1, <2>2, <2>3, RejectSame, Zenon
<1>4. ASSUME NEW v \in Versions, BackoffElapses(v) PROVE RejectInv'
  <2>1. UNCHANGED <<server, disk, os, pc, cache, lastConsumed, publisher, faults>>
    BY <1>4, Zenon DEF BackoffElapses
  <2>2. queue'.item = queue.item /\ queue'.versions = queue.versions
    BY <1>4, Zenon DEF BackoffElapses, TypeOK
  <2>3. Known' = Known
    BY <2>1, <2>2, Zenon DEF Known, Polled
  <2>4. BootInv'
    BY <1>0, <2>1, Zenon DEF BootInv
  <2> QED BY <1>0, <2>1, <2>2, <2>3, <2>4, RejectSame, Zenon
<1> QED BY <1>1, <1>2, <1>3, <1>4, Zenon

LEMMA RejectPhases ==
  ASSUME AgentInv, RejectInv,
         \/ \E kind \in {"retry", "fatal"} : PhaseFails(kind)
         \/ DesiredUnreadable \/ BeforeUpdate \/ PrefetchNotReady \/ SyncDevice
  PROVE  RejectInv'
<1>0. /\ pc \in Syncing /\ UNCHANGED <<server, disk, os, cache, lastConsumed, publisher>>
  BY Zenon DEF PhaseFails, DesiredUnreadable, BeforeUpdate, PrefetchNotReady, SyncDevice,
               Syncing, memory
<1>1. faults'["drop"] = faults["drop"]
  <2>1. TypeOK /\ {"retry", "fatal", "prefetch"} \subseteq FaultKinds \ {"drop"}
    BY Zenon DEF AgentInv, FaultKinds
  <2> QED BY <2>1, DropsKept, Zenon DEF PhaseFails, DesiredUnreadable, BeforeUpdate,
                                        PrefetchNotReady, SyncDevice
<1>2. ASSUME NEW isFatal, Fail(isFatal)
      PROVE  /\ queue.versions \subseteq queue'.versions /\ queue'.item = NoDevice
             /\ pc' \in {"idle", "failing"}
  <2>1. queue'.item = NoDevice /\ pc' \in {"idle", "failing"}
    BY <1>0, <1>2, FailKeepsQueueEmpty, Zenon
  <2>2. queue.versions \subseteq MarkDesiredFailed(queue).versions
    BY Zenon DEF MarkDesiredFailed, SetFailed, AgentInv, TypeOK
  <2> QED BY <1>2, <2>1, <2>2, Zenon DEF Fail
<1>3. /\ queue.versions \subseteq queue'.versions /\ queue'.item \in Known \union {NoDevice}
      /\ pc' \in {"idle", "failing", "apply", "truncate", "after"}
  <2>1. CASE \E isFatal : Fail(isFatal)
    BY <1>2, <2>1, Zenon
  <2>2. CASE queue' = queue /\ pc' \in {"apply", "truncate", "idle", "after"}
    BY <2>2, Zenon DEF Known
  <2> QED BY <2>1, <2>2, Zenon DEF PhaseFails, DesiredUnreadable, BeforeUpdate, PrefetchNotReady,
                                   SyncDevice, memory
<1>4. Known' \subseteq Known \union {NoDevice}
  BY <1>0, <1>3, KnownKept, Zenon
<1>5. pc \notin Dormant \union {"bootOS"} /\ pc' \notin Dormant \union {"bootOS", "staged"}
  BY <1>0, <1>3, Zenon DEF Syncing, Dormant
<1> QED BY <1>0, <1>1, <1>3, <1>4, <1>5, RejectRun, Zenon

LEMMA RejectQueue ==
  ASSUME AgentInv, RejectInv, NEW ready \in PolicyOutcomes,
         Consume(ready) \/ TakeNext(ready) \/ CopyCurrent(ready)
  PROVE  RejectInv'
<1> USE DEF AgentInv
<1>0. queue \in Queues /\ ready \in Answers /\ cache.current \in Device
  BY ConstantsAssumption, Zenon DEF TypeOK, Queues, Answers
<1>1. CASE Consume(ready)
  <2>1. /\ pc = "idle" /\ pc' = "next" /\ UNCHANGED <<server, disk, os, faults>>
        /\ publisher'.buffer = <<>>
    BY <1>1, Zenon DEF Consume, TypeOK
  <2>2. lastConsumed' \in Known /\ cache' = cache
    BY <1>1, ConsumedDevices, Zenon
  <2>3. PICK s \in Seq(Device) : /\ queue' = AddAll(queue, s, ready, cache.current)
                                 /\ \A i \in 1 .. Len(s) : s[i] \in Known
    BY <1>1, ConsumedDevices, Zenon
  <2>4. /\ queue'.versions = queue.versions
        /\ queue'.item = queue.item \/ \E i \in 1 .. Len(s) : queue'.item = s[i]
    BY <1>0, <2>3, AddAllFacts, Zenon
  <2>5. queue'.item \in Known
    BY <2>3, <2>4, Zenon DEF Known
  <2>6. Polled' = {}
    BY <2>1 DEF Polled
  <2>7. Known' \subseteq Known
    <3>1. {server, disk.current, disk.desired, cache.current, cache.desired} \subseteq Known
      BY Zenon DEF Known
    <3> QED BY <2>1, <2>2, <2>5, <2>6, <3>1, Zenon DEF Known
  <2> QED BY <2>1, <2>4, <2>7, RejectRun, Zenon DEF Dormant
<1>2. CASE TakeNext(ready)
  <2>1. /\ pc = "next" /\ UNCHANGED <<server, os, lastConsumed, publisher, faults>>
        /\ pc' \in {"idle", "prepare"} /\ queue'.versions = queue.versions
        /\ queue'.item \in {queue.item, NoDevice}
    BY <1>2, TakeNextCases, Zenon
  <2>2. CASE UNCHANGED <<disk, cache>>
    <3>1. Known' \subseteq Known \union {NoDevice}
      BY <2>1, <2>2, KnownKept, Zenon DEF Known
    <3> QED BY <2>1, <2>2, <3>1, RejectRun, Zenon DEF Dormant
  <2>3. CASE /\ queue.item \in Device /\ disk' = [disk EXCEPT !.desired = queue.item]
             /\ cache' = [cache EXCEPT !.desired = queue.item]
    <3>1. /\ disk'.desired = queue.item /\ disk'.current = disk.current
          /\ disk'.rollback = disk.rollback /\ cache'.desired = queue.item
          /\ cache'.current = cache.current
      BY <2>3, Zenon DEF TypeOK
    <3>2. disk'.desired # Missing
      BY <2>3, <3>1, DeviceFacts, Zenon DEF Missing
    <3>3. Polled' = Polled
      BY <2>1, Zenon DEF Polled
    <3>4. Known' \subseteq Known \union {NoDevice}
      BY <2>1, <3>1, <3>3, Zenon DEF Known
    <3> QED BY <2>1, <3>1, <3>2, <3>4, RejectRun, Zenon DEF Dormant
  <2> QED BY <1>2, <2>2, <2>3, TakeNextCases, Zenon
<1>3. CASE CopyCurrent(ready)
  <2>1. /\ pc = "copy" /\ pc' \in {"resync", "idle"}
        /\ UNCHANGED <<server, os, lastConsumed, publisher, faults>>
        /\ queue' = Add(queue, disk.current, ready, cache.current)
        /\ disk'.desired = disk.current /\ disk'.current = disk.current
        /\ disk'.rollback = disk.rollback /\ cache'.desired = disk.current
        /\ cache'.current = cache.current
    BY <1>3, Zenon DEF CopyCurrent, TypeOK
  <2>2. disk.current # Missing /\ disk.current \in Device
    BY <2>1, Zenon DEF FilesInv, TypeOK
  <2>3. queue'.versions = queue.versions /\ queue'.item \in {queue.item, disk.current}
    BY <1>0, <2>1, <2>2, AddFacts, Zenon
  <2>4. Polled' = Polled
    BY <2>1, Zenon DEF Polled
  <2>5. Known' \subseteq Known
    BY <2>1, <2>3, <2>4, Zenon DEF Known
  <2> QED BY <2>1, <2>2, <2>3, <2>5, RejectRun, Zenon DEF Dormant
<1> QED BY <1>1, <1>2, <1>3, Zenon

\* afterUpdateOS stages an image that is not the booted one.
LEMMA RejectAfterUpdate ==
  ASSUME AgentInv, CommitInv, RejectInv, AfterUpdate
  PROVE  RejectInv'
<1> USE DEF AgentInv
<1>0. /\ pc = "after" /\ UNCHANGED <<server, disk, cache, queue, lastConsumed, publisher, faults>>
      /\ disk.desired = cache.desired /\ disk.current = cache.current
  BY Zenon DEF AfterUpdate, memory, CommitInv, FilesInv, Dormant
<1>1. Known' = Known
  BY <1>0, Zenon DEF Known, Polled
<1>2. CASE pc' = "done" /\ UNCHANGED os
  BY <1>0, <1>1, <1>2, RejectRun, Zenon DEF Dormant
<1>3. CASE /\ ~OsReconciled /\ ShouldApplyOSImageUpdate /\ OsImage(cache.desired) # NoImage
           /\ os' = [os EXCEPT !.staged = OsImage(cache.desired)] /\ pc' = "staged"
  <2>1. /\ os'.staged = OsImage(cache.desired) /\ os'.booted = os.booted
        /\ os'.previous = os.previous /\ os'.ok = os.ok
    BY <1>3, Zenon DEF TypeOK
  <2>2. BootInv'
    BY <2>1, Zenon DEF RejectInv, BootInv
  <2>3. OsImage(cache.desired) # os.booted
    BY <1>0, <1>3, Zenon DEF OsReconciled
  <2>4. StagedInv'
    BY <1>0, <1>3, <2>1, <2>3, Zenon DEF StagedInv, ShouldApplyOSImageUpdate, OsImage
  <2>5. Rejected' => Rejected
    BY <1>3, <2>1, Zenon DEF Rejected
  <2>6. Recorded' => Recorded
    BY <1>0, Zenon DEF Recorded
  <2>7. server \in Device
    BY Zenon DEF TypeOK
  <2>8. Recorded' => Apart' /\ NewImage' /\ Refused'
    BY <1>0, <1>1, <2>5, <2>6, <2>7, RecordKept, Zenon DEF Dormant
  <2>9. Whole' = Whole
    BY <1>0, Zenon DEF Whole
  <2> QED BY <1>0, <1>3, <2>2, <2>4, <2>6, <2>8, <2>9, Zenon DEF RejectInv, Dormant
<1> QED BY <1>2, <1>3, Zenon DEF AfterUpdate

\* CreateRollback names the version that comes with the staged image: what is known is
\* either as old as the current version or as new as this one.
LEMMA RejectCreate ==
  ASSUME AgentInv, OrderInv, RejectInv, CreateRollback
  PROVE  RejectInv'
<1> USE DEF AgentInv
<1>0. /\ pc = "staged" /\ pc' = "reboot"
      /\ UNCHANGED <<server, os, cache, queue, lastConsumed, publisher, faults>>
      /\ disk'.current = disk.current /\ disk'.desired = disk.desired
      /\ disk'.rollback = [image |-> RollbackImage, version |-> cache.desired.version,
                           content |-> cache.desired.content]
  BY Zenon DEF CreateRollback, memory, TypeOK
<1>1. /\ os.staged # NoImage /\ ShouldApplyOSImageUpdate
      /\ OsImage(cache.desired) \notin {NoImage, os.booted} /\ disk.current = cache.current
  BY <1>0, Zenon DEF RejectInv, StagedInv
<1>2. BootInv' /\ StagedInv' /\ Whole' = Whole
  BY <1>0, Zenon DEF RejectInv, BootInv, StagedInv, Whole
<1>3. Refused'
  BY <1>0, <1>1, Zenon DEF Refused, Rejected
<1>4. NewImage'
  <2>1. cache.desired.content # Empty /\ OsImage(cache.desired) = Image[cache.desired.content]
    BY <1>1, Zenon DEF OsImage
  <2>2. RollbackImage \in {os.booted, OsImage(disk.current)}
    BY Zenon DEF RollbackImage
  <2>3. OsImage(disk'.current) = OsImage(cache.current)
    BY <1>0, <1>1, Zenon
  <2>4. OsImage(disk.current) = OsImage(cache.current)
    BY <1>1, Zenon
  <2>5. OsImage(cache.desired) \notin {NoImage, RollbackImage, OsImage(disk'.current)}
    BY <1>1, <2>2, <2>3, <2>4, Zenon DEF ShouldApplyOSImageUpdate
  <2>6. /\ disk'.rollback.content = cache.desired.content
        /\ disk'.rollback.image = RollbackImage
    BY <1>0
  <2> QED BY <2>1, <2>5, <2>6, Zenon DEF NewImage, OsImage
<1>5. faults["drop"] = 0 => Whole
  BY <1>0, Zenon DEF RejectInv, Dormant
<1>6. ASSUME Whole PROVE Apart'
  <2>1. disk.desired = cache.desired
    BY <1>0, <1>6, Zenon DEF Whole, FilesInv, Dormant
  <2>2. cache.desired.version >= cache.current.version
    BY <1>0, Zenon DEF FilesInv, Dormant
  <2>3. /\ server.version \in Nat /\ cache.desired.version \in Nat
        /\ cache.current.version \in Nat /\ Top \in Nat /\ NoDevice.version = -1
        /\ publisher.buffer \in Seq(Device) /\ Len(publisher.buffer) \in Nat
        /\ \A i \in 1 .. Len(publisher.buffer) : publisher.buffer[i].version \in Nat
    BY OrderTypes, DeviceFacts, Zenon
  <2>4. cache.desired \in Known /\ cache.desired.version <= server.version
    BY Zenon DEF Coherent, Known
  <2>5. queue.item = NoDevice
    BY <1>0, Zenon DEF QueueInv, Syncing
  <2>6. cache.desired.version <= Top /\ InOrder(publisher.buffer, Top, publisher.known)
    BY <1>0, Zenon DEF OrderInv, Dormant
  <2>7. \A x \in Polled : x.version >= cache.desired.version
    <3>1. \A i \in 1 .. Len(publisher.buffer) : Top <= publisher.buffer[i].version
      BY <2>6, Zenon DEF InOrder
    <3>2. \A i \in 1 .. Len(publisher.buffer) :
            publisher.buffer[i].version >= cache.desired.version
      BY <2>3, <2>6, <3>1
    <3> QED BY <3>2, Zenon DEF Polled
  <2>8. lastConsumed = NoDevice \/ lastConsumed.version >= cache.desired.version
    BY <2>3, <2>6, Zenon DEF Top
  <2>9. \A x \in Known : /\ \/ x.version >= cache.desired.version
                            \/ x.version <= disk.current.version
                         /\ x.version = cache.desired.version => x.content = cache.desired.content
    <3>1. ASSUME NEW x \in Known, x.version = cache.desired.version
          PROVE  x.content = cache.desired.content
      BY <2>4, <3>1, Zenon DEF Coherent
    <3>2. ASSUME NEW x \in Known
          PROVE  \/ x.version >= cache.desired.version
                 \/ x.version <= disk.current.version
      <4>1. CASE x \in Polled BY <2>7, <4>1, Zenon
      <4>2. CASE x \in {queue.item, lastConsumed}
        BY <1>1, <2>3, <2>5, <2>8, <4>2
      <4>3. CASE x \in {server, disk.current, disk.desired, cache.current, cache.desired}
        BY <1>1, <2>1, <2>3, <2>4, <4>3
      <4> QED BY <4>1, <4>2, <4>3, Zenon DEF Known
    <3> QED BY <3>1, <3>2, Zenon
  <2>10. Known' = Known
    <3>1. Polled' = Polled
      BY <1>0, Zenon DEF Polled
    <3> QED BY <1>0, <3>1, Zenon DEF Known
  <2>11. /\ disk'.rollback.version = cache.desired.version
         /\ disk'.rollback.content = cache.desired.content
    BY <1>0
  <2> QED BY <1>0, <2>3, <2>4, <2>9, <2>10, <2>11, Zenon DEF Apart
<1> QED BY <1>0, <1>2, <1>3, <1>4, <1>5, <1>6, Zenon DEF RejectInv, Recorded, Dormant

\* Upgrade commits the version rollback.json names, or a newer one.
LEMMA RejectUpgrade ==
  ASSUME AgentInv, CommitInv, RejectInv, Upgrade \/ ClearRollback
  PROVE  RejectInv'
<1> USE DEF AgentInv
<1>1. CASE Upgrade /\ pc' = "idle" /\ UNCHANGED <<disk, cache>>
  <2>1. pc = "done" /\ UNCHANGED <<server, os, queue, lastConsumed, publisher, faults>>
    BY <1>1, Zenon DEF Upgrade
  <2>2. Known' \subseteq Known \union {NoDevice}
    BY <1>1, <2>1, KnownKept, Zenon DEF Known
  <2> QED BY <1>1, <2>1, <2>2, RejectRun, Zenon DEF Dormant
<1>2. CASE Upgrade /\ ~(pc' = "idle" /\ UNCHANGED <<disk, cache>>)
  <2>1. /\ pc = "done" /\ pc' = "clear" /\ IsUpgrading
        /\ UNCHANGED <<server, os, queue, lastConsumed, publisher, faults>>
        /\ disk'.rollback = disk.rollback /\ disk'.desired = disk.desired
        /\ disk'.current = disk.desired /\ cache'.current = disk.desired
        /\ cache'.desired = cache.desired
    BY <1>2, Zenon DEF Upgrade, TypeOK
  <2>2. disk.desired = cache.desired /\ disk.current = cache.current /\ disk.desired # Missing
    BY <2>1, Zenon DEF FilesInv, CommitInv, Dormant
  <2>3. /\ disk.desired.version > disk.current.version
        /\ disk.desired.version \in Nat /\ disk.current.version \in Nat
    <3>1. cache.desired \in Device /\ cache.current \in Device
      BY Zenon DEF TypeOK
    <3>2. cache.desired.version >= cache.current.version
      BY <2>1, Zenon DEF FilesInv, Dormant
    <3> QED BY <2>1, <2>2, <3>1, <3>2, DeviceFacts DEF IsUpgrading
  <2>4. Known' \subseteq Known
    <3>1. Polled' = Polled
      BY <2>1, Zenon DEF Polled
    <3> QED BY <2>1, <3>1, Zenon DEF Known
  <2>5. BootInv' /\ StagedInv' /\ Whole'
    BY <2>1, <2>2, Zenon DEF RejectInv, BootInv, StagedInv, Whole
  <2>6. ASSUME Recorded PROVE Apart' /\ NewImage' /\ Refused'
    <3>1. /\ Apart /\ disk.rollback.version \in Int /\ server.version \in Nat
          /\ \A x \in Known : x.version \in Int
      BY <2>6, RecordTypes, Zenon DEF RejectInv
    <3>2. disk.desired \in Known
      BY Zenon DEF Known
    <3>3. disk.desired.version >= disk.rollback.version
      BY <2>3, <3>1, <3>2 DEF Apart
    <3>4. disk'.current.version >= disk'.rollback.version /\ disk'.rollback.version \in Int
          /\ disk'.current.version \in Nat
      BY <2>1, <2>3, <3>1, <3>3, Zenon
    <3>5. NewImage' /\ Refused'
      BY <3>4 DEF NewImage, Refused
    <3>6. \A x \in Known : /\ \/ x.version >= disk.rollback.version
                              \/ x.version <= disk.desired.version
                           /\ x.version = disk.rollback.version
                                => x.content = disk.rollback.content
      BY <2>3, <3>1 DEF Apart
    <3>7. Apart'
      BY <2>1, <2>4, <3>1, <3>6, Zenon DEF Apart
    <3> QED BY <3>5, <3>7, Zenon
  <2> QED BY <2>1, <2>5, <2>6, Zenon DEF RejectInv, Recorded, Dormant
<1>3. CASE ClearRollback
  <2>1. /\ pc = "clear" /\ pc' = "idle" /\ UNCHANGED <<os, faults>>
        /\ disk'.rollback.version = 0
        /\ disk'.current = disk.current /\ disk'.desired = disk.desired
    BY <1>3, Zenon DEF ClearRollback, RollbackCleared, Cleared, TypeOK
  <2>2. BootInv' /\ StagedInv' /\ Whole' = Whole
    BY <2>1, Zenon DEF RejectInv, BootInv, StagedInv, Whole
  <2> QED BY <2>1, <2>2 DEF RejectInv, Recorded, Dormant
<1> QED BY <1>1, <1>2, <1>3, Zenon

\* A process that finds rollback.json with a version does not reset the files.
LEMMA RejectStart ==
  ASSUME AgentInv, OrderInv, RejectInv,
         Start \/ EnsureResets \/ \E ready \in PolicyOutcomes : Load(ready)
  PROVE  RejectInv'
<1> USE DEF AgentInv
<1>0. BootInv /\ server \in Device
  BY Zenon DEF RejectInv, TypeOK
<1>1. CASE Start
  <2>1. /\ pc = "off" /\ pc' \in {"load", "resetCurrent"}
        /\ UNCHANGED <<server, disk, os, cache, queue, lastConsumed, faults>>
        /\ publisher'.buffer = publisher.buffer
    BY <1>1, Zenon DEF Start, TypeOK
  <2>2. BootInv' /\ StagedInv' /\ Whole' = Whole
    BY <1>0, <2>1, Zenon DEF BootInv, StagedInv, Whole
  <2>3. Recorded' => Recorded
    BY <2>1, Zenon DEF Recorded
  <2>4. Known' = Known
    BY <2>1, Zenon DEF Known, Polled
  <2>5. Recorded => Apart' /\ NewImage' /\ Refused'
    BY <1>0, <2>1, <2>4, RecordKept, Zenon DEF Dormant
  <2>6. Recorded => pc' = "load"
    <3>1. Recorded => disk.rollback # NoRollbackFile
      BY DEF Recorded, NoRollbackFile
    <3>2. Recorded => MissingFiles = {}
      BY <3>1, Zenon DEF RejectInv, Whole, MissingFiles
    <3> QED BY <1>1, <3>2, Zenon DEF Start
  <2> QED BY <2>1, <2>2, <2>3, <2>5, <2>6, Zenon DEF RejectInv, Dormant
<1>2. CASE EnsureResets
  <2>1. /\ pc \in {"resetCurrent", "resetDesired", "resetRollback"}
        /\ pc' \in {"resetDesired", "resetRollback", "load"} /\ UNCHANGED <<os, faults>>
        /\ disk'.rollback = disk.rollback \/ disk'.rollback.version = 0
    <3> DEFINE Files == [current : Device \union {Missing},
                         desired : Device \union {Missing, Truncated}, rollback : RollbackFile]
    <3>0. disk \in Files
      BY Zenon DEF TypeOK
    <3>1. CASE ResetFile("resetCurrent", "current", Zero, "resetDesired")
      BY <3>0, <3>1, Zenon DEF ResetFile
    <3>2. CASE ResetFile("resetDesired", "desired", Zero, "resetRollback")
      BY <3>0, <3>2, Zenon DEF ResetFile
    <3>3. CASE ResetFile("resetRollback", "rollback", Cleared, "load")
      BY <3>0, <3>3, Zenon DEF ResetFile, Cleared
    <3> QED BY <1>2, <3>1, <3>2, <3>3, Zenon DEF EnsureResets
  <2>2. BootInv' /\ StagedInv'
    BY <1>0, <2>1, Zenon DEF BootInv, StagedInv
  <2>3. ~Recorded
    BY <2>1, Zenon DEF RejectInv
  <2>4. ~Recorded'
    BY <2>1, <2>3 DEF Recorded
  <2> QED BY <2>1, <2>2, <2>4, Zenon DEF RejectInv, Dormant
<1>3. ASSUME NEW ready \in PolicyOutcomes, Load(ready) PROVE RejectInv'
  <2>1. /\ pc = "load" /\ pc' = "bootOS"
        /\ UNCHANGED <<server, disk, os, lastConsumed, publisher, faults>>
        /\ cache'.current = disk.current /\ cache'.desired = disk.desired
        /\ queue' = Add(queue, disk.desired, ready, disk.current)
    BY <1>3, Zenon DEF Load
  <2>2. /\ disk.desired \in Device /\ disk.current \in Device /\ ready \in Answers
        /\ queue \in Queues /\ Whole
    BY <1>3, ConstantsAssumption, Zenon DEF Load, TypeOK, FilesInv, Answers, Queues, Whole
  <2>3. queue'.item \in {queue.item, disk.desired}
    BY <2>1, <2>2, AddFacts, Zenon
  <2>4. publisher'.buffer = <<>> /\ lastConsumed' = NoDevice
    BY <2>1, Zenon DEF OrderInv, Dormant
  <2>5. Known' \subseteq Known
    <3>1. Polled' = Polled
      BY <2>1, Zenon DEF Polled
    <3> QED BY <2>1, <2>3, <3>1, Zenon DEF Known
  <2>6. BootInv' /\ StagedInv' /\ Whole'
    BY <1>0, <2>1, <2>2, Zenon DEF BootInv, StagedInv, Whole
  <2>7. Recorded' => Recorded
    BY <2>1, Zenon DEF Recorded
  <2>8. Recorded => Apart' /\ NewImage' /\ Refused'
    BY <1>0, <2>1, <2>5, RecordKept, Zenon
  <2> QED BY <2>1, <2>4, <2>6, <2>7, <2>8, Zenon DEF RejectInv
<1> QED BY <1>1, <1>2, <1>3, Zenon

\* The bootstrap marks the version of a rejected image as failed: it finds either the update
\* in progress and the old image booted, or no update and the version in rollback.json.
LEMMA RejectBootOS ==
  ASSUME AgentInv, RejectInv, BootOS
  PROVE  RejectInv'
<1> USE DEF AgentInv
<1> DEFINE v == disk.rollback.version
           rollback == ShouldApplyOSImageUpdate /\ ~OsReconciled /\ IsRollingBack
<1>0. /\ pc = "bootOS" /\ pc' \in {"truncate", "idle"}
      /\ UNCHANGED <<server, disk, os, cache, lastConsumed, publisher, faults>>
  BY Zenon DEF BootOS
<1>1. /\ queue \in Queues /\ cache.desired \in Device /\ cache.current \in Device
      /\ server \in Device /\ disk.rollback.version \in Versions \union {-1}
      /\ disk.rollback.content \in Contents \union {Empty}
  BY RollbackTypes, Zenon DEF TypeOK, Queues
<1>2. queue'.item \in {queue.item, NoDevice}
  <2>1. MarkDesiredFailed(queue).item \in {queue.item, NoDevice}
    BY <1>1, SetFailedFacts, DeviceFacts DEF MarkDesiredFailed
  <2>2. SetFailed(queue, v, disk.rollback.content).item \in {queue.item, NoDevice}
    BY <1>1, Zenon DEF SetFailed, Queues
  <2> QED BY <2>1, <2>2, Zenon DEF BootOS
<1>3. Known' \subseteq Known \union {NoDevice}
  BY <1>0, <1>2, KnownKept, Zenon DEF Known
<1>4. BootInv' /\ StagedInv' /\ Whole' = Whole
  BY <1>0, Zenon DEF RejectInv, BootInv, StagedInv, Whole
<1>5. ASSUME Recorded PROVE Apart' /\ NewImage' /\ Refused'
  <2>1. Apart /\ NewImage /\ Whole /\ v > 0 /\ BootInv
    BY <1>5, Zenon DEF RejectInv, Recorded
  <2>2. Apart' /\ ((\A x \in Known : x.version # v) => (\A x \in Known' : x.version # v))
    BY <1>0, <1>1, <1>3, <2>1, ApartKept, Zenon DEF Whole
  <2>3. NewImage'
    BY <1>0, <2>1, Zenon DEF NewImage, OsImage
  <2>4. disk.current = cache.current /\ disk.desired = cache.desired
    BY <1>0, <2>1, Zenon DEF FilesInv, Whole, Dormant
  <2>5. ASSUME Rejected, disk.current.version < v
        PROVE  v \in queue'.versions \/ \A x \in Known : x.version # v
    <3>0. /\ v \in Int /\ cache.desired.version \in Nat /\ cache.current.version \in Nat
          /\ server.version \in Nat /\ NoDevice.version = -1
      BY <1>1, RollbackTypes, DeviceFacts, Zenon
    <3>1. cache.desired \in Known /\ cache.current \in Known /\ server \in Known
      BY Zenon DEF Known
    <3>2. cache.desired.version >= cache.current.version
      BY <1>0, Zenon DEF FilesInv, Dormant
    <3>3. cache.desired.version >= v \/ cache.desired.version = cache.current.version
      BY <2>1, <2>4, <3>0, <3>1, <3>2 DEF Apart
    <3>4. CASE cache.desired.version = cache.current.version
      <4>1. cache.desired = cache.current
        BY <3>1, <3>4, Zenon DEF Coherent
      <4>2. RolledBackBefore /\ ~rollback
        BY <2>1, <4>1, Zenon DEF RolledBackBefore, ShouldApplyOSImageUpdate, IsUpgrading
      <4>3. queue' = SetFailed(queue, v, disk.rollback.content)
        BY <4>2, Zenon DEF BootOS
      <4>4. v \in queue'.versions
        BY <1>1, <4>3, Zenon DEF SetFailed, Queues
      <4> QED BY <4>4, Zenon
    <3>5. CASE cache.desired.version = v
      <4>1. cache.desired.content = disk.rollback.content
        BY <2>1, <3>1, <3>5, Zenon DEF Apart
      <4>2. /\ disk.rollback.content # Empty
            /\ Image[disk.rollback.content]
                 \notin {NoImage, disk.rollback.image, OsImage(disk.current)}
        BY <2>1, <2>5, <3>0, <2>4, Zenon DEF NewImage
      <4>3. OsImage(cache.desired) = Image[disk.rollback.content]
        BY <4>1, <4>2, Zenon DEF OsImage
      <4>4. rollback
        BY <2>1, <2>4, <2>5, <4>2, <4>3, Zenon
           DEF Rejected, BootInv, ShouldApplyOSImageUpdate, OsReconciled, IsRollingBack
      <4>5. queue' = SetFailed(queue, v, cache.desired.content)
        BY <3>5, <4>4, Zenon DEF BootOS, MarkDesiredFailed
      <4>6. v \in queue'.versions
        BY <1>1, <4>5, Zenon DEF SetFailed, Queues
      <4> QED BY <4>6
    <3>6. CASE cache.desired.version > v
      <4>1. server.version >= cache.desired.version
        BY <3>1, Zenon DEF Coherent
      <4>2. publisher.buffer = <<>> /\ lastConsumed = NoDevice
        BY <1>0, Zenon DEF RejectInv
      <4>3. Polled = {}
        BY <4>2 DEF Polled
      <4>4. queue.item \in {NoDevice, cache.desired}
        BY <1>0, Zenon DEF QueueInv
      <4>5. Known \subseteq {server, cache.current, cache.desired, NoDevice}
        BY <2>4, <4>2, <4>3, <4>4, Zenon DEF Known
      <4>6. \A x \in {server, cache.current, cache.desired, NoDevice} : x.version # v
        BY <2>1, <2>4, <2>5, <3>0, <3>6, <4>1
      <4> QED BY <4>5, <4>6, Zenon
    <3> QED BY <3>0, <3>3, <3>4, <3>5, <3>6
  <2>6. Refused'
    <3>1. disk.current.version \in Int /\ v \in Int
      BY RecordTypes, Zenon
    <3>2. Rejected' => Rejected
      BY <1>0, Zenon DEF Rejected
    <3> QED BY <1>0, <2>2, <2>5, <3>1, <3>2 DEF Refused
  <2> QED BY <2>2, <2>3, <2>6, Zenon
<1>6. Recorded' => Recorded
  BY <1>0, Zenon DEF Recorded
<1> QED BY <1>0, <1>4, <1>5, <1>6, Zenon DEF RejectInv, Dormant

LEMMA RejectRollback ==
  ASSUME AgentInv, RejectInv,
         \/ RollbackDevice \/ RollbackHookFails \/ TruncateDesired \/ Resync
         \/ RebootIntoRollbackOS
  PROVE  RejectInv'
<1> USE DEF AgentInv
<1>0. {"retry", "fatal"} \subseteq FaultKinds \ {"drop"}
  BY Zenon DEF FaultKinds
<1>1. CASE RollbackDevice \/ RollbackHookFails \/ Resync
           \/ (RebootIntoRollbackOS /\ pc' = "idle" /\ UNCHANGED <<os, memory>>)
  <2>1. /\ pc \in {"failing", "osRollback", "resync"} /\ pc' \in {"osRollback", "truncate", "idle"}
        /\ UNCHANGED <<server, disk, os, cache, queue, lastConsumed, publisher>>
    BY <1>1, Zenon DEF RollbackDevice, RollbackHookFails, Resync, RebootIntoRollbackOS, memory
  <2>2. faults'["drop"] = faults["drop"]
    BY <1>0, <1>1, DropsKept, Zenon
       DEF RollbackDevice, RollbackHookFails, Resync, RebootIntoRollbackOS
  <2>3. Known' \subseteq Known \union {NoDevice}
    BY <2>1, KnownKept, Zenon DEF Known
  <2>4. pc \notin Dormant \union {"bootOS"} /\ pc' \notin Dormant \union {"bootOS", "staged"}
    BY <2>1, Zenon DEF Dormant
  <2> QED BY <2>1, <2>2, <2>3, <2>4, RejectRun, Zenon
<1>2. CASE TruncateDesired
  <2>1. /\ pc = "truncate" /\ pc' = "copy"
        /\ UNCHANGED <<server, os, cache, queue, lastConsumed, publisher, faults>>
        /\ disk'.current = disk.current /\ disk'.rollback = disk.rollback
        /\ disk'.desired = Truncated
    BY <1>2, Zenon DEF TruncateDesired, memory, TypeOK
  <2>2. Truncated # Missing
    BY DeviceFacts, Zenon DEF Missing
  <2>3. Known' \subseteq Known \union {Truncated}
    <3>1. Polled' = Polled
      BY <2>1, Zenon DEF Polled
    <3> QED BY <2>1, <3>1, Zenon DEF Known
  <2> QED BY <2>1, <2>2, <2>3, RejectRun, Zenon DEF Dormant
<1>3. CASE RebootIntoRollbackOS /\ Stop
  <2>1. UNCHANGED <<server, disk, faults>>
    BY <1>3, Zenon DEF RebootIntoRollbackOS
  <2>2. CASE os' = os
    BY <1>3, <2>1, <2>2, RejectStop, Zenon DEF RejectInv, BootInv
  <2>3. CASE os.previous # NoImage /\ os' = BootPrevious(os)
    <3>1. BootInv'
      BY <2>3, Zenon DEF BootInv, BootPrevious
    <3> QED BY <1>3, <2>1, <3>1, RejectStop, Zenon
  <2> QED BY <1>3, <2>2, <2>3, Zenon DEF RebootIntoRollbackOS, Stop
<1> QED BY <1>1, <1>2, <1>3, Zenon DEF RebootIntoRollbackOS

LEMMA RejectEnds ==
  ASSUME AgentInv, RejectInv,
         \/ LoadFails \/ MissingSpec \/ Reboot \/ Crash \/ PowerCycle \/ BootFails
         \/ \E f \in {"current", "desired", "rollback"} : DropFile(f)
  PROVE  RejectInv'
<1> USE DEF AgentInv
<1>0. BootInv /\ {"crash", "power", "health"} \subseteq FaultKinds \ {"drop"}
  BY Zenon DEF RejectInv, FaultKinds
<1>1. CASE LoadFails \/ MissingSpec \/ Reboot \/ Crash \/ PowerCycle \/ BootFails
  <2>1. Stop /\ UNCHANGED <<server, disk>>
    BY <1>1, Zenon DEF LoadFails, MissingSpec, Reboot, Crash, PowerCycle, BootFails
  <2>2. faults'["drop"] = faults["drop"]
    BY <1>0, <1>1, DropsKept, Zenon
       DEF LoadFails, MissingSpec, Reboot, Crash, PowerCycle, BootFails
  <2>3. \/ os' \in {os, Boot(os)}
        \/ os' = BootPrevious(os) /\ ~os.ok
    BY <1>1, Zenon DEF LoadFails, MissingSpec, Reboot, Crash, PowerCycle, BootFails
  <2>4. BootInv'
    BY <1>0, <2>3 DEF BootInv, Boot, BootPrevious
  <2> QED BY <2>1, <2>2, <2>4, RejectStop, Zenon
<1>2. ASSUME NEW f \in {"current", "desired", "rollback"}, DropFile(f) PROVE RejectInv'
  <2>1. pc \in {"off", "idle"} /\ UNCHANGED <<pc, os>> /\ Fault("drop")
    BY <1>2, Zenon DEF DropFile
  <2>2. faults'["drop"] # 0
    BY <2>1 DEF Fault, TypeOK, FaultKinds
  <2>3. BootInv' /\ StagedInv'
    BY <1>0, <2>1, Zenon DEF BootInv, StagedInv
  <2> QED BY <2>1, <2>2, <2>3, Zenon DEF RejectInv, Recorded
<1> QED BY <1>1, <1>2, Zenon

\* A version whose image was booted and rejected, as rollback.json tells, is never worked on
\* again while the device runs the old image, unless a spec file was lost: wherever the
\* process and the device stopped, the bootstrap marks it before the queue offers it.
THEOREM RejectedStaysOut == Spec => []RejectedNotRetried
<1>1. Init => RejectInv
  <2> SUFFICES ASSUME Init PROVE RejectInv
    BY Zenon
  <2>1. pc = "off" /\ disk.rollback.version = -1
    BY Zenon DEF Init, NoRollbackFile
  <2>2. BootInv /\ StagedInv
    BY <2>1, ConstantsAssumption, Zenon DEF Init, BootInv, StagedInv
  <2> QED BY <2>1, <2>2 DEF RejectInv, Recorded, Dormant
<1>2. AgentInv /\ OrderInv /\ CommitInv /\ RejectInv /\ [Next]_vars => RejectInv'
  <2> SUFFICES ASSUME AgentInv, OrderInv, CommitInv, RejectInv, [Next]_vars PROVE RejectInv'
    BY Zenon
  <2>1. CASE (\E c \in Contents : Publish(c)) \/ Poll \/ BootSucceeds
               \/ (\E v \in Versions : BackoffElapses(v))
    BY <2>1, RejectService, Zenon
  <2>2. CASE Start \/ EnsureResets \/ BootOS
    BY <2>2, RejectStart, RejectBootOS, Zenon
  <2>3. ASSUME NEW ready \in PolicyOutcomes,
               Load(ready) \/ Consume(ready) \/ TakeNext(ready) \/ CopyCurrent(ready)
        PROVE  RejectInv'
    BY <2>3, RejectStart, RejectQueue, Zenon
  <2>4. CASE DesiredUnreadable \/ BeforeUpdate \/ SyncDevice
    BY <2>4, RejectPhases, Zenon
  <2>5. CASE AfterUpdate \/ CreateRollback \/ Upgrade \/ ClearRollback
    BY <2>5, RejectAfterUpdate, RejectCreate, RejectUpgrade, Zenon
  <2>6. CASE RollbackDevice \/ TruncateDesired \/ Resync \/ RebootIntoRollbackOS
    BY <2>6, RejectRollback, Zenon
  <2>7. CASE LoadFails \/ MissingSpec \/ Reboot
    BY <2>7, RejectEnds, Zenon
  <2>8. CASE Faults
    BY <2>8, RejectPhases, RejectRollback, RejectEnds, Zenon DEF Faults
  <2>9. CASE UNCHANGED vars
    <3>1. UNCHANGED <<server, disk, os, pc, cache, queue, lastConsumed, publisher, faults>>
      BY <2>9, Zenon DEF vars, memory
    <3>2. Known' = Known
      BY <3>1, Zenon DEF Known, Polled
    <3>3. server \in Device /\ BootInv'
      BY <3>1, Zenon DEF AgentInv, TypeOK, RejectInv, BootInv
    <3> QED BY <3>1, <3>2, <3>3, RejectSame, Zenon
  <2> QED BY <2>1, <2>2, <2>3, <2>4, <2>5, <2>6, <2>7, <2>8, <2>9, Zenon DEF Next, AgentStep
<1>3. AgentInv /\ RejectInv => RejectedNotRetried
  <2> SUFFICES ASSUME AgentInv, RejectInv, faults["drop"] = 0, pc \in Syncing, IsUpgrading,
                      Rejected, cache.desired.version = disk.rollback.version
               PROVE  FALSE
    BY Zenon DEF RejectedNotRetried, Rejected
  <2> USE DEF AgentInv
  <2>1. pc \notin Dormant \union {"bootOS"}
    BY Zenon DEF Syncing, Dormant
  <2>2. cache.desired.version > cache.current.version /\ cache.desired.version > 0
    BY <2>1, DesiredPlanned, Zenon DEF IsUpgrading
  <2>3. Recorded /\ Whole /\ Refused
    BY <2>2, Zenon DEF Recorded, RejectInv
  <2>4. disk.current = cache.current
    BY <2>1, <2>3, Zenon DEF FilesInv, Whole
  <2>5. cache.current.version \in Nat /\ cache.desired.version \in Nat
    BY OrderTypes, Zenon
  <2>6. cache.desired.version \notin queue.versions
    BY Zenon DEF FailedNotApplied, IsFailed
  <2>7. cache.desired \in Known
    BY Zenon DEF Known
  <2> QED BY <2>1, <2>2, <2>3, <2>4, <2>5, <2>6, <2>7 DEF Refused
<1> QED BY <1>1, <1>2, <1>3, AgentInvariant, VersionsInOrder, CommitInvariant, PTL DEF Spec

=============================================================================
