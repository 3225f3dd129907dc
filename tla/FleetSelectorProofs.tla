------------------------ MODULE FleetSelectorProofs ------------------------
(***************************************************************************)
(* Proofs about FleetSelector, for any devices, fleets, labels and faults. *)
(***************************************************************************)
EXTENDS FleetSelector, TLAPS

\* What kinds of events there are.
LEMMA EventKinds ==
  /\ \A f \in Fleets : <<"fleet", f>> \in Events
  /\ \A d \in Devices : <<"labels", d>> \in Events /\ <<"owner", d>> \in Events
  /\ NoEvent \notin Events
  /\ \A e \in Events : \/ e[1] = "fleet" /\ e[2] \in Fleets /\ e = <<"fleet", e[2]>>
                       \/ e[1] = "labels" /\ e[2] \in Devices /\ e = <<"labels", e[2]>>
                       \/ e[1] = "owner" /\ e[2] \in Devices /\ e = <<"owner", e[2]>>
  BY DEF Events, NoEvent

\* A new device row and the state of an idle worker have their types.
LEMMA Fresh == NewDevice \in Device /\ Idle \in WorkerState
<1>1. NewDevice \in Device
  BY Zenon DEF NewDevice, Device
<1> QED
  BY <1>1, Zenon DEF Idle, WorkerState

\* The owner that the rules ask for is a fleet or none.
LEMMA OwnerForType ==
  ASSUME NEW M \in SUBSET Fleets, NEW o \in Fleets \union {NoFleet}
  PROVE  OwnerFor(M, o) \in Fleets \union {NoFleet}
  BY Zenon DEF OwnerFor

\* A device row with another value in a field is a device row.
LEMMA RowType ==
  ASSUME NEW row \in Device
  PROVE  /\ \A v \in SUBSET Pairs : [row EXCEPT !.labels = v] \in Device
         /\ \A v \in Fleets \union {NoFleet} : /\ [row EXCEPT !.owner = v] \in Device
                                               /\ [row EXCEPT !.spec = v] \in Device
         /\ \A v \in SUBSET Fleets : [row EXCEPT !.multi = v] \in Device
         /\ \A v \in BOOLEAN : /\ [row EXCEPT !.retired = v] \in Device
                               /\ [row EXCEPT !.skipped = v] \in Device
  BY Zenon DEF Device

\* The table of devices with another row in one place is a table of devices.
LEMMA TableType ==
  ASSUME NEW t \in [Devices -> Device], NEW d \in Devices, NEW row \in Device
  PROVE  [t EXCEPT ![d] = row] \in [Devices -> Device]
  BY Zenon

\* One more event in the queue.
LEMMA EnqueueType ==
  ASSUME TypeOK, NEW e \in Events, Enqueue(e)
  PROVE  /\ queue' \in [Events -> Nat] /\ queue'[e] > 0
         /\ \A x \in Events : queue'[x] >= queue[x] /\ (x # e => queue'[x] = queue[x])
  BY DEF TypeOK, Enqueue

-----------------------------------------------------------------------------
(* Types.                                                                   *)

\* Steps of users preserve the types.
LEMMA UsersType == ASSUME TypeOK, Users PROVE TypeOK'
<1>1. ASSUME NEW f \in Fleets, DeleteFleet(f) PROVE TypeOK'
  BY <1>1, EventKinds DEF TypeOK, DeleteFleet, Change, Enqueue
<1>2. ASSUME NEW f \in Fleets, NEW sel \in Labellings, SetSelector(f, sel) PROVE TypeOK'
  BY <1>2, EventKinds, SelectorAssumption DEF TypeOK, SetSelector, Change, Enqueue
<1>3. ASSUME NEW d \in Devices, Decommission(d) PROVE TypeOK'
  <2>1. dev' = [dev EXCEPT ![d] = [[[dev[d] EXCEPT !.retired = TRUE] EXCEPT !.owner = NoFleet]
                                                                   EXCEPT !.labels = {}]]
    BY <1>3, Zenon DEF Decommission, TypeOK
  <2>2. dev' \in [Devices -> Device]
    <3>1. [dev[d] EXCEPT !.retired = TRUE] \in Device
      BY RowType, Zenon DEF TypeOK
    <3>2. [[dev[d] EXCEPT !.retired = TRUE] EXCEPT !.owner = NoFleet] \in Device
      BY <3>1, RowType, Zenon
    <3>3. [[[dev[d] EXCEPT !.retired = TRUE] EXCEPT !.owner = NoFleet] EXCEPT !.labels = {}]
            \in Device
      BY <3>2, RowType, Zenon
    <3> QED
      BY <2>1, <3>3, TableType, Zenon DEF TypeOK
  <2> QED
    BY <1>3, <2>2 DEF TypeOK, Decommission, Change
<1>4. ASSUME NEW d \in Devices, NEW labels \in Labellings, SetLabels(d, labels) PROVE TypeOK'
  <2>1. dev' \in [Devices -> Device]
    <3>1. [dev[d] EXCEPT !.labels = labels] \in Device
      BY RowType, SelectorAssumption, Zenon DEF TypeOK
    <3> QED
      BY <1>4, <3>1, TableType, Zenon DEF TypeOK, SetLabels
  <2>2. queue' \in [Events -> Nat]
    BY <1>4, EventKinds, EnqueueType, Zenon DEF SetLabels
  <2> QED
    BY <1>4, <2>1, <2>2 DEF TypeOK, SetLabels, Change
<1> QED
  BY <1>1, <1>2, <1>3, <1>4, Zenon DEF Users

\* A step of one worker preserves the types if the new values have theirs.
LEMMA WorkerType ==
  ASSUME TypeOK, NEW w \in Workers, NEW s \in WorkerState, OnList(s),
         worker' = [worker EXCEPT ![w] = s], dev' \in [Devices -> Device],
         queue' \in [Events -> Nat], UNCHANGED <<fleets, selector, changes>>,
         faults' \in Nat, stopped' \in BOOLEAN
  PROVE  TypeOK'
<1>1. worker' \in [Workers -> WorkerState]
  BY Zenon DEF TypeOK
<1>2. \A v \in Workers : OnList(worker'[v])
  BY Zenon DEF TypeOK
<1> QED
  BY <1>1, <1>2, Zenon DEF TypeOK

\* A worker that is through with a device.
LEMMA LeaveType ==
  ASSUME TypeOK, NEW w \in Workers, NEW d \in Devices
  PROVE  /\ Leave(w, d) \in WorkerState /\ Leave(w, d).at = {}
         /\ Leave(w, d).pc = "device" /\ Leave(w, d).list = worker[w].list \ {d}
         /\ Leave(w, d).rows = [worker[w].rows EXCEPT ![d] = NewDevice]
         /\ Leave(w, d).event = worker[w].event /\ Leave(w, d).failed = worker[w].failed
         /\ Leave(w, d).phase = worker[w].phase /\ Leave(w, d).sel = worker[w].sel
         /\ Leave(w, d).fetched = worker[w].fetched /\ Leave(w, d).known = worker[w].known
<1>1. [worker[w].rows EXCEPT ![d] = NewDevice] \in [Devices -> Device]
  BY Fresh, TableType, Zenon DEF TypeOK, WorkerState
<1>2. worker[w] \in WorkerState
  BY Zenon DEF TypeOK
<1>3. Leave(w, d) = [worker[w] EXCEPT !.pc = "device", !.at = {}, !.list = worker[w].list \ {d},
                       !.rows = [worker[w].rows EXCEPT ![d] = NewDevice]]
  BY <1>2, Zenon DEF Leave, WorkerState
<1>4. Leave(w, d) \in WorkerState
  BY <1>1, <1>2, <1>3, ZenonT(30) DEF WorkerState
<1> QED
  BY <1>2, <1>3, <1>4, Zenon DEF WorkerState

\* Steps of the rollout of a device preserve the types.
LEMMA RolloutType ==
  ASSUME TypeOK, NEW w \in Workers, NEW d \in Devices, RolloutRead(w, d) \/ RolloutWrite(w, d)
  PROVE  TypeOK'
<1> USE DEF AfterRollout, Kind, At
<1>0. worker[w] \in WorkerState /\ dev[d] \in Device /\ worker[w].at = {}
  BY Zenon DEF TypeOK, RolloutRead, RolloutWrite, OnList
<1>1. CASE RolloutRead(w, d)
  <2> DEFINE owned == dev[d].owner # NoFleet
             skip == owned /\ dev[d].multi # {}
             deploy == owned /\ ~skip /\ dev[d].owner \in fleets
             rows == IF deploy THEN [worker[w].rows EXCEPT ![d] = dev[d]] ELSE worker[w].rows
             s == [worker[w] EXCEPT !.pc = IF deploy THEN "deploy" ELSE AfterRollout(w),
                                    !.failed = owned /\ ~skip /\ ~deploy, !.rows = rows]
  <2>1. worker' = [worker EXCEPT ![w] = s]
    <3>1. [worker[w].rows EXCEPT ![d] = IF deploy THEN dev[d] ELSE worker[w].rows[d]] = rows
      BY <1>0, Zenon DEF WorkerState
    <3>2. worker' = [worker EXCEPT
            ![w].pc = IF deploy THEN "deploy" ELSE AfterRollout(w),
            ![w].failed = owned /\ ~skip /\ ~deploy,
            ![w].rows[d] = IF deploy THEN dev[d] ELSE worker[w].rows[d]]
      BY <1>1, Zenon DEF RolloutRead
    <3> HIDE DEF rows, deploy, skip
    <3> QED
      BY <1>0, <3>1, <3>2, Zenon DEF TypeOK, WorkerState
  <2>2. rows \in [Devices -> Device]
    BY <1>0, TableType, Zenon DEF WorkerState
  <2>3. s \in WorkerState /\ OnList(s)
    BY <1>0, <2>2, ZenonT(30) DEF WorkerState, TypeOK, OnList
  <2>4. dev' \in [Devices -> Device]
    <3>1. [dev[d] EXCEPT !.skipped = dev[d].skipped \/ skip] \in Device
      BY <1>0, RowType, Zenon
    <3> QED
      BY <1>1, <3>1, TableType, Zenon DEF RolloutRead, TypeOK
  <2>5. /\ queue' \in [Events -> Nat] /\ faults' \in Nat /\ stopped' \in BOOLEAN
        /\ UNCHANGED <<fleets, selector, changes>>
    BY <1>1, Zenon DEF RolloutRead, TypeOK
  <2> HIDE DEF s
  <2> QED
    BY <2>1, <2>3, <2>4, <2>5, WorkerType, Zenon
<1>2. CASE RolloutWrite(w, d)
  <2> DEFINE owner == worker[w].rows[d].owner
             same == dev[d].owner = owner /\ ~dev[d].retired
             s == [worker[w] EXCEPT !.pc = AfterRollout(w), !.failed = ~same,
                                    !.rows = [worker[w].rows EXCEPT ![d] = NewDevice]]
  <2>1. worker' = [worker EXCEPT ![w] = s]
    BY <1>0, <1>2, Zenon DEF RolloutWrite, TypeOK, WorkerState
  <2>2. [worker[w].rows EXCEPT ![d] = NewDevice] \in [Devices -> Device]
    BY <1>0, Fresh, TableType, Zenon DEF WorkerState
  <2>3. s \in WorkerState /\ OnList(s)
    BY <1>0, <2>2, Zenon DEF WorkerState, TypeOK, OnList
  <2>4. dev' \in [Devices -> Device]
    <3>1. CASE same
      <4>1. owner \in Fleets \union {NoFleet}
        BY <1>0, Zenon DEF WorkerState, Device
      <4>2. [[dev[d] EXCEPT !.spec = owner] EXCEPT !.skipped = FALSE] \in Device
        <5>1. [dev[d] EXCEPT !.spec = owner] \in Device
          BY <1>0, <4>1, RowType, Zenon
        <5> QED
          BY <5>1, RowType, Zenon
      <4>3. dev' = [dev EXCEPT ![d] = [[dev[d] EXCEPT !.spec = owner] EXCEPT !.skipped = FALSE]]
        BY <1>2, <3>1, Zenon DEF RolloutWrite, TypeOK
      <4> QED
        BY <4>2, <4>3, TableType, Zenon DEF TypeOK
    <3>2. CASE ~same
      BY <1>2, <3>2, Zenon DEF RolloutWrite, TypeOK
    <3> QED
      BY <3>1, <3>2, Zenon
  <2>5. /\ queue' \in [Events -> Nat] /\ faults' \in Nat /\ stopped' \in BOOLEAN
        /\ UNCHANGED <<fleets, selector, changes>>
    BY <1>2, Zenon DEF RolloutWrite, TypeOK
  <2> HIDE DEF s
  <2> QED
    BY <2>1, <2>3, <2>4, <2>5, WorkerType
<1> QED
  BY <1>1, <1>2, Zenon

\* Steps of a worker that read the database, and the end of a list, preserve the types.
LEMMA ReadType ==
  ASSUME TypeOK, NEW w \in Workers,
         \/ ListDevices(w) \/ Fetch(w) \/ NextList(w)
         \/ \E f \in Fleets : GetFleet(w, f)
         \/ \E d \in Devices : GetDevice(w, d)
  PROVE  TypeOK'
<1> USE DEF Kind, At
<1>0. worker[w] \in WorkerState /\ worker[w].at = {}
  BY Zenon DEF TypeOK, OnList, ListDevices, Fetch, NextList, GetFleet, GetDevice
<1> SUFFICES ASSUME /\ dev' \in [Devices -> Device] /\ queue' \in [Events -> Nat]
                    /\ faults' \in Nat /\ stopped' \in BOOLEAN
                    /\ UNCHANGED <<fleets, selector, changes>>
             PROVE  TypeOK'
  BY Zenon DEF ListDevices, Fetch, NextList, GetFleet, GetDevice, TypeOK
<1>1. CASE ListDevices(w)
  <2> DEFINE list == {d \in Devices : Listed(w, d)}
             rows == [d \in Devices |-> IF d \in list THEN dev[d] ELSE NewDevice]
             s == [worker[w] EXCEPT !.list = list, !.rows = rows,
                     !.pc = IF list # {} /\ ~worker[w].fetched THEN "fetch" ELSE "device"]
  <2>1. worker' = [worker EXCEPT ![w] = s]
    BY <1>0, <1>1, Zenon DEF ListDevices, TypeOK, WorkerState
  <2>2. rows \in [Devices -> Device]
    BY Fresh, Zenon DEF TypeOK
  <2>3. s \in WorkerState /\ OnList(s)
    BY <1>0, <2>2, Zenon DEF WorkerState, OnList
  <2> QED
    BY <2>1, <2>3, WorkerType, Zenon
<1>2. CASE Fetch(w)
  <2> DEFINE s == [worker[w] EXCEPT !.known = selector, !.fetched = TRUE, !.pc = "device"]
  <2>1. worker' = [worker EXCEPT ![w] = s]
    BY <1>0, <1>2, Zenon DEF Fetch, TypeOK, WorkerState
  <2>2. s \in WorkerState /\ OnList(s)
    BY <1>0, Zenon DEF WorkerState, TypeOK, OnList
  <2> HIDE DEF s
  <2> QED
    BY <2>1, <2>2, WorkerType, Zenon
<1>3. CASE NextList(w)
  <2>1. worker'[w] \in WorkerState /\ OnList(worker'[w])
    BY <1>0, <1>3, Zenon DEF NextList, TypeOK, WorkerState, OnList
  <2>2. worker' = [worker EXCEPT ![w] = worker'[w]]
    BY <1>3, Zenon DEF NextList, TypeOK
  <2> QED
    BY <2>1, <2>2, WorkerType, Zenon
<1>4. ASSUME NEW f \in Fleets, GetFleet(w, f) PROVE TypeOK'
  <2> DEFINE s == [worker[w] EXCEPT !.sel = selector[f], !.pc = "list"]
  <2>1. worker' = [worker EXCEPT ![w] = s]
    BY <1>0, <1>4, Zenon DEF GetFleet, TypeOK, WorkerState
  <2>2. s \in WorkerState /\ OnList(s)
    BY <1>0, Zenon DEF WorkerState, TypeOK, OnList
  <2> HIDE DEF s
  <2> QED
    BY <2>1, <2>2, WorkerType, Zenon
<1>5. ASSUME NEW d \in Devices, GetDevice(w, d) PROVE TypeOK'
  <2> DEFINE rows == [worker[w].rows EXCEPT ![d] = dev[d]]
             s == [worker[w] EXCEPT !.rows = rows, !.list = {d},
                     !.pc = IF dev[d].labels = {} THEN "device" ELSE "fetch"]
  <2>1. worker' = [worker EXCEPT ![w] = s]
    BY <1>0, <1>5 DEF GetDevice, TypeOK, WorkerState
  <2>2. rows \in [Devices -> Device]
    BY <1>0, TableType, Zenon DEF WorkerState, TypeOK
  <2>3. s \in WorkerState /\ OnList(s)
    BY <1>0, <2>2, Zenon DEF WorkerState, OnList
  <2> HIDE DEF s
  <2> QED
    BY <2>1, <2>3, WorkerType, Zenon
<1> QED
  BY <1>1, <1>2, <1>3, <1>4, <1>5, Zenon

\* What a task asks the store to write has its type.
LEMMA DecisionType ==
  ASSUME TypeOK, NEW w \in Workers, NEW d \in Devices
  PROVE  /\ Matching(w, d) \in SUBSET Fleets
         /\ NewOwner(w, d) \in Fleets \union {NoFleet}
         /\ MessageFor(Matching(w, d)) \in SUBSET Fleets
<1>1. Matching(w, d) \in SUBSET Fleets
  BY Zenon DEF Matching, MatchingFleets
<1>2. worker[w].rows[d].owner \in Fleets \union {NoFleet}
  BY DEF TypeOK, WorkerState, Device
<1> QED
  BY <1>1, <1>2, OwnerForType, Zenon DEF NewOwner, MessageFor

\* A worker that met an error.
LEMMA FailedType ==
  ASSUME NEW s \in WorkerState, OnList(s)
  PROVE  [s EXCEPT !.failed = TRUE] \in WorkerState /\ OnList([s EXCEPT !.failed = TRUE])
  BY Zenon DEF WorkerState, OnList

\* A worker that could not set an owner.
LEMMA OwnerFailedType ==
  ASSUME TypeOK, NEW w \in Workers, NEW d \in worker[w].list
  PROVE  OwnerFailed(w, d) \in WorkerState /\ OnList(OwnerFailed(w, d))
<1>0. worker[w] \in WorkerState /\ d \in Devices
  BY Zenon DEF TypeOK, WorkerState
<1>1. /\ [Leave(w, d) EXCEPT !.failed = TRUE] \in WorkerState
      /\ OnList([Leave(w, d) EXCEPT !.failed = TRUE])
  <2>1. Leave(w, d) \in WorkerState /\ OnList(Leave(w, d))
    BY <1>0, LeaveType, Zenon DEF OnList
  <2> QED
    BY <2>1, FailedType, Zenon
<1>2. /\ [worker[w] EXCEPT !.pc = "condition", !.at = {d}, !.failed = TRUE] \in WorkerState
      /\ OnList([worker[w] EXCEPT !.pc = "condition", !.at = {d}, !.failed = TRUE])
  BY <1>0, Zenon DEF WorkerState, OnList
<1> QED
  BY <1>1, <1>2, Zenon DEF OwnerFailed

\* The owner is written and reported.
LEMMA WriteOwnerType ==
  ASSUME TypeOK, NEW w \in Workers, NEW d \in Devices, WriteOwner(w, d)
  PROVE  dev' \in [Devices -> Device] /\ queue' \in [Events -> Nat]
<1>1. [dev[d] EXCEPT !.owner = NewOwner(w, d)] \in Device
  BY DecisionType, RowType, Zenon DEF TypeOK
<1>2. dev' \in [Devices -> Device]
  BY <1>1, TableType, Zenon DEF WriteOwner, TypeOK
<1> QED
  BY <1>2, EventKinds, EnqueueType, Zenon DEF WriteOwner

\* Steps that write a device preserve the types.
LEMMA WriteType ==
  ASSUME TypeOK, NEW w \in Workers, NEW d \in Devices,
         \/ SetOwner(w, d) \/ SetCondition(w, d) \/ ConditionFails(w, d)
         \/ \E written \in BOOLEAN : OwnerFails(w, d, written)
  PROVE  TypeOK'
<1>0. worker[w] \in WorkerState /\ OnList(worker[w])
  BY Zenon DEF TypeOK
<1>1. faults' \in Nat /\ stopped' \in BOOLEAN /\ UNCHANGED <<fleets, selector, changes>>
  BY DEF SetOwner, SetCondition, ConditionFails, OwnerFails, Fault, TypeOK
<1>2. CASE SetOwner(w, d)
  <2> DEFINE s == IF ChangesOwner(w, d) => OwnerAsRead(w, d)
                  THEN [worker[w] EXCEPT !.pc = "condition", !.at = {d}] ELSE OwnerFailed(w, d)
  <2>1. worker' = [worker EXCEPT ![w] = s] /\ d \in worker[w].list
    BY <1>2, Zenon DEF SetOwner, TypeOK
  <2>2. s \in WorkerState /\ OnList(s)
    <3>1. /\ [worker[w] EXCEPT !.pc = "condition", !.at = {d}] \in WorkerState
          /\ OnList([worker[w] EXCEPT !.pc = "condition", !.at = {d}])
      BY <1>0, <2>1, Zenon DEF WorkerState, OnList
    <3> QED
      BY <3>1, <2>1, OwnerFailedType, Zenon
  <2>3. dev' \in [Devices -> Device] /\ queue' \in [Events -> Nat]
    <3>1. CASE ChangesOwner(w, d) /\ OwnerAsRead(w, d)
      BY <1>2, <3>1, WriteOwnerType, Zenon DEF SetOwner
    <3>2. CASE ~(ChangesOwner(w, d) /\ OwnerAsRead(w, d))
      BY <1>2, <3>2, Zenon DEF SetOwner, TypeOK
    <3> QED
      BY <3>1, <3>2, Zenon
  <2> HIDE DEF s
  <2> QED
    BY <1>1, <2>1, <2>2, <2>3, WorkerType, Zenon
<1>3. CASE SetCondition(w, d)
  <2>1. worker' = [worker EXCEPT ![w] = Leave(w, d)] /\ queue' \in [Events -> Nat]
    BY <1>3, Zenon DEF SetCondition, TypeOK
  <2>2. Leave(w, d) \in WorkerState /\ OnList(Leave(w, d))
    BY LeaveType, Zenon DEF OnList
  <2>3. dev' \in [Devices -> Device]
    <3>1. [dev[d] EXCEPT !.multi = MessageFor(Matching(w, d))] \in Device
      BY DecisionType, RowType, Zenon DEF TypeOK
    <3> QED
      BY <1>3, <3>1, TableType, Zenon DEF SetCondition, TypeOK
  <2> QED
    BY <1>1, <2>1, <2>2, <2>3, WorkerType, Zenon
<1>4. CASE ConditionFails(w, d)
  <2>1. /\ worker' = [worker EXCEPT ![w] = [Leave(w, d) EXCEPT !.failed = TRUE]]
        /\ dev' \in [Devices -> Device] /\ queue' \in [Events -> Nat]
    BY <1>4, Zenon DEF ConditionFails, TypeOK
  <2>2. /\ [Leave(w, d) EXCEPT !.failed = TRUE] \in WorkerState
        /\ OnList([Leave(w, d) EXCEPT !.failed = TRUE])
    <3>1. Leave(w, d) \in WorkerState /\ OnList(Leave(w, d))
      BY LeaveType DEF OnList
    <3> QED
      BY <3>1, FailedType, Zenon
  <2> QED
    BY <1>1, <2>1, <2>2, WorkerType, Zenon
<1>5. ASSUME NEW written \in BOOLEAN, OwnerFails(w, d, written) PROVE TypeOK'
  <2>1. worker' = [worker EXCEPT ![w] = OwnerFailed(w, d)] /\ d \in worker[w].list
    BY <1>5, Zenon DEF OwnerFails, TypeOK
  <2>2. dev' \in [Devices -> Device] /\ queue' \in [Events -> Nat]
    <3>1. CASE written
      BY <1>5, <3>1, WriteOwnerType, Zenon DEF OwnerFails
    <3>2. CASE ~written
      BY <1>5, <3>2, Zenon DEF OwnerFails, TypeOK
    <3> QED
      BY <3>1, <3>2, Zenon
  <2> QED
    BY <1>1, <2>1, <2>2, OwnerFailedType, WorkerType, Zenon
<1> QED
  BY <1>2, <1>3, <1>4, <1>5, Zenon

\* Steps that start, end or interrupt a task preserve the types.
LEMMA TurnType ==
  ASSUME TypeOK, NEW w \in Workers,
         \/ Complete(w) \/ CallFails(w) \/ WorkerDies(w) \/ StopEarly(w)
         \/ \E e \in Events : TakeEvent(w, e)
  PROVE  TypeOK'
<1>0. worker[w] \in WorkerState /\ OnList(worker[w])
  BY Zenon DEF TypeOK
<1>1. /\ faults' \in Nat /\ stopped' \in BOOLEAN /\ UNCHANGED <<fleets, selector, changes>>
      /\ dev' \in [Devices -> Device]
  <2>1. UNCHANGED <<fleets, selector, changes, dev>> /\ (faults' = faults \/ Fault)
    BY Zenon DEF Complete, CallFails, WorkerDies, StopEarly, TakeEvent
  <2>2. stopped' = stopped \/ stopped' = TRUE
    BY Zenon DEF Complete, CallFails, WorkerDies, StopEarly, TakeEvent
  <2>3. stopped' \in BOOLEAN
    BY <2>2, Zenon DEF TypeOK
  <2> QED
    BY <2>1, <2>3 DEF Fault, TypeOK
<1>2. OnList(Idle)
  BY Zenon DEF OnList, Idle
<1>3. ASSUME Enqueue(worker[w].event) PROVE queue' \in [Events -> Nat]
  <2>1. CASE worker[w].event \in Events
    BY <1>3, <2>1, EnqueueType, Zenon
  <2>2. CASE worker[w].event \notin Events
    BY <1>3, <2>2, Zenon DEF Enqueue, TypeOK
  <2> QED
    BY <2>1, <2>2, Zenon
<1>4. CASE Complete(w) \/ WorkerDies(w)
  BY <1>1, <1>2, <1>3, <1>4, Fresh, WorkerType, Zenon DEF Complete, WorkerDies, TypeOK
<1>5. CASE CallFails(w)
  <2> DEFINE s == worker'[w]
  <2>1. worker' = [worker EXCEPT ![w] = s] /\ queue' \in [Events -> Nat]
    BY <1>5, Zenon DEF CallFails, TypeOK
  <2>2. s \in WorkerState /\ OnList(s)
    <3>0. worker[w].at = {} /\ Idle.rows \in [Devices -> Device]
      BY <1>0, <1>5, Fresh, Zenon DEF CallFails, OnList, WorkerState
    <3>1. CASE worker[w].pc \in {"rollout", "deploy"}
      <4>1. s = [worker[w] EXCEPT !.failed = TRUE, !.pc = AfterRollout(w), !.rows = Idle.rows]
        BY <1>5, <3>1, Zenon DEF CallFails, TypeOK
      <4> QED
        BY <1>0, <3>0, <4>1, Zenon DEF WorkerState, OnList, AfterRollout
    <3>2. CASE worker[w].pc = "list" /\ ~Clearing(w) /\ worker[w].phase # "multi"
      <4>1. s = [worker[w] EXCEPT !.failed = TRUE, !.phase =
                   IF worker[w].phase = "orphans" THEN "matching" ELSE "multi"]
        BY <1>5, <3>2, Zenon DEF CallFails, TypeOK
      <4> QED
        BY <1>0, <3>0, <3>2, <4>1, Zenon DEF WorkerState, OnList
    <3>3. CASE ~(worker[w].pc \in {"rollout", "deploy"})
               /\ ~(worker[w].pc = "list" /\ ~Clearing(w) /\ worker[w].phase # "multi")
      <4>1. s = [worker[w] EXCEPT !.failed = TRUE, !.pc = "end"]
        BY <1>5, <3>3, Zenon DEF CallFails, TypeOK
      <4> QED
        BY <1>0, <3>0, <4>1, Zenon DEF WorkerState, OnList
    <3> QED
      BY <3>1, <3>2, <3>3, Zenon
  <2> QED
    BY <1>1, <2>1, <2>2, WorkerType, Zenon
<1>6. CASE StopEarly(w)
  <2>1. /\ worker' = [worker EXCEPT ![w] = [worker[w] EXCEPT !.pc = "end"]]
        /\ queue' \in [Events -> Nat] /\ worker[w].at = {}
    BY <1>0, <1>6, Zenon DEF StopEarly, TypeOK, OnList
  <2>2. [worker[w] EXCEPT !.pc = "end"] \in WorkerState /\ OnList([worker[w] EXCEPT !.pc = "end"])
    BY <1>0, <2>1, Zenon DEF WorkerState, OnList
  <2> QED
    BY <1>1, <2>1, <2>2, WorkerType, Zenon
<1>7. ASSUME NEW e \in Events, TakeEvent(w, e) PROVE TypeOK'
  <2> DEFINE s == [worker[w] EXCEPT !.event = e,
                     !.pc = IF e[1] = "fleet" THEN "getFleet" ELSE "rollout"]
  <2>1. worker' = [worker EXCEPT ![w] = s] /\ worker[w].at = {}
    BY <1>0, <1>7, Zenon DEF TakeEvent, TypeOK, OnList, At
  <2>3. queue' \in [Events -> Nat]
    <3>1. queue[e] \in Nat /\ queue[e] > 0 /\ queue' = [queue EXCEPT ![e] = queue[e] - 1]
      BY <1>7, Zenon DEF TakeEvent, TypeOK
    <3> QED
      BY <3>1 DEF TypeOK
  <2>2. s \in WorkerState /\ OnList(s)
    BY <1>0, <2>1, Zenon DEF WorkerState, OnList
  <2> HIDE DEF s
  <2> QED
    BY <1>1, <2>1, <2>2, <2>3, WorkerType, Zenon
<1> QED
  BY <1>4, <1>5, <1>6, <1>7, Zenon

\* Every variable keeps its type.
LEMMA NextType == ASSUME TypeOK, [Next]_vars PROVE TypeOK'
<1>1. CASE UNCHANGED vars
  BY <1>1, Zenon DEF vars, TypeOK
<1>2. ASSUME NEW w \in Workers, Task(w) PROVE TypeOK'
  BY <1>2, RolloutType, ReadType, WriteType, TurnType, Zenon DEF Task
<1>3. ASSUME NEW w \in Workers, Failure(w) PROVE TypeOK'
  BY <1>3, WriteType, TurnType, Zenon DEF Failure
<1> QED
  BY <1>1, <1>2, <1>3, UsersType, TurnType, Zenon DEF Next

\* The initial state has the types.
LEMMA InitType == Init => TypeOK
<1> SUFFICES ASSUME Init PROVE TypeOK
  BY Zenon
<1>1. \A w \in Workers : worker[w] = Idle /\ OnList(worker[w])
  BY Zenon DEF Init, OnList, Idle
<1>2. worker \in [Workers -> WorkerState] /\ dev \in [Devices -> Device]
  BY Fresh, Zenon DEF Init
<1>3. selector \in [Fleets -> SUBSET Pairs] /\ fleets \subseteq Fleets
  BY SelectorAssumption, Zenon DEF Init
<1>4. queue \in [Events -> Nat] /\ changes \in Nat /\ faults \in Nat /\ stopped \in BOOLEAN
  BY Zenon DEF Init
<1>5. \A f \in Fleets \ fleets : selector[f] = {}
  BY Zenon DEF Init
<1> QED
  BY <1>1, <1>2, <1>3, <1>4, <1>5, Zenon DEF TypeOK

\* Every variable of the model has its type in every state.
THEOREM SelectorTypes == Spec => []TypeOK
  BY InitType, NextType, PTL DEF Spec

-----------------------------------------------------------------------------
(* The steps of a task.                                                     *)

\* Which steps the tasks for each kind of event go through.
StepOK(s) ==
  /\ s.pc = "idle" => s = Idle
  /\ s.pc # "idle" => s.event \in Events
  /\ s.event[1] = "owner" => s.pc \in {"rollout", "deploy", "end"}
  /\ s.event[1] = "labels" => s.pc \in {"rollout", "deploy", "getDevice", "fetch", "device",
                                        "condition", "end"}
  /\ s.event[1] = "fleet" => s.pc \in {"getFleet", "list", "fetch", "device", "condition",
                                       "end"}

Steps == \A w \in Workers : StepOK(worker[w])

\* No task is in progress at first.
LEMMA InitSteps == Init => Steps
  BY DEF Init, Steps, StepOK, Idle, NoEvent

\* A task goes from step to step as its event tells.
LEMMA TaskStep ==
  ASSUME TypeOK, Steps, NEW w \in Workers, Task(w)
  PROVE  Steps'
<1> USE DEF At, Kind, AfterRollout
<1>0. worker[w] \in WorkerState /\ StepOK(worker[w])
  BY Zenon DEF TypeOK, Steps
<1>1. SUFFICES ASSUME \A v \in Workers \ {w} : worker'[v] = worker[v] PROVE StepOK(worker'[w])
  <2>1. \A v \in Workers \ {w} : worker'[v] = worker[v]
    BY ZenonT(40)
       DEF Task, ListDevices, Fetch, NextList, Complete, GetFleet, RolloutRead, RolloutWrite,
           GetDevice, SetOwner, SetCondition, TypeOK
  <2> QED
    BY <1>0, <2>1, Zenon DEF Steps
<1>2. CASE Complete(w)
  <2>1. worker'[w] = Idle
    BY <1>2, Zenon DEF Complete, TypeOK
  <2> QED
    BY <2>1 DEF StepOK, Idle, NoEvent
<1>3. CASE ListDevices(w) \/ Fetch(w)
  <2>1. /\ worker'[w].event = worker[w].event /\ worker[w].pc \in {"list", "fetch"}
        /\ worker'[w].pc \in {"fetch", "device"}
    <3>1. CASE ListDevices(w)
      BY <1>0, <3>1, Zenon DEF ListDevices, TypeOK, WorkerState
    <3>2. CASE Fetch(w)
      BY <1>0, <3>2, Zenon DEF Fetch, TypeOK, WorkerState
    <3> QED
      BY <1>3, <3>1, <3>2, Zenon
  <2> QED
    BY <1>0, <2>1, Zenon DEF StepOK
<1>4. CASE NextList(w)
  <2>1. /\ worker'[w].event = worker[w].event /\ worker[w].pc = "device"
        /\ worker'[w].pc = "end" \/ (worker'[w].pc = "list" /\ Kind(w) # "labels")
    BY <1>0, <1>4, Zenon DEF NextList, TypeOK, WorkerState
  <2> QED
    BY <1>0, <2>1, EventKinds, Zenon DEF StepOK
<1>5. ASSUME NEW f \in Fleets, GetFleet(w, f) PROVE StepOK(worker'[w])
  <2>1. /\ worker'[w].event = worker[w].event /\ worker[w].pc = "getFleet"
        /\ worker'[w].pc = "list"
    BY <1>0, <1>5, Zenon DEF GetFleet, TypeOK, WorkerState
  <2> QED
    BY <1>0, <2>1, EventKinds, Zenon DEF StepOK
<1>6. ASSUME NEW d \in Devices, RolloutRead(w, d) \/ RolloutWrite(w, d) PROVE StepOK(worker'[w])
  <2>1. /\ worker'[w].event = worker[w].event /\ worker[w].pc \in {"rollout", "deploy"}
        /\ worker'[w].pc = AfterRollout(w) \/ worker'[w].pc = "deploy"
    <3>1. CASE RolloutRead(w, d)
      BY <1>0, <3>1, Zenon DEF RolloutRead, TypeOK, WorkerState
    <3>2. CASE RolloutWrite(w, d)
      BY <1>0, <3>2, Zenon DEF RolloutWrite, TypeOK, WorkerState
    <3> QED
      BY <1>6, <3>1, <3>2, Zenon
  <2> QED
    BY <1>0, <2>1, EventKinds, Zenon DEF StepOK
<1>7. ASSUME NEW d \in Devices, GetDevice(w, d) PROVE StepOK(worker'[w])
  <2>1. /\ worker'[w].event = worker[w].event /\ worker[w].pc = "getDevice"
        /\ worker'[w].pc \in {"device", "fetch"}
    BY <1>0, <1>7, Zenon DEF GetDevice, TypeOK, WorkerState
  <2> QED
    BY <1>0, <2>1, EventKinds, Zenon DEF StepOK
<1>8. ASSUME NEW d \in Devices, SetOwner(w, d) \/ SetCondition(w, d) PROVE StepOK(worker'[w])
  <2>0. /\ Leave(w, d).event = worker[w].event /\ Leave(w, d).pc = "device"
        /\ Leave(w, d) \in WorkerState
    BY LeaveType, Zenon
  <2>1. /\ OwnerFailed(w, d).event = worker[w].event
        /\ OwnerFailed(w, d).pc \in {"device", "condition"}
    BY <1>0, <2>0, Zenon DEF OwnerFailed, WorkerState
  <2>2. /\ worker'[w].event = worker[w].event /\ worker[w].pc \in {"device", "condition"}
        /\ worker'[w].pc \in {"device", "condition"}
    <3>1. CASE SetOwner(w, d)
      <4>1. /\ worker[w].pc = "device"
            /\ \/ worker'[w] = [worker[w] EXCEPT !.pc = "condition", !.at = {d}]
               \/ worker'[w] = OwnerFailed(w, d)
        BY <3>1, Zenon DEF SetOwner, TypeOK
      <4> QED
        BY <1>0, <2>1, <4>1, Zenon DEF WorkerState
    <3>2. CASE SetCondition(w, d)
      BY <2>0, <3>2, Zenon DEF SetCondition, TypeOK
    <3> QED
      BY <1>8, <3>1, <3>2, Zenon
  <2> QED
    BY <1>0, <2>2, EventKinds, Zenon DEF StepOK
<1> QED
  BY <1>2, <1>3, <1>4, <1>5, <1>6, <1>7, <1>8, Zenon DEF Task

\* So it does when something fails or a worker takes an event.
LEMMA TurnStep ==
  ASSUME TypeOK, Steps, NEW w \in Workers, Failure(w) \/ \E e \in Events : TakeEvent(w, e)
  PROVE  Steps'
<1> USE DEF At, Kind, AfterRollout
<1>0. worker[w] \in WorkerState /\ StepOK(worker[w])
  BY Zenon DEF TypeOK, Steps
<1>1. SUFFICES ASSUME \A v \in Workers \ {w} : worker'[v] = worker[v] PROVE StepOK(worker'[w])
  <2>1. \A v \in Workers \ {w} : worker'[v] = worker[v]
    BY Zenon DEF Failure, CallFails, WorkerDies, StopEarly, ConditionFails, OwnerFails, TakeEvent,
           TypeOK
  <2> QED
    BY <1>0, <2>1, Zenon DEF Steps
<1>2. CASE WorkerDies(w)
  <2>1. worker'[w] = Idle
    BY <1>2, Zenon DEF WorkerDies, TypeOK
  <2> QED
    BY <2>1 DEF StepOK, Idle, NoEvent
<1>3. CASE CallFails(w)
  <2>1. /\ worker'[w].event = worker[w].event
        /\ worker[w].pc \in {"rollout", "deploy", "getDevice", "getFleet", "fetch", "list"}
        /\ \/ worker'[w].pc = "end"
           \/ worker[w].pc \in {"rollout", "deploy"} /\ worker'[w].pc = AfterRollout(w)
           \/ worker[w].pc = "list" /\ worker'[w].pc = "list"
    <3>1. CASE worker[w].pc \in {"rollout", "deploy"}
      <4>1. worker'[w] = [worker[w] EXCEPT !.failed = TRUE, !.pc = AfterRollout(w),
                                           !.rows = Idle.rows]
        BY <1>3, <3>1, Zenon DEF CallFails, TypeOK
      <4> QED
        BY <1>0, <3>1, <4>1, Zenon DEF WorkerState
    <3>2. CASE worker[w].pc = "list" /\ ~Clearing(w) /\ worker[w].phase # "multi"
      <4>1. worker'[w] = [worker[w] EXCEPT !.failed = TRUE, !.phase =
                            IF worker[w].phase = "orphans" THEN "matching" ELSE "multi"]
        BY <1>3, <3>2, Zenon DEF CallFails, TypeOK
      <4> QED
        BY <1>0, <3>2, <4>1, Zenon DEF WorkerState
    <3>3. CASE ~(worker[w].pc \in {"rollout", "deploy"})
               /\ ~(worker[w].pc = "list" /\ ~Clearing(w) /\ worker[w].phase # "multi")
      <4>1. worker'[w] = [worker[w] EXCEPT !.failed = TRUE, !.pc = "end"]
        BY <1>3, <3>3, Zenon DEF CallFails, TypeOK
      <4> QED
        <5>1. worker[w].pc \in {"rollout", "deploy", "getDevice", "getFleet", "fetch", "list"}
          BY <1>3, Zenon DEF CallFails
        <5> QED
          BY <1>0, <4>1, <5>1, Zenon DEF WorkerState
    <3> QED
      BY <3>1, <3>2, <3>3, Zenon
  <2> QED
    BY <1>0, <2>1, EventKinds, Zenon DEF StepOK
<1>4. CASE StopEarly(w)
  <2>1. worker'[w] = [worker[w] EXCEPT !.pc = "end"] /\ worker[w].pc \in {"list", "device"}
    BY <1>4, Zenon DEF StopEarly, TypeOK
  <2> QED
    BY <1>0, <2>1, Zenon DEF StepOK, WorkerState
<1>5. ASSUME NEW d \in Devices,
             ConditionFails(w, d) \/ \E written \in BOOLEAN : OwnerFails(w, d, written)
      PROVE  StepOK(worker'[w])
  <2>0. /\ Leave(w, d).event = worker[w].event /\ Leave(w, d).pc = "device"
        /\ Leave(w, d) \in WorkerState
    BY LeaveType, Zenon
  <2>1. /\ OwnerFailed(w, d).event = worker[w].event
        /\ OwnerFailed(w, d).pc \in {"device", "condition"}
    BY <1>0, <2>0, Zenon DEF OwnerFailed, WorkerState
  <2>2. /\ worker'[w].event = worker[w].event /\ worker[w].pc \in {"device", "condition"}
        /\ worker'[w].pc \in {"device", "condition"}
    BY <1>0, <1>5, <2>0, <2>1 DEF ConditionFails, OwnerFails, TypeOK, WorkerState
  <2> QED
    BY <1>0, <2>2, EventKinds, Zenon DEF StepOK
<1>6. ASSUME NEW e \in Events, TakeEvent(w, e) PROVE StepOK(worker'[w])
  <2>1. /\ worker'[w].event = e
        /\ worker'[w].pc = IF e[1] = "fleet" THEN "getFleet" ELSE "rollout"
    BY <1>0, <1>6, Zenon DEF TakeEvent, TypeOK, WorkerState
  <2> QED
    BY <2>1, EventKinds, Zenon DEF StepOK
<1> QED
  BY <1>2, <1>3, <1>4, <1>5, <1>6, Zenon DEF Failure

\* Steps of users do not touch the tasks.
LEMMA NextSteps == ASSUME TypeOK, Steps, [Next]_vars PROVE Steps'
<1>1. CASE UNCHANGED vars \/ Users
  <2>1. worker' = worker
    BY <1>1, Zenon DEF vars, Users, DeleteFleet, SetSelector, Decommission, SetLabels
  <2> QED
    BY <2>1, Zenon DEF Steps
<1> QED
  BY <1>1, TaskStep, TurnStep, Zenon DEF Next

-----------------------------------------------------------------------------
(* What happens to a device.                                                *)

\* A worker changes neither labels nor the decommissioning of a device, and when it gives a
\* device another owner, the device is not being decommissioned and the owner is reported.
LEMMA WorkerRows ==
  ASSUME TypeOK, NEW w \in Workers,
         Task(w) \/ Failure(w) \/ \E e \in Events : TakeEvent(w, e), NEW x \in Devices
  PROVE  /\ dev'[x].labels = dev[x].labels /\ dev'[x].retired = dev[x].retired
         /\ \/ dev'[x].owner = dev[x].owner
            \/ ~dev[x].retired /\ queue'[<<"owner", x>>] > 0
<1>0. dev \in [Devices -> Device] /\ dev[x] \in Device
  BY Zenon DEF TypeOK
<1>1. ASSUME NEW d \in Devices, RolloutRead(w, d)
      PROVE  /\ dev'[x].labels = dev[x].labels /\ dev'[x].retired = dev[x].retired
             /\ dev'[x].owner = dev[x].owner
  <2>1. dev' = [dev EXCEPT ![d] = [dev[d] EXCEPT !.skipped = dev'[d].skipped]]
    BY <1>0, <1>1, Zenon DEF RolloutRead, Device
  <2> QED
    BY <1>0, <2>1 DEF Device
<1>2. ASSUME NEW d \in Devices, RolloutWrite(w, d)
      PROVE  /\ dev'[x].labels = dev[x].labels /\ dev'[x].retired = dev[x].retired
             /\ dev'[x].owner = dev[x].owner
  BY <1>0, <1>2, Zenon DEF RolloutWrite, Device
<1>3. ASSUME NEW d \in Devices, SetCondition(w, d)
      PROVE  /\ dev'[x].labels = dev[x].labels /\ dev'[x].retired = dev[x].retired
             /\ dev'[x].owner = dev[x].owner
  BY <1>0, <1>3, Zenon DEF SetCondition, Device
<1>4. ASSUME NEW d \in Devices, WriteOwner(w, d), OwnerAsRead(w, d)
      PROVE  /\ dev'[x].labels = dev[x].labels /\ dev'[x].retired = dev[x].retired
             /\ \/ dev'[x].owner = dev[x].owner
                \/ ~dev[x].retired /\ queue'[<<"owner", x>>] > 0
  <2>1. queue'[<<"owner", d>>] > 0
    BY <1>4, EventKinds, EnqueueType, Zenon DEF WriteOwner
  <2>2. dev' = [dev EXCEPT ![d] = [dev[d] EXCEPT !.owner = NewOwner(w, d)]] /\ ~dev[d].retired
    BY <1>4, Zenon DEF WriteOwner, OwnerAsRead
  <2> HIDE <1>4
  <2> QED
    BY <1>0, <2>1, <2>2, Zenon DEF Device
<1>5. \/ dev' = dev
      \/ \E d \in Devices : \/ RolloutRead(w, d) \/ RolloutWrite(w, d) \/ SetCondition(w, d)
                            \/ WriteOwner(w, d) /\ OwnerAsRead(w, d)
  BY Zenon DEF Task, Failure, TakeEvent, ListDevices, Fetch, NextList, Complete, GetFleet, GetDevice,
         SetOwner, CallFails, WorkerDies, StopEarly, ConditionFails, OwnerFails
<1> QED
  BY <1>1, <1>2, <1>3, <1>4, <1>5, Zenon

\* RetiredUnowned is inductive with the types.
LEMMA RetiredStep == ASSUME TypeOK, RetiredUnowned, [Next]_vars PROVE RetiredUnowned'
<1> SUFFICES ASSUME NEW x \in Devices, dev'[x].retired PROVE dev'[x].owner = NoFleet
  BY Zenon DEF RetiredUnowned
<1>0. dev \in [Devices -> Device] /\ dev[x] \in Device
  BY Zenon DEF TypeOK
<1>1. CASE Users
  <2>1. \/ dev' = dev
        \/ \E d \in Devices : \/ Decommission(d)
                              \/ \E labels \in Labellings : SetLabels(d, labels)
    BY <1>1, Zenon DEF Users, DeleteFleet, SetSelector
  <2>2. ASSUME NEW d \in Devices, Decommission(d) PROVE dev'[x].owner = NoFleet
    <3>1. dev' = [dev EXCEPT ![d] = [[[dev[d] EXCEPT !.retired = TRUE] EXCEPT !.owner = NoFleet]
                                                                     EXCEPT !.labels = {}]]
      BY <1>0, <2>2, Zenon DEF Decommission
    <3>2. dev'[x] = dev[x] \/ dev'[x].owner = NoFleet
      BY <1>0, <3>1, Zenon DEF Device
    <3> QED
      BY <3>2, Zenon DEF RetiredUnowned
  <2>3. ASSUME NEW d \in Devices, NEW labels \in Labellings, SetLabels(d, labels)
        PROVE  dev'[x].owner = NoFleet
    <3>1. dev'[x].owner = dev[x].owner /\ dev'[x].retired = dev[x].retired
      BY <1>0, <2>3, Zenon DEF SetLabels, Device
    <3> QED
      BY <3>1, Zenon DEF RetiredUnowned
  <2> QED
    BY <2>1, <2>2, <2>3, Zenon DEF RetiredUnowned
<1>2. CASE UNCHANGED vars
  BY <1>2, Zenon DEF vars, RetiredUnowned
<1>3. ASSUME NEW w \in Workers, Task(w) \/ Failure(w) \/ \E e \in Events : TakeEvent(w, e)
      PROVE  dev'[x].owner = NoFleet
  BY <1>3, WorkerRows, Zenon DEF RetiredUnowned
<1> QED
  BY <1>1, <1>2, <1>3, Zenon DEF Next

\* A decommissioned device never gets an owner again, whatever tasks are at work on it
\* (SetDeviceOwner refuses the write).
THEOREM RetiredStaysUnowned == Spec => []RetiredUnowned
<1>1. Init => RetiredUnowned
  BY DEF Init, RetiredUnowned, NewDevice
<1> QED
  BY <1>1, SelectorTypes, RetiredStep, PTL DEF Spec

-----------------------------------------------------------------------------
(* The template of the owner.                                               *)

\* A device lacks the template of its owner.
TemplateDue(x) ==
  dev[x].owner # NoFleet /\ ~dev[x].skipped /\ dev[x].spec # dev[x].owner

\* An event about its owner is in the queue, or with a worker that will copy the template
\* or return the event.
Carried(x) ==
  \/ queue[<<"owner", x>>] > 0
  \/ \E w \in Workers : /\ worker[w].event = <<"owner", x>>
                        /\ worker[w].pc \in {"rollout", "deploy"} \/ worker[w].failed

TemplateInv == \A x \in Devices : TemplateDue(x) => Carried(x)

\* A device with the same owner lacks a template after a step of a worker only if it did
\* before; one whose template was just copied, or skipped, does not.
LEMMA WorkerTemplate ==
  ASSUME TypeOK, NEW w \in Workers,
         Task(w) \/ Failure(w) \/ \E e \in Events : TakeEvent(w, e),
         NEW x \in Devices, dev'[x].owner = dev[x].owner, TemplateDue(x)'
  PROVE  TemplateDue(x)
<1>0. dev \in [Devices -> Device] /\ dev[x] \in Device
  BY Zenon DEF TypeOK
<1>1. ASSUME NEW d \in Devices, RolloutRead(w, d) PROVE TemplateDue(x)
  <2>1. dev' = [dev EXCEPT ![d] = [dev[d] EXCEPT !.skipped = dev[d].skipped \/
                             (dev[d].owner # NoFleet /\ dev[d].multi # {})]]
    BY <1>0, <1>1, Zenon DEF RolloutRead
  <2>2. dev'[x].spec = dev[x].spec /\ (dev[x].skipped => dev'[x].skipped)
    BY <1>0, <2>1, Zenon DEF Device
  <2> QED
    BY <2>2, Zenon DEF TemplateDue
<1>2. ASSUME NEW d \in Devices, RolloutWrite(w, d) PROVE TemplateDue(x)
  <2> DEFINE owner == worker[w].rows[d].owner
             same == dev[d].owner = owner /\ ~dev[d].retired
  <2>1. CASE ~same
    BY <1>2, <2>1, Zenon DEF RolloutWrite, TemplateDue
  <2>2. CASE same
    <3>1. dev' = [dev EXCEPT ![d] = [[dev[d] EXCEPT !.spec = owner] EXCEPT !.skipped = FALSE]]
      BY <1>0, <1>2, <2>2, Zenon DEF RolloutWrite
    <3>2. CASE x = d
      BY <1>0, <2>2, <3>1, <3>2, Zenon DEF TemplateDue, Device
    <3>3. CASE x # d
      BY <1>0, <3>1, <3>3, Zenon DEF TemplateDue
    <3> QED
      BY <3>2, <3>3, Zenon
  <2> QED
    BY <2>1, <2>2, Zenon
<1>3. ASSUME NEW d \in Devices, SetCondition(w, d) \/ WriteOwner(w, d) PROVE TemplateDue(x)
  <2>1. dev'[x].spec = dev[x].spec /\ dev'[x].skipped = dev[x].skipped
    <3>1. CASE SetCondition(w, d)
      BY <1>0, <3>1, Zenon DEF SetCondition, Device
    <3>2. CASE WriteOwner(w, d)
      BY <1>0, <3>2, Zenon DEF WriteOwner, Device
    <3> QED
      BY <1>3, <3>1, <3>2, Zenon
  <2> QED
    BY <2>1, Zenon DEF TemplateDue
<1>4. \/ dev' = dev
      \/ \E d \in Devices : \/ RolloutRead(w, d) \/ RolloutWrite(w, d) \/ SetCondition(w, d)
                            \/ WriteOwner(w, d)
  BY Zenon DEF Task, Failure, TakeEvent, ListDevices, Fetch, NextList, Complete, GetFleet, GetDevice,
         SetOwner, CallFails, WorkerDies, StopEarly, ConditionFails, OwnerFails
<1> QED
  BY <1>1, <1>2, <1>3, <1>4, Zenon DEF TemplateDue

\* Only TakeEvent takes an event out of the queue.
LEMMA WorkerQueue ==
  ASSUME TypeOK, Steps, NEW w \in Workers, Task(w) \/ Failure(w), NEW e \in Events
  PROVE  queue'[e] >= queue[e]
<1>0. worker[w].pc # "idle" => worker[w].event \in Events
  BY Zenon DEF Steps, StepOK
<1>1. queue' = queue \/ \E x \in Events : Enqueue(x)
  <2>1. \A d \in Devices : WriteOwner(w, d) => Enqueue(<<"owner", d>>)
    BY Zenon DEF WriteOwner
  <2>2. CASE Task(w)
    <3>1. CASE Complete(w)
      BY <1>0, <3>1, Zenon DEF Complete, At
    <3>2. CASE ~Complete(w)
      BY <2>1, <2>2, <3>2, EventKinds, Zenon DEF Task, ListDevices, Fetch, NextList, GetFleet,
         RolloutRead, RolloutWrite, GetDevice, SetOwner, SetCondition
    <3> QED
      BY <3>1, <3>2, Zenon
  <2>3. CASE Failure(w)
    BY <1>0, <2>1, <2>3, EventKinds, Zenon DEF Failure, CallFails, WorkerDies, StopEarly,
       ConditionFails, OwnerFails, At
  <2> QED
    BY <2>2, <2>3, Zenon
<1> QED
  BY <1>1, EnqueueType DEF TypeOK

\* The other workers go on with what they do.
LEMMA OtherWorkers ==
  ASSUME TypeOK, NEW w \in Workers, Task(w) \/ Failure(w) \/ \E e \in Events : TakeEvent(w, e)
  PROVE  \A v \in Workers \ {w} : worker'[v] = worker[v]
  BY ZenonT(40)
     DEF Task, ListDevices, Fetch, NextList, Complete, GetFleet, RolloutRead, RolloutWrite,
         GetDevice, SetOwner, SetCondition, Failure, CallFails, WorkerDies, StopEarly,
         ConditionFails, OwnerFails, TakeEvent, TypeOK

\* A worker that holds an event about an owner copies the template, finds that there is
\* nothing to copy, or returns the event.
LEMMA HolderStep ==
  ASSUME TypeOK, Steps, NEW w \in Workers, Task(w) \/ Failure(w),
         NEW x \in Devices, worker[w].event = <<"owner", x>>, TemplateDue(x)', TemplateDue(x),
         worker[w].pc \in {"rollout", "deploy"} \/ worker[w].failed
  PROVE  Carried(x)'
<1>0. /\ worker[w] \in WorkerState /\ StepOK(worker[w]) /\ <<"owner", x>> \in Events
      /\ dev \in [Devices -> Device] /\ dev[x] \in Device
  BY EventKinds, Zenon DEF TypeOK, Steps
<1>1. worker[w].pc \in {"rollout", "deploy", "end"} /\ Kind(w) = "owner" /\ worker[w].event[2] = x
  BY <1>0 DEF StepOK, Kind
<1>2. \/ RolloutRead(w, x) \/ RolloutWrite(w, x) \/ Complete(w) \/ CallFails(w) \/ WorkerDies(w)
  <2>1. /\ ~At(w, "list") /\ ~At(w, "fetch") /\ ~At(w, "device") /\ ~At(w, "condition")
        /\ ~At(w, "getFleet") /\ ~At(w, "getDevice")
    BY <1>1, Zenon DEF At
  <2>2. ASSUME Task(w) PROVE RolloutRead(w, x) \/ RolloutWrite(w, x) \/ Complete(w)
    <3>1. \/ Complete(w) \/ \E d \in Devices : RolloutRead(w, d) \/ RolloutWrite(w, d)
      BY <2>1, <2>2, Zenon DEF Task, ListDevices, Fetch, NextList, GetFleet, GetDevice, SetOwner,
                        SetCondition
    <3>2. ASSUME NEW d \in Devices, RolloutRead(w, d) \/ RolloutWrite(w, d) PROVE d = x
      BY <1>1, <3>2, Zenon DEF RolloutRead, RolloutWrite
    <3> QED
      BY <3>1, <3>2, Zenon
  <2>3. ASSUME Failure(w) PROVE CallFails(w) \/ WorkerDies(w)
    <3>1. ~StopEarly(w)
      BY <1>1, Zenon DEF StopEarly
    <3> QED
      BY <2>1, <2>3, <3>1, Zenon DEF Failure, ConditionFails, OwnerFails
  <2> QED
    BY <2>2, <2>3, Zenon
<1>3. CASE RolloutRead(w, x)
  <2> DEFINE owned == dev[x].owner # NoFleet
             skip == owned /\ dev[x].multi # {}
             deploy == owned /\ ~skip /\ dev[x].owner \in fleets
  <2>1. dev' = [dev EXCEPT ![x] = [dev[x] EXCEPT !.skipped = dev[x].skipped \/ skip]]
    BY <1>0, <1>3, Zenon DEF RolloutRead
  <2>2. owned /\ ~skip
    BY <1>0, <2>1, Zenon DEF TemplateDue, Device
  <2>3. /\ worker'[w].event = worker[w].event
        /\ worker'[w].pc = IF deploy THEN "deploy" ELSE AfterRollout(w)
        /\ worker'[w].failed = (owned /\ ~skip /\ ~deploy)
    BY <1>0, <1>3, Zenon DEF RolloutRead, TypeOK, WorkerState
  <2>4. worker'[w].pc = "deploy" \/ worker'[w].failed
    BY <2>2, <2>3, Zenon
  <2> QED
    BY <2>3, <2>4, Zenon DEF Carried
<1>4. CASE RolloutWrite(w, x)
  <2> DEFINE owner == worker[w].rows[x].owner
             same == dev[x].owner = owner /\ ~dev[x].retired
  <2>1. ~same
    <3> SUFFICES ASSUME same PROVE FALSE
      BY Zenon
    <3>1. dev' = [dev EXCEPT ![x] = [[dev[x] EXCEPT !.spec = owner] EXCEPT !.skipped = FALSE]]
      BY <1>0, <1>4, Zenon DEF RolloutWrite
    <3> QED
      BY <1>0, <3>1, Zenon DEF TemplateDue, Device
  <2>2. worker'[w].event = worker[w].event /\ worker'[w].failed = ~same
    BY <1>0, <1>4, Zenon DEF RolloutWrite, TypeOK, WorkerState
  <2> QED
    BY <2>1, <2>2, Zenon DEF Carried
<1>5. CASE Complete(w)
  <2>1. Enqueue(<<"owner", x>>)
    BY <1>5, Zenon DEF Complete, At
  <2> QED
    BY <1>0, <2>1, EnqueueType, Zenon DEF Carried
<1>6. CASE CallFails(w)
  <2>1. worker'[w] = [worker[w] EXCEPT !.failed = TRUE, !.pc = AfterRollout(w), !.rows = Idle.rows]
    BY <1>1, <1>6, Zenon DEF CallFails, TypeOK
  <2> QED
    BY <1>0, <2>1, Zenon DEF Carried, WorkerState
<1>7. CASE WorkerDies(w)
  <2>1. Enqueue(<<"owner", x>>)
    BY <1>7, Zenon DEF WorkerDies
  <2> QED
    BY <1>0, <2>1, EnqueueType DEF Carried
<1> QED
  BY <1>2, <1>3, <1>4, <1>5, <1>6, <1>7, Zenon

\* TemplateInv is inductive with the types and the order of the steps.
LEMMA TemplateStep == ASSUME TypeOK, Steps, TemplateInv, [Next]_vars PROVE TemplateInv'
<1> SUFFICES ASSUME NEW x \in Devices, TemplateDue(x)' PROVE Carried(x)'
  BY Zenon DEF TemplateInv
<1>0. dev \in [Devices -> Device] /\ dev[x] \in Device /\ <<"owner", x>> \in Events
  BY EventKinds, Zenon DEF TypeOK
<1>1. CASE Users
  <2>1. worker' = worker /\ (queue' = queue \/ \E e \in Events : Enqueue(e))
    BY <1>1, EventKinds, Zenon DEF Users, DeleteFleet, SetSelector, Decommission, SetLabels
  <2>3. queue[<<"owner", x>>] > 0 => queue'[<<"owner", x>>] > 0
    <3>1. ASSUME NEW e \in Events, Enqueue(e) PROVE queue'[<<"owner", x>>] >= queue[<<"owner", x>>]
      BY <1>0, <3>1, EnqueueType, Zenon
    <3>2. queue[<<"owner", x>>] \in Nat /\ queue'[<<"owner", x>>] \in Nat
      BY <1>0, <1>1, UsersType, Zenon DEF TypeOK
    <3> QED
      BY <2>1, <3>1, <3>2
  <2>2. TemplateDue(x)
    <3>1. \/ dev' = dev
          \/ \E d \in Devices : \/ Decommission(d)
                                \/ \E labels \in Labellings : SetLabels(d, labels)
      BY <1>1, Zenon DEF Users, DeleteFleet, SetSelector
    <3>2. ASSUME NEW d \in Devices, Decommission(d) PROVE TemplateDue(x)
      <4>1. dev' = [dev EXCEPT ![d] = [[[dev[d] EXCEPT !.retired = TRUE] EXCEPT !.owner = NoFleet]
                                                                       EXCEPT !.labels = {}]]
        BY <1>0, <3>2, Zenon DEF Decommission
      <4>2. dev'[x] = dev[x] \/ dev'[x].owner = NoFleet
        BY <1>0, <4>1, Zenon DEF Device
      <4> QED
        BY <4>2, Zenon DEF TemplateDue
    <3>3. ASSUME NEW d \in Devices, NEW labels \in Labellings, SetLabels(d, labels)
          PROVE  TemplateDue(x)
      BY <1>0, <3>3, Zenon DEF SetLabels, Device, TemplateDue
    <3> QED
      BY <3>1, <3>2, <3>3, Zenon DEF TemplateDue
  <2> QED
    BY <2>1, <2>2, <2>3, Zenon DEF TemplateInv, Carried
<1>2. CASE UNCHANGED vars
  BY <1>2, Zenon DEF vars, TemplateInv, TemplateDue, Carried
<1>3. ASSUME NEW w \in Workers, Task(w) \/ Failure(w) \/ \E e \in Events : TakeEvent(w, e)
      PROVE  Carried(x)'
  <2>1. CASE dev'[x].owner # dev[x].owner
    BY <1>3, <2>1, WorkerRows, Zenon DEF Carried
  <2>2. CASE dev'[x].owner = dev[x].owner
    <3>1. TemplateDue(x) /\ Carried(x)
      BY <1>3, <2>2, WorkerTemplate, Zenon DEF TemplateInv
    <3>2. CASE queue[<<"owner", x>>] > 0
      <4>1. CASE Task(w) \/ Failure(w)
        BY <1>0, <3>2, <4>1, WorkerQueue, NextType DEF Carried, Next, TypeOK
      <4>2. ASSUME NEW e \in Events, TakeEvent(w, e) PROVE Carried(x)'
        <5>1. CASE e = <<"owner", x>>
          <6>1. worker'[w].event = e /\ worker'[w].pc = "rollout"
            BY <4>2, <5>1 DEF TakeEvent, TypeOK, WorkerState
          <6> QED
            BY <5>1, <6>1, Zenon DEF Carried
        <5>2. CASE e # <<"owner", x>>
          BY <1>0, <3>2, <4>2, <5>2, Zenon DEF TakeEvent, TypeOK, Carried
        <5> QED
          BY <5>1, <5>2, Zenon
      <4> QED
        BY <1>3, <4>1, <4>2, Zenon
    <3>3. ASSUME NEW v \in Workers, worker[v].event = <<"owner", x>>,
                 worker[v].pc \in {"rollout", "deploy"} \/ worker[v].failed
          PROVE  Carried(x)'
      <4>1. CASE v # w
        BY <1>3, <3>3, <4>1, OtherWorkers, Zenon DEF Carried
      <4>2. CASE v = w /\ (Task(w) \/ Failure(w))
        BY <3>1, <3>3, <4>2, HolderStep, Zenon
      <4>3. CASE v = w /\ \E e \in Events : TakeEvent(w, e)
        <5>1. worker[w] = Idle
          BY <4>3, Zenon DEF Steps, StepOK, TakeEvent, At
        <5> QED
          BY <3>3, <4>3, <5>1 DEF Idle, NoEvent
      <4> QED
        BY <1>3, <4>1, <4>2, <4>3, Zenon
    <3>4. CASE ~(queue[<<"owner", x>>] > 0)
      <4>1. PICK v \in Workers : /\ worker[v].event = <<"owner", x>>
                                 /\ worker[v].pc \in {"rollout", "deploy"} \/ worker[v].failed
        BY <3>1, <3>4, Zenon DEF Carried
      <4> QED
        BY <4>1, <3>3, Zenon
    <3> QED
      BY <3>2, <3>4, Zenon
  <2> QED
    BY <2>1, <2>2, Zenon
<1> QED
  BY <1>1, <1>2, <1>3, Zenon DEF Next

\* For any number of workers: when no event about its owner is left, a device has the
\* template of its owner unless RolloutDevice skipped it in a conflict.
THEOREM OwnerTemplateReached == Spec => []OwnerTemplateCopied
<1>1. Init => Steps
  BY InitSteps, Zenon
<1>2. Init => TemplateInv
  BY DEF Init, TemplateInv, TemplateDue, NewDevice
<1>3. TypeOK /\ Steps /\ TemplateInv => OwnerTemplateCopied
  <2> SUFFICES ASSUME TemplateInv, NEW d \in Devices, dev[d].owner # NoFleet, ~dev[d].skipped,
                      ~Pending(<<"owner", d>>)
               PROVE  dev[d].spec = dev[d].owner
    BY Zenon DEF OwnerTemplateCopied
  <2>1. ~Carried(d)
    BY Zenon DEF Carried, Pending
  <2> QED
    BY <2>1, Zenon DEF TemplateInv, TemplateDue
<1> QED
  BY <1>1, <1>2, <1>3, SelectorTypes, NextSteps, TemplateStep, PTL DEF Spec
-----------------------------------------------------------------------------
(* The right owner.  What follows is about a task with state s, a device d  *)
(* with row row, the fleets Q with an event in the queue and the selectors  *)
(* sel of all fleets.                                                       *)

\* Owner and condition are what the rules ask for, but for matches of the fleets in C.
Explained(row, sel, C) ==
  \E M \in SUBSET Fleets :
    /\ row.owner = OwnerFor(M, row.owner) /\ row.multi = MessageFor(M)
    /\ \A g \in Fleets \ C : g \in M <=> LabelsMatch(row.labels, sel[g])

Listing == {"fetch", "device", "condition"}

\* The device is as the task read it, but for the owner the task has set.
ReadRight(s, d, row) ==
  (s.pc \in Listing /\ d \in s.list) =>
    /\ s.rows[d].labels = row.labels /\ s.rows[d].multi = row.multi /\ ~s.rows[d].retired
    /\ d \notin s.at => s.rows[d].owner = row.owner
    /\ (d \in s.at /\ (s.event[1] = "fleet" \/ ~s.failed)) =>
          row.owner = OwnerFor(MatchingFleets(s.rows[d].labels, s.known), s.rows[d].owner)
    /\ s.pc = "fetch" \/ s.fetched \/ row.labels = {}

\* The fleet of the task's event may be the reason that the device is not right, and for an
\* event about the labels of the device there may be any reason.
Base(s, d, row, Q, sel) ==
  \/ s.event = <<"labels", d>>
  \/ Explained(row, sel, Q \union {f \in Fleets : s.event = <<"fleet", f>>})

\* A task for new labels makes the device right.
LabelsStage(s, d, row, Q, sel) ==
  (s.event = <<"labels", d>> /\ ~s.failed) =>
    \/ Explained(row, sel, Q)
    \/ s.pc \in Listing /\ d \in s.list
    \/ s.pc \in {"rollout", "deploy", "getDevice"}

Orphan(row, f, sel) == row.owner = f /\ ~LabelsMatch(row.labels, sel[f])

\* A task for fleet f makes the device right, or will see it in one of the lists to come, or
\* need not: the device is no orphan, then not selected, then not in a conflict either.
FleetStage(s, f, d, row, Q, sel) ==
  (s.event = <<"fleet", f>> /\ ~s.failed /\ f \notin Q) =>
    \/ Explained(row, sel, Q)
    \/ s.pc \in Listing /\ d \in s.list
    \/ s.pc = "getFleet"
    \/ s.pc = "list" /\ s.phase = "orphans"
    \/ /\ (s.pc \in Listing /\ s.phase = "orphans") \/ (s.pc = "list" /\ s.phase = "matching")
       /\ ~Orphan(row, f, sel)
    \/ /\ (s.pc \in Listing /\ s.phase = "matching") \/ (s.pc = "list" /\ s.phase = "multi")
       /\ ~Orphan(row, f, sel) /\ ~LabelsMatch(row.labels, sel[f])

\* All of it, for a device that is in use and has no event about its labels waiting.
Local(s, d, row, waiting, Q, sel) ==
  \/ row.retired \/ waiting
  \/ /\ ReadRight(s, d, row) /\ Base(s, d, row, Q, sel) /\ LabelsStage(s, d, row, Q, sel)
     /\ \A f \in Fleets : FleetStage(s, f, d, row, Q, sel)

\* The selectors that the task read are the present ones, or an event tells otherwise.
SelRight(s, Q, sel) ==
  /\ s.fetched => \A g \in Fleets \ Q : s.known[g] = sel[g]
  /\ \A f \in Fleets \ Q :
       (s.event = <<"fleet", f>> /\ s.pc \in Listing \union {"list"}) => s.sel = sel[f]

\* A task begins without a list, a task for labels has one device, and a task sets one
\* condition at a time.
ListRight(s) ==
  /\ s.pc \in {"idle", "getFleet", "rollout", "deploy", "getDevice"} =>
       s.phase = "orphans" /\ ~s.fetched /\ s.list = {}
  /\ s.event[1] = "labels" => s.list \subseteq {s.event[2]}
  /\ \A x, y \in s.at : x = y

Queued == {f \in Fleets : queue[<<"fleet", f>>] > 0}
Waiting(d) == queue[<<"labels", d>>] > 0

OwnInv(w) ==
  /\ ListRight(worker[w])
  /\ SelRight(worker[w], Queued, selector)
  /\ \A d \in Devices : Local(worker[w], d, dev[d], Waiting(d), Queued, selector)

\* The rules with other fleets in question, for a row with the same owner, labels and
\* condition.
LEMMA ExplainedGrows ==
  ASSUME NEW row, NEW row2, NEW sel, NEW sel2, NEW C, NEW C2, Explained(row, sel, C),
         row2.owner = row.owner, row2.multi = row.multi, row2.labels = row.labels,
         \A g \in Fleets \ C2 : g \notin C /\ sel2[g] = sel[g]
  PROVE  Explained(row2, sel2, C2)
  BY Zenon DEF Explained

\* Owner and condition were set as the rules ask for.
LEMMA Assigned ==
  ASSUME NEW row, NEW sel, NEW C, NEW M \in SUBSET Fleets, NEW o,
         row.owner = OwnerFor(M, o), row.multi = MessageFor(M),
         \A g \in Fleets \ C : g \in M <=> LabelsMatch(row.labels, sel[g])
  PROVE  Explained(row, sel, C)
<1>1. OwnerFor(M, row.owner) = OwnerFor(M, o)
  BY Zenon DEF OwnerFor
<1> QED
  BY <1>1, Zenon DEF Explained

\* The owner was set, the condition not yet: either that needs no change, or the fleets of
\* the conflict it tells of leave any owner.
LEMMA HalfAssigned ==
  ASSUME NEW row, NEW row2, NEW sel, NEW C, NEW M \in SUBSET Fleets,
         Explained(row, sel, C),
         row2.labels = row.labels, row2.multi = row.multi, row2.owner = OwnerFor(M, row.owner),
         \A g \in Fleets \ C : g \in M <=> LabelsMatch(row.labels, sel[g])
  PROVE  Explained(row2, sel, C)
<1>1. PICK N \in SUBSET Fleets :
        /\ row.owner = OwnerFor(N, row.owner) /\ row.multi = MessageFor(N)
        /\ \A g \in Fleets \ C : g \in N <=> LabelsMatch(row.labels, sel[g])
  BY Zenon DEF Explained
<1>2. CASE Several(N)
  <2>1. row2.owner = OwnerFor(N, row2.owner)
    BY <1>2, Zenon DEF OwnerFor, Several
  <2> QED
    BY <1>1, <2>1, Zenon DEF Explained
<1>3. CASE ~Several(N) /\ ~Several(M)
  <2>1. row2.multi = MessageFor(M)
    BY <1>1, <1>3, Zenon DEF MessageFor
  <2> QED
    BY <2>1, Assigned, Zenon
<1>4. CASE Several(M)
  <2>1. row2.owner = row.owner
    BY <1>4, Zenon DEF OwnerFor, Several
  <2> QED
    BY <2>1, ExplainedGrows, Zenon
<1> QED
  BY <1>2, <1>3, <1>4, Zenon

\* A device that fleet f neither owns nor selects, and that is in no conflict, does not
\* depend on f.
LEMMA Unaffected ==
  ASSUME NEW row, NEW sel, NEW C, NEW f \in Fleets, Explained(row, sel, C \union {f}),
         row.owner # f, ~LabelsMatch(row.labels, sel[f]), row.multi = {}
  PROVE  Explained(row, sel, C)
<1>1. PICK N \in SUBSET Fleets :
        /\ row.owner = OwnerFor(N, row.owner) /\ row.multi = MessageFor(N)
        /\ \A g \in Fleets \ (C \union {f}) : g \in N <=> LabelsMatch(row.labels, sel[g])
  BY Zenon DEF Explained
<1>2. ~Several(N)
  BY <1>1, Zenon DEF MessageFor, Several
<1>3. f \notin N
  <2> SUFFICES ASSUME f \in N PROVE FALSE
    BY Zenon
  <2>1. N = {f}
    BY <1>2, Zenon DEF Several
  <2>2. OwnerFor(N, row.owner) = f
    BY <1>2, <2>1, Zenon DEF OwnerFor
  <2> QED
    BY <1>1, <2>2, Zenon
<1> QED
  BY <1>1, <1>3, Zenon DEF Explained

\* More events in the queue, or other selectors with an event each, change nothing for a
\* device whose row keeps its owner, condition, labels and use.
LEMMA LocalGrows ==
  ASSUME NEW s, NEW d, NEW row, NEW row2, NEW waiting, NEW waiting2, NEW Q, NEW Q2, NEW sel, NEW sel2,
         Local(s, d, row, waiting, Q, sel),
         row2.owner = row.owner, row2.multi = row.multi, row2.labels = row.labels,
         row2.retired = row.retired, waiting => waiting2, Q \subseteq Q2,
         \A g \in Fleets \ Q2 : sel2[g] = sel[g]
  PROVE  Local(s, d, row2, waiting2, Q2, sel2)
<1> SUFFICES ASSUME ~row2.retired, ~waiting2
             PROVE  /\ ReadRight(s, d, row2) /\ Base(s, d, row2, Q2, sel2)
                    /\ LabelsStage(s, d, row2, Q2, sel2)
                    /\ \A f \in Fleets : FleetStage(s, f, d, row2, Q2, sel2)
  BY Zenon DEF Local
<1>0. /\ ReadRight(s, d, row) /\ Base(s, d, row, Q, sel) /\ LabelsStage(s, d, row, Q, sel)
      /\ \A f \in Fleets : FleetStage(s, f, d, row, Q, sel)
  BY Zenon DEF Local
<1>1. Explained(row, sel, Q) => Explained(row2, sel2, Q2)
  BY ExplainedGrows, Zenon
<1>2. ReadRight(s, d, row2)
  BY <1>0, Zenon DEF ReadRight
<1>3. Base(s, d, row2, Q2, sel2)
  <2> DEFINE F == {f \in Fleets : s.event = <<"fleet", f>>}
  <2>1. CASE s.event = <<"labels", d>>
    BY <2>1, Zenon DEF Base
  <2>2. CASE Explained(row, sel, Q \union F)
    <3>1. \A g \in Fleets \ (Q2 \union F) : g \notin Q \union F /\ sel2[g] = sel[g]
      BY Zenon
    <3>2. Explained(row2, sel2, Q2 \union F)
      BY <2>2, <3>1, ExplainedGrows, Zenon
    <3> QED
      BY <3>2, Zenon DEF Base
  <2> QED
    BY <1>0, <2>1, <2>2, Zenon DEF Base
<1>4. LabelsStage(s, d, row2, Q2, sel2)
  BY <1>0, <1>1, Zenon DEF LabelsStage
<1>5. ASSUME NEW f \in Fleets PROVE FleetStage(s, f, d, row2, Q2, sel2)
  <2> SUFFICES ASSUME f \notin Q2 PROVE FleetStage(s, f, d, row2, Q2, sel2)
    BY Zenon DEF FleetStage
  <2>1. FleetStage(s, f, d, row, Q, sel) /\ f \notin Q /\ sel2[f] = sel[f]
    BY <1>0, Zenon
  <2>2. Orphan(row2, f, sel2) = Orphan(row, f, sel)
    BY <2>1, Zenon DEF Orphan
  <2> QED
    BY <1>1, <2>1, <2>2, Zenon DEF FleetStage
<1> QED
  BY <1>2, <1>3, <1>4, <1>5, Zenon

LEMMA SelGrows ==
  ASSUME NEW s, NEW Q, NEW Q2, NEW sel, NEW sel2, SelRight(s, Q, sel), Q \subseteq Q2,
         \A g \in Fleets \ Q2 : sel2[g] = sel[g]
  PROVE  SelRight(s, Q2, sel2)
  BY Zenon DEF SelRight

\* What the task makes of a device it has read and fetched the fleets for.
LEMMA Judged ==
  ASSUME NEW s, NEW d, NEW row, NEW Q, NEW sel, ReadRight(s, d, row), SelRight(s, Q, sel),
         s.pc \in {"device", "condition"}, d \in s.list
  PROVE  \A g \in Fleets \ Q : g \in MatchingFleets(s.rows[d].labels, s.known)
                                 <=> LabelsMatch(row.labels, sel[g])
<1>1. s.rows[d].labels = row.labels /\ (s.fetched \/ row.labels = {})
  BY Zenon DEF ReadRight, Listing
<1>2. CASE row.labels = {}
  BY <1>1, <1>2, Zenon DEF MatchingFleets, LabelsMatch
<1>3. CASE s.fetched
  BY <1>1, <1>3, Zenon DEF SelRight, MatchingFleets
<1> QED
  BY <1>1, <1>2, <1>3, Zenon

\* A step of the task that leaves the device alone keeps Local if it keeps what the task
\* knows of the device and the stage it is at.
LEMMA LocalTask ==
  ASSUME NEW s, NEW s2, NEW d, NEW row, NEW row2, NEW waiting, NEW Q, NEW sel,
         Local(s, d, row, waiting, Q, sel), s2.event = s.event,
         row2.owner = row.owner, row2.multi = row.multi, row2.labels = row.labels,
         row2.retired = row.retired,
         (~row.retired /\ ReadRight(s, d, row)) => ReadRight(s2, d, row),
         LabelsStage(s, d, row, Q, sel) => LabelsStage(s2, d, row, Q, sel),
         \A f \in Fleets : FleetStage(s, f, d, row, Q, sel) /\ Base(s, d, row, Q, sel) => FleetStage(s2, f, d, row, Q, sel)
  PROVE  Local(s2, d, row2, waiting, Q, sel)
<1>1. Local(s2, d, row, waiting, Q, sel)
  BY Zenon DEF Local, Base
<1> QED
  BY <1>1, LocalGrows

\* A task for another kind of event has nothing to show of a stage.
LEMMA OtherStages ==
  ASSUME NEW s, NEW d, NEW row, NEW Q, NEW sel
  PROVE  /\ s.event[1] # "labels" => LabelsStage(s, d, row, Q, sel)
         /\ s.event[1] # "fleet" => \A f \in Fleets : FleetStage(s, f, d, row, Q, sel)
<1>1. \A x : (s.event = <<"labels", x>> => s.event[1] = "labels")
             /\ (s.event = <<"fleet", x>> => s.event[1] = "fleet")
  OBVIOUS
<1> QED
  BY <1>1, Zenon DEF LabelsStage, FleetStage

\* Neither has a task for labels that has not read the device.
LEMMA EarlyStages ==
  ASSUME NEW s, NEW d, NEW row, NEW Q, NEW sel, s.pc \in {"rollout", "deploy", "getDevice"}
  PROVE  LabelsStage(s, d, row, Q, sel)
  BY Zenon DEF LabelsStage

\* An error leaves nothing to show of the stages.
LEMMA FailedStages ==
  ASSUME NEW s2, NEW d, NEW row, NEW Q, NEW sel, s2.failed
  PROVE  /\ LabelsStage(s2, d, row, Q, sel)
         /\ \A f \in Fleets : FleetStage(s2, f, d, row, Q, sel)
  BY Zenon DEF LabelsStage, FleetStage

-----------------------------------------------------------------------------
(* The steps of a task, with the queue as it is afterwards.                 *)

Ahead(w) ==
  /\ ListRight(worker[w]) /\ SelRight(worker[w], Queued', selector)
  /\ \A d \in Devices : Local(worker[w], d, dev[d], Waiting(d)', Queued', selector)

After(w) ==
  /\ ListRight(worker'[w]) /\ SelRight(worker'[w], Queued', selector)
  /\ \A d \in Devices : Local(worker'[w], d, dev'[d], Waiting(d)', Queued', selector)

\* The rollout of a template.
LEMMA OwnRollout ==
  ASSUME TypeOK, Steps, NEW w \in Workers, Ahead(w), NEW e \in Devices,
         RolloutRead(w, e) \/ RolloutWrite(w, e)
  PROVE  After(w)
<1> USE DEF At, Kind, AfterRollout
<1>0. worker[w] \in WorkerState /\ StepOK(worker[w]) /\ dev \in [Devices -> Device]
  BY Zenon DEF TypeOK, Steps
<1>1. /\ worker'[w].event = worker[w].event /\ worker'[w].phase = worker[w].phase
      /\ worker'[w].list = worker[w].list /\ worker'[w].at = worker[w].at
      /\ worker'[w].fetched = worker[w].fetched /\ worker'[w].known = worker[w].known
      /\ worker[w].pc \in {"rollout", "deploy"}
      /\ worker'[w].pc = AfterRollout(w) \/ worker'[w].pc = "deploy"
  <2>1. CASE RolloutRead(w, e)
    BY <1>0, <2>1, Zenon DEF RolloutRead, TypeOK, WorkerState
  <2>2. CASE RolloutWrite(w, e)
    BY <1>0, <2>2, Zenon DEF RolloutWrite, TypeOK, WorkerState
  <2> QED
    BY <2>1, <2>2, Zenon
<1>2. \A d \in Devices : /\ dev'[d].owner = dev[d].owner /\ dev'[d].multi = dev[d].multi
                         /\ dev'[d].labels = dev[d].labels /\ dev'[d].retired = dev[d].retired
  <2>1. CASE RolloutRead(w, e)
    <3>1. dev' = [dev EXCEPT ![e] = [dev[e] EXCEPT !.skipped = dev'[e].skipped]]
      BY <1>0, <2>1, Zenon DEF RolloutRead, Device
    <3> QED
      BY <1>0, <3>1 DEF Device
  <2>2. CASE RolloutWrite(w, e)
    BY <1>0, <2>2 DEF RolloutWrite, Device
  <2> QED
    BY <2>1, <2>2, Zenon
<1>3. worker[w].event[1] # "fleet" /\ worker[w].event \in Events
  BY <1>0, <1>1, EventKinds, Zenon DEF StepOK
<1>4. ListRight(worker'[w])
  BY <1>1, Zenon DEF Ahead, ListRight
<1>5. SelRight(worker'[w], Queued', selector)
  BY <1>1, <1>3 DEF Ahead, SelRight
<1>6. ASSUME NEW d \in Devices PROVE Local(worker'[w], d, dev'[d], Waiting(d)', Queued', selector)
  <2>1. ReadRight(worker'[w], d, dev[d])
    BY <1>1, Zenon DEF ReadRight, Listing
  <2>2. LabelsStage(worker'[w], d, dev[d], Queued', selector)
    <3>1. \/ worker'[w].pc \in {"rollout", "deploy", "getDevice"}
          \/ worker'[w].event[1] # "labels"
      BY <1>1, Zenon
    <3> QED
      BY <3>1, EarlyStages, OtherStages
  <2>3. \A f \in Fleets : FleetStage(worker'[w], f, d, dev[d], Queued', selector)
    <3>1. worker'[w].event[1] # "fleet"
      BY <1>1, <1>3, Zenon
    <3> QED
      BY <3>1, OtherStages, Zenon
  <2>4. Local(worker[w], d, dev[d], Waiting(d)', Queued', selector)
    BY Zenon DEF Ahead
  <2>5. worker'[w].event = worker[w].event
    BY <1>1, Zenon
  <2> QED
    BY <1>2, <2>1, <2>2, <2>3, <2>4, <2>5, LocalTask, ZenonT(30)
<1> QED
  BY <1>4, <1>5, <1>6, Zenon DEF After

\* Reading the fleet, the fleets or the device.
LEMMA OwnRead ==
  ASSUME TypeOK, Steps, NEW w \in Workers, Ahead(w),
         Fetch(w) \/ (\E f \in Fleets : GetFleet(w, f)) \/ \E e \in Devices : GetDevice(w, e)
  PROVE  After(w)
<1> USE DEF At, Kind
<1>0. /\ worker[w] \in WorkerState /\ StepOK(worker[w]) /\ OnList(worker[w])
      /\ dev \in [Devices -> Device]
  BY Zenon DEF TypeOK, Steps
<1>1. CASE Fetch(w)
  <2>1. /\ worker'[w] = [worker[w] EXCEPT !.known = selector, !.fetched = TRUE, !.pc = "device"]
        /\ worker[w].pc = "fetch"
    BY <1>0, <1>1, Zenon DEF Fetch, TypeOK
  <2>0. dev' = dev
    BY <1>1, Zenon DEF Fetch
  <2>2. /\ worker'[w].event = worker[w].event /\ worker'[w].phase = worker[w].phase
        /\ worker'[w].list = worker[w].list /\ worker'[w].at = {} /\ worker[w].at = {}
        /\ worker'[w].rows = worker[w].rows /\ worker'[w].sel = worker[w].sel
        /\ worker'[w].failed = worker[w].failed /\ worker'[w].pc = "device"
        /\ worker'[w].fetched /\ worker'[w].known = selector
    BY <1>0, <2>1, Zenon DEF WorkerState, OnList
  <2>3. ListRight(worker'[w])
    BY <2>2, Zenon DEF Ahead, ListRight
  <2>4. SelRight(worker'[w], Queued', selector)
    BY <2>1, <2>2 DEF Ahead, SelRight, Listing
  <2>5. ASSUME NEW d \in Devices PROVE Local(worker'[w], d, dev'[d], Waiting(d)', Queued', selector)
    <3>1. ReadRight(worker[w], d, dev[d]) => ReadRight(worker'[w], d, dev[d])
      BY <2>1, <2>2, Zenon DEF ReadRight, Listing
    <3>2. LabelsStage(worker[w], d, dev[d], Queued', selector)
            => LabelsStage(worker'[w], d, dev[d], Queued', selector)
      BY <2>1, <2>2, Zenon DEF LabelsStage, Listing
    <3>3. \A f \in Fleets : FleetStage(worker[w], f, d, dev[d], Queued', selector)
            => FleetStage(worker'[w], f, d, dev[d], Queued', selector)
      BY <2>1, <2>2, Zenon DEF FleetStage, Listing
    <3>4. Local(worker[w], d, dev[d], Waiting(d)', Queued', selector)
      BY Zenon DEF Ahead
    <3>5. worker'[w].event = worker[w].event /\ dev'[d] = dev[d]
      BY <2>0, <2>2, Zenon
    <3> QED
      BY <3>1, <3>2, <3>3, <3>4, <3>5, LocalTask, Zenon
  <2> QED
    BY <2>3, <2>4, <2>5, Zenon DEF After
<1>2. ASSUME NEW f \in Fleets, GetFleet(w, f) PROVE After(w)
  <2>1. /\ worker'[w] = [worker[w] EXCEPT !.sel = selector[f], !.pc = "list"]
        /\ worker[w].pc = "getFleet" /\ worker[w].event[2] = f
    BY <1>0, <1>2, Zenon DEF GetFleet, TypeOK
  <2>0. dev' = dev
    BY <1>2, Zenon DEF GetFleet
  <2>2. /\ worker'[w].event = worker[w].event /\ worker'[w].phase = worker[w].phase
        /\ worker'[w].list = worker[w].list /\ worker'[w].at = worker[w].at
        /\ worker'[w].sel = selector[f] /\ worker'[w].pc = "list"
        /\ worker'[w].fetched = worker[w].fetched
    BY <1>0, <2>1, Zenon DEF WorkerState
  <2>3. worker[w].event = <<"fleet", f>> /\ ~worker[w].fetched /\ worker[w].phase = "orphans"
    BY <1>0, <2>1, EventKinds, Zenon DEF StepOK, Ahead, ListRight
  <2>4. ListRight(worker'[w])
    BY <2>2, Zenon DEF Ahead, ListRight
  <2>5. SelRight(worker'[w], Queued', selector)
    BY <2>2, <2>3 DEF SelRight
  <2>6. ASSUME NEW d \in Devices PROVE Local(worker'[w], d, dev'[d], Waiting(d)', Queued', selector)
    <3>1. ReadRight(worker'[w], d, dev[d])
      BY <2>2, Zenon DEF ReadRight, Listing
    <3>2. LabelsStage(worker'[w], d, dev[d], Queued', selector)
      <4>1. worker'[w].event[1] # "labels"
        BY <2>2, <2>3
      <4> QED
        BY <4>1, OtherStages, Zenon
    <3>3. \A g \in Fleets : FleetStage(worker'[w], g, d, dev[d], Queued', selector)
      BY <2>2, <2>3, Zenon DEF FleetStage
    <3>4. Local(worker[w], d, dev[d], Waiting(d)', Queued', selector)
      BY Zenon DEF Ahead
    <3>5. worker'[w].event = worker[w].event /\ dev'[d] = dev[d]
      BY <2>0, <2>2, Zenon
    <3> QED
      BY <3>1, <3>2, <3>3, <3>4, <3>5, LocalTask, Zenon
  <2> QED
    BY <2>4, <2>5, <2>6, Zenon DEF After
<1>3. ASSUME NEW e \in Devices, GetDevice(w, e) PROVE After(w)
  <2>1. PICK p \in {"device", "fetch"} :
          /\ worker'[w] = [worker[w] EXCEPT !.rows = [worker[w].rows EXCEPT ![e] = dev[e]],
                             !.list = {e}, !.pc = p]
          /\ p = "device" => dev[e].labels = {}
    BY <1>0, <1>3, Zenon DEF GetDevice, TypeOK
  <2>2. /\ worker[w].pc = "getDevice" /\ worker[w].event[2] = e /\ dev' = dev
        /\ worker[w].at = {}
    BY <1>0, <1>3, Zenon DEF GetDevice, OnList
  <2>3. /\ worker'[w].event = worker[w].event /\ worker'[w].list = {e} /\ worker'[w].at = {}
        /\ worker'[w].rows[e] = dev[e] /\ worker'[w].fetched = worker[w].fetched
        /\ worker'[w].pc = p
    BY <1>0, <2>1, <2>2 DEF WorkerState
  <2>4. worker[w].event = <<"labels", e>> /\ ~worker[w].fetched
    BY <1>0, <2>2, EventKinds, Zenon DEF StepOK, Ahead, ListRight
  <2>5. ListRight(worker'[w])
    BY <2>3, <2>4 DEF ListRight
  <2>6. SelRight(worker'[w], Queued', selector)
    BY <2>3, <2>4 DEF SelRight
  <2>7. ASSUME NEW d \in Devices PROVE Local(worker'[w], d, dev'[d], Waiting(d)', Queued', selector)
    <3>1. ~dev[d].retired => ReadRight(worker'[w], d, dev[d])
      BY <2>1, <2>3, Zenon DEF ReadRight, Listing
    <3>2. LabelsStage(worker'[w], d, dev[d], Queued', selector)
      BY <2>1, <2>3, <2>4 DEF LabelsStage, Listing
    <3>3. \A g \in Fleets : FleetStage(worker'[w], g, d, dev[d], Queued', selector)
      <4>1. worker'[w].event[1] # "fleet"
        BY <2>3, <2>4
      <4> QED
        BY <4>1, OtherStages, Zenon
    <3>4. Local(worker[w], d, dev[d], Waiting(d)', Queued', selector)
      BY Zenon DEF Ahead
    <3>5. worker'[w].event = worker[w].event /\ dev'[d] = dev[d]
      BY <2>2, <2>3, Zenon
    <3> QED
      BY <3>1, <3>2, <3>3, <3>4, <3>5, LocalTask, Zenon
  <2> QED
    BY <2>5, <2>6, <2>7, Zenon DEF After
<1> QED
  BY <1>1, <1>2, <1>3, Zenon

\* Listing devices: what the list leaves out is no orphan, not selected, in no conflict.
LEMMA OwnList ==
  ASSUME TypeOK, Steps, NEW w \in Workers, Ahead(w), ListDevices(w)
  PROVE  After(w)
<1> DEFINE list == {d \in Devices : Listed(w, d)}
           s == worker[w]
<1>0. /\ s \in WorkerState /\ StepOK(s) /\ OnList(s) /\ dev' = dev
  BY Zenon DEF TypeOK, Steps, ListDevices
<1>1. PICK p \in {"device", "fetch"} :
        /\ worker'[w] = [s EXCEPT !.list = list,
                           !.rows = [d \in Devices |-> IF d \in list THEN dev[d] ELSE NewDevice],
                           !.pc = p]
        /\ (list # {} /\ p = "device") => s.fetched
  BY <1>0, Zenon DEF ListDevices, TypeOK
<1>2. s.pc = "list" /\ s.at = {}
  BY <1>0, Zenon DEF ListDevices, At, OnList
<1>3. /\ worker'[w].event = s.event /\ worker'[w].list = list /\ worker'[w].at = {}
      /\ worker'[w].fetched = s.fetched /\ worker'[w].known = s.known /\ worker'[w].sel = s.sel
      /\ worker'[w].phase = s.phase /\ worker'[w].failed = s.failed /\ worker'[w].pc = p
      /\ \A d \in list : worker'[w].rows[d] = dev[d]
  BY <1>0, <1>1, <1>2 DEF WorkerState
<1>4. s.event[1] = "fleet"
  BY <1>0, <1>2, EventKinds, Zenon DEF StepOK
<1>5. ListRight(worker'[w])
  BY <1>3, <1>4, Zenon DEF ListRight
<1>6. SelRight(worker'[w], Queued', selector)
  BY <1>2, <1>3, Zenon DEF Ahead, SelRight, Listing
<1>7. ASSUME NEW d \in Devices PROVE Local(worker'[w], d, dev'[d], Waiting(d)', Queued', selector)
  <2>1. ~dev[d].retired => ReadRight(worker'[w], d, dev[d])
    BY <1>1, <1>3, Zenon DEF ReadRight, Listing
  <2>2. LabelsStage(worker'[w], d, dev[d], Queued', selector)
    <3>1. worker'[w].event[1] # "labels"
      BY <1>3, <1>4, Zenon
    <3> QED
      BY <3>1, OtherStages, Zenon
  <2>3. ASSUME NEW f \in Fleets, FleetStage(s, f, d, dev[d], Queued', selector),
               Base(s, d, dev[d], Queued', selector)
        PROVE  FleetStage(worker'[w], f, d, dev[d], Queued', selector)
    <3> SUFFICES ASSUME s.event = <<"fleet", f>>, ~s.failed, f \notin Queued', d \notin list,
                        ~Explained(dev[d], selector, Queued')
                 PROVE  \/ s.phase = "orphans" /\ ~Orphan(dev[d], f, selector)
                        \/ /\ s.phase = "matching" /\ ~Orphan(dev[d], f, selector)
                           /\ ~LabelsMatch(dev[d].labels, selector[f])
      BY <1>3, Zenon DEF FleetStage, Listing
    <3>0. SelRight(s, Queued', selector)
      BY Zenon DEF Ahead
    <3>1. s.sel = selector[f] /\ s.event[2] = f
      BY <1>2, <3>0 DEF SelRight
    <3>2. ~Listed(w, d)
      BY Zenon
    <3>3. \/ s.phase = "orphans"
          \/ s.phase = "matching" /\ ~Orphan(dev[d], f, selector)
          \/ s.phase = "multi" /\ ~Orphan(dev[d], f, selector)
             /\ ~LabelsMatch(dev[d].labels, selector[f])
      BY <1>2, <2>3, Zenon DEF FleetStage, Listing
    <3>4. CASE s.phase = "orphans"
      BY <3>1, <3>2, <3>4, Zenon DEF Listed, Orphan
    <3>5. CASE s.phase = "matching"
      BY <3>1, <3>2, <3>3, <3>5, Zenon DEF Listed
    <3>6. CASE s.phase = "multi"
      <4>1. dev[d].multi = {} /\ dev[d].owner # f /\ ~LabelsMatch(dev[d].labels, selector[f])
        BY <3>2, <3>3, <3>6, Zenon DEF Listed, Orphan
      <4>2. {g \in Fleets : s.event = <<"fleet", g>>} = {f}
        OBVIOUS
      <4>3. Explained(dev[d], selector, Queued' \union {f})
        BY <2>3, <4>2 DEF Base
      <4> QED
        BY <4>1, <4>3, Unaffected, Zenon
    <3> QED
      BY <3>3, <3>4, <3>5, <3>6, ZenonT(30)
  <2>4. Local(s, d, dev[d], Waiting(d)', Queued', selector)
    BY Zenon DEF Ahead
  <2>5. worker'[w].event = s.event /\ dev'[d] = dev[d]
    BY <1>0, <1>3, Zenon
  <2> HIDE DEF s
  <2> QED
    BY <2>1, <2>2, <2>3, <2>4, <2>5, LocalTask, ZenonT(30)
<1> QED
  BY <1>5, <1>6, <1>7, Zenon DEF After

\* The end of a list.
LEMMA OwnNext ==
  ASSUME TypeOK, Steps, NEW w \in Workers, Ahead(w), NextList(w)
  PROVE  After(w)
<1> DEFINE s == worker[w]
<1>0. /\ s \in WorkerState /\ StepOK(s) /\ OnList(s) /\ dev' = dev
      /\ s.pc = "device" /\ s.list = {}
  BY Zenon DEF TypeOK, Steps, NextList, At
<1>1. PICK p \in {"end", "list"}, h \in {"orphans", "matching", "multi"} :
        /\ worker'[w] = [s EXCEPT !.pc = p, !.phase = h]
        /\ p = "end" => s.event[1] = "labels" \/ s.phase = "multi"
        /\ p = "list" => /\ s.event[1] # "labels"
                         /\ \/ s.phase = "orphans" /\ h = "matching"
                            \/ s.phase = "orphans" /\ h = "multi" /\ s.sel = {}
                            \/ s.phase = "matching" /\ h = "multi"
  <2>1. CASE Kind(w) = "labels" \/ s.phase = "multi"
    <3>1. worker'[w] = [s EXCEPT !.pc = "end"] /\ s.phase \in {"orphans", "matching", "multi"}
      BY <1>0, <2>1, Zenon DEF NextList, TypeOK, WorkerState
    <3>2. [s EXCEPT !.pc = "end"] = [s EXCEPT !.pc = "end", !.phase = s.phase]
      BY <1>0, Zenon DEF WorkerState
    <3> QED
      BY <2>1, <3>1, <3>2, Zenon DEF Kind
  <2>2. CASE ~(Kind(w) = "labels" \/ s.phase = "multi")
    <3> DEFINE q == IF s.phase = "orphans" /\ s.sel # {} THEN "matching" ELSE "multi"
    <3>1. worker'[w] = [s EXCEPT !.pc = "list", !.phase = q]
      BY <1>0, <2>2, Zenon DEF NextList, TypeOK
    <3>2. s.phase \in {"orphans", "matching"}
      BY <1>0, <2>2, Zenon DEF WorkerState
    <3> QED
      BY <2>2, <3>1, <3>2, Zenon DEF Kind
  <2> QED
    BY <2>1, <2>2, Zenon
<1>2. /\ worker'[w].event = s.event /\ worker'[w].list = s.list /\ worker'[w].at = s.at
      /\ worker'[w].fetched = s.fetched /\ worker'[w].known = s.known /\ worker'[w].sel = s.sel
      /\ worker'[w].phase = h /\ worker'[w].failed = s.failed /\ worker'[w].pc = p
  BY <1>0, <1>1, Zenon DEF WorkerState
<1>3. ListRight(worker'[w])
  BY <1>2, Zenon DEF Ahead, ListRight
<1>4. SelRight(worker'[w], Queued', selector)
  BY <1>0, <1>2, Zenon DEF Ahead, SelRight, Listing
<1>5. ASSUME NEW d \in Devices PROVE Local(worker'[w], d, dev'[d], Waiting(d)', Queued', selector)
  <2>1. ReadRight(worker'[w], d, dev[d])
    BY <1>1, <1>2, Zenon DEF ReadRight, Listing
  <2>2. LabelsStage(s, d, dev[d], Queued', selector)
          => LabelsStage(worker'[w], d, dev[d], Queued', selector)
    BY <1>0, <1>2, Zenon DEF LabelsStage
  <2>3. ASSUME NEW f \in Fleets, FleetStage(s, f, d, dev[d], Queued', selector)
        PROVE  FleetStage(worker'[w], f, d, dev[d], Queued', selector)
    <3> SUFFICES ASSUME s.event = <<"fleet", f>>, ~s.failed, f \notin Queued',
                        ~Explained(dev[d], selector, Queued')
                 PROVE  FleetStage(worker'[w], f, d, dev[d], Queued', selector)
      BY <1>2, Zenon DEF FleetStage
    <3>1. /\ ~Orphan(dev[d], f, selector)
          /\ \/ s.phase = "orphans"
             \/ s.phase = "matching" /\ ~LabelsMatch(dev[d].labels, selector[f])
      BY <1>0, <2>3, Zenon DEF FleetStage, Listing
    <3>2. s.sel = {} => ~LabelsMatch(dev[d].labels, selector[f])
      BY <1>0, Zenon DEF Ahead, SelRight, Listing, LabelsMatch
    <3> QED
      BY <1>1, <1>2, <3>1, <3>2 DEF FleetStage
  <2>4. Local(s, d, dev[d], Waiting(d)', Queued', selector)
    BY Zenon DEF Ahead
  <2>5. worker'[w].event = s.event /\ dev'[d] = dev[d]
    BY <1>0, <1>2, Zenon
  <2> HIDE DEF s
  <2> QED
    BY <2>1, <2>2, <2>3, <2>4, <2>5, LocalTask, ZenonT(30)
<1> QED
  BY <1>3, <1>4, <1>5, Zenon DEF After

\* Another device than the one the task is at.
LEMMA LocalOther ==
  ASSUME NEW s, NEW s2, NEW d, NEW e, NEW row, NEW waiting, NEW Q, NEW sel,
         Local(s, d, row, waiting, Q, sel), d # e,
         s2.event = s.event, s2.phase = s.phase, s2.fetched = s.fetched, s2.known = s.known,
         s2.rows[d] = s.rows[d], s2.list \in {s.list, s.list \ {e}}, d \notin s.at, d \notin s2.at,
         s2.failed \/ s2.failed = s.failed,
         s.pc \in {"device", "condition"}, s2.pc \in {"device", "condition"}
  PROVE  Local(s2, d, row, waiting, Q, sel)
<1>1. d \in s2.list <=> d \in s.list
  BY Zenon
<1>2. ReadRight(s, d, row) => ReadRight(s2, d, row)
  BY <1>1, Zenon DEF ReadRight, Listing
<1>3. LabelsStage(s, d, row, Q, sel) => LabelsStage(s2, d, row, Q, sel)
  BY <1>1, Zenon DEF LabelsStage, Listing
<1>4. \A f \in Fleets : FleetStage(s, f, d, row, Q, sel) => FleetStage(s2, f, d, row, Q, sel)
  BY <1>1, Zenon DEF FleetStage, Listing
<1> QED
  BY <1>2, <1>3, <1>4, Zenon DEF Local, Base

\* A task that goes on from one device keeps what it knows of the fleets.
LEMMA KnowsOn ==
  ASSUME NEW s, NEW s2, NEW Q, NEW sel, SelRight(s, Q, sel), s.pc \in {"device", "condition"},
         s2.event = s.event, s2.fetched = s.fetched, s2.known = s.known, s2.sel = s.sel
  PROVE  SelRight(s2, Q, sel)
  BY Zenon DEF SelRight, Listing

\* The task goes on with the same event, list of devices to come and fleets.
SameTask(s, s2) ==
  /\ s2.event = s.event /\ s2.phase = s.phase /\ s2.fetched = s.fetched
  /\ s2.known = s.known /\ s2.sel = s.sel

LEMMA LeaveState ==
  ASSUME TypeOK, NEW w \in Workers, NEW e \in Devices
  PROVE  /\ SameTask(worker[w], Leave(w, e)) /\ Leave(w, e).list = worker[w].list \ {e}
         /\ Leave(w, e).at = {} /\ Leave(w, e).pc = "device"
         /\ \A d \in Devices \ {e} : Leave(w, e).rows[d] = worker[w].rows[d]
         /\ Leave(w, e).failed = worker[w].failed
<1>1. worker[w].rows \in [Devices -> Device]
  BY Zenon DEF TypeOK, WorkerState
<1>2. Leave(w, e).rows = [worker[w].rows EXCEPT ![e] = NewDevice]
  BY LeaveType, Zenon
<1>3. \A d \in Devices \ {e} : Leave(w, e).rows[d] = worker[w].rows[d]
  BY <1>1, <1>2, Zenon
<1>4. SameTask(worker[w], Leave(w, e))
  BY LeaveType, Zenon DEF SameTask
<1>5. /\ Leave(w, e).list = worker[w].list \ {e} /\ Leave(w, e).at = {}
      /\ Leave(w, e).pc = "device" /\ Leave(w, e).failed = worker[w].failed
  BY LeaveType, Zenon
<1> QED
  BY <1>3, <1>4, <1>5, Zenon

\* The task can not set the owner.
LEMMA OwnerFailedState ==
  ASSUME TypeOK, NEW w \in Workers, NEW e \in Devices
  PROVE  /\ SameTask(worker[w], OwnerFailed(w, e)) /\ OwnerFailed(w, e).failed
         /\ \A d \in Devices \ {e} : OwnerFailed(w, e).rows[d] = worker[w].rows[d]
         /\ \/ /\ OwnerFailed(w, e).pc = "condition" /\ OwnerFailed(w, e).at = {e}
               /\ OwnerFailed(w, e).list = worker[w].list /\ Kind(w) = "labels"
               /\ OwnerFailed(w, e).rows = worker[w].rows
            \/ /\ OwnerFailed(w, e).pc = "device" /\ OwnerFailed(w, e).at = {}
               /\ OwnerFailed(w, e).list = worker[w].list \ {e}
<1>0. worker[w] \in WorkerState /\ Leave(w, e) \in WorkerState
  BY LeaveType, Zenon DEF TypeOK
<1>1. CASE Kind(w) = "labels" /\ worker[w].rows[e].labels # {}
  <2>1. OwnerFailed(w, e) = [worker[w] EXCEPT !.pc = "condition", !.at = {e}, !.failed = TRUE]
    BY <1>1, Zenon DEF OwnerFailed
  <2> QED
    BY <1>0, <1>1, <2>1, Zenon DEF SameTask, WorkerState
<1>2. CASE ~(Kind(w) = "labels" /\ worker[w].rows[e].labels # {})
  <2>1. OwnerFailed(w, e) = [Leave(w, e) EXCEPT !.failed = TRUE]
    BY <1>2, Zenon DEF OwnerFailed
  <2>2. /\ OwnerFailed(w, e).failed /\ OwnerFailed(w, e).pc = Leave(w, e).pc
        /\ OwnerFailed(w, e).at = Leave(w, e).at /\ OwnerFailed(w, e).list = Leave(w, e).list
        /\ OwnerFailed(w, e).rows = Leave(w, e).rows /\ SameTask(Leave(w, e), OwnerFailed(w, e))
    BY <1>0, <2>1, Zenon DEF SameTask, WorkerState
  <2>0. /\ SameTask(worker[w], Leave(w, e))
        /\ \A d \in Devices \ {e} : Leave(w, e).rows[d] = worker[w].rows[d]
    BY LeaveState, Zenon
  <2>3. SameTask(worker[w], OwnerFailed(w, e))
    BY <2>0, <2>2, Zenon DEF SameTask
  <2>4. \A d \in Devices \ {e} : OwnerFailed(w, e).rows[d] = worker[w].rows[d]
    BY <2>0, <2>2, Zenon
  <2>5. /\ OwnerFailed(w, e).pc = "device" /\ OwnerFailed(w, e).at = {}
        /\ OwnerFailed(w, e).list = worker[w].list \ {e}
    BY <2>2, LeaveState, Zenon
  <2> QED
    BY <2>2, <2>3, <2>4, <2>5, Zenon
<1> QED
  BY <1>1, <1>2, Zenon

\* The device itself, when its owner is set or the task failed to do so.
LEMMA LocalOwner ==
  ASSUME NEW s, NEW s2, NEW d, NEW row, NEW row2, NEW waiting, NEW Q, NEW sel,
         Local(s, d, row, waiting, Q, sel), SelRight(s, Q, sel), SameTask(s, s2),
         s.pc = "device", d \in s.list, s.at = {},
         row2.labels = row.labels, row2.multi = row.multi, row2.retired = row.retired,
         \/ row2.owner = row.owner
         \/ row2.owner = OwnerFor(MatchingFleets(s.rows[d].labels, s.known), s.rows[d].owner),
         \/ /\ s2.pc = "condition" /\ s2.at = {d} /\ s2.list = s.list /\ s2.rows[d] = s.rows[d]
            /\ s2.failed = s.failed
            /\ (~row.retired /\ s.rows[d].owner = row.owner /\ ~s.rows[d].retired) =>
                 row2.owner = OwnerFor(MatchingFleets(s.rows[d].labels, s.known), s.rows[d].owner)
         \/ /\ s2.failed
            /\ \/ s2.pc = "condition" /\ s2.at = {d} /\ s2.rows[d] = s.rows[d] /\ s.event[1] = "labels"
               \/ s2.pc = "device" /\ s2.at = {} /\ s2.list = s.list \ {d}
  PROVE  Local(s2, d, row2, waiting, Q, sel)
<1> DEFINE M == MatchingFleets(s.rows[d].labels, s.known)
           F == {f \in Fleets : s.event = <<"fleet", f>>}
<1> SUFFICES ASSUME ~row.retired, ~waiting
             PROVE  /\ ReadRight(s2, d, row2) /\ Base(s2, d, row2, Q, sel)
                    /\ LabelsStage(s2, d, row2, Q, sel)
                    /\ \A f \in Fleets : FleetStage(s2, f, d, row2, Q, sel)
  BY Zenon DEF Local
<1>0. /\ ReadRight(s, d, row) /\ Base(s, d, row, Q, sel)
      /\ s2.event = s.event /\ s2.fetched = s.fetched /\ s2.known = s.known
      /\ M \in SUBSET Fleets
  BY Zenon DEF Local, SameTask, MatchingFleets
<1>1. /\ s.rows[d].labels = row.labels /\ s.rows[d].multi = row.multi /\ ~s.rows[d].retired
      /\ s.rows[d].owner = row.owner /\ (s.fetched \/ row.labels = {})
  BY <1>0, Zenon DEF ReadRight, Listing
<1>2. \A g \in Fleets \ Q : g \in M <=> LabelsMatch(row.labels, sel[g])
  BY <1>0, Judged, Zenon
<1>3. Base(s2, d, row2, Q, sel)
  <2>1. CASE s.event = <<"labels", d>>
    BY <1>0, <2>1, Zenon DEF Base
  <2>2. CASE Explained(row, sel, Q \union F)
    <3>1. Explained(row2, sel, Q \union F)
      <4>1. CASE row2.owner = row.owner
        BY <2>2, <4>1, ExplainedGrows, Zenon
      <4>2. CASE row2.owner = OwnerFor(M, row.owner)
        <5>1. \A g \in Fleets \ (Q \union F) : g \in M <=> LabelsMatch(row.labels, sel[g])
          BY <1>2, Zenon
        <5> HIDE DEF M, F
        <5> QED
          BY <1>0, <2>2, <4>2, <5>1, HalfAssigned, Zenon
      <4> QED
        BY <1>1, <4>1, <4>2, Zenon
    <3> QED
      BY <1>0, <3>1, Zenon DEF Base
  <2> QED
    BY <1>0, <2>1, <2>2, Zenon DEF Base
<1>4. CASE /\ s2.pc = "condition" /\ s2.at = {d} /\ s2.list = s.list /\ s2.rows[d] = s.rows[d]
           /\ s2.failed = s.failed
           /\ row2.owner = OwnerFor(MatchingFleets(s.rows[d].labels, s.known), s.rows[d].owner)
  <2>1. ReadRight(s2, d, row2)
    BY <1>0, <1>1, <1>4, Zenon DEF ReadRight
  <2> QED
    BY <1>3, <1>4, <2>1, Zenon DEF LabelsStage, FleetStage, Listing
<1>5. CASE /\ s2.failed
           /\ \/ s2.pc = "condition" /\ s2.at = {d} /\ s2.rows[d] = s.rows[d] /\ s.event[1] = "labels"
              \/ s2.pc = "device" /\ s2.at = {} /\ s2.list = s.list \ {d}
  <2>1. ReadRight(s2, d, row2)
    BY <1>0, <1>1, <1>5, Zenon DEF ReadRight
  <2> QED
    BY <1>3, <1>5, <2>1, FailedStages, Zenon
<1> QED
  BY <1>1, <1>4, <1>5, Zenon

\* The device itself, when its condition is set or the task failed to do so.
LEMMA LocalCondition ==
  ASSUME NEW s, NEW s2, NEW d, NEW row, NEW row2, NEW waiting, NEW Q, NEW sel,
         Local(s, d, row, waiting, Q, sel), SelRight(s, Q, sel), SameTask(s, s2),
         s.pc = "condition", d \in s.at, d \in s.list,
         s2.pc = "device", s2.list = s.list \ {d},
         s.event[1] = "fleet" \/ s.event = <<"labels", d>>,
         row2.labels = row.labels, row2.owner = row.owner, row2.retired = row.retired,
         \/ row2.multi = row.multi /\ s2.failed
         \/ /\ s2.failed = s.failed
            /\ s.rows[d].multi = row.multi =>
                 row2.multi = MessageFor(MatchingFleets(s.rows[d].labels, s.known))
  PROVE  Local(s2, d, row2, waiting, Q, sel)
<1> DEFINE M == MatchingFleets(s.rows[d].labels, s.known)
           F == {f \in Fleets : s.event = <<"fleet", f>>}
<1> SUFFICES ASSUME ~row.retired, ~waiting
             PROVE  /\ ReadRight(s2, d, row2) /\ Base(s2, d, row2, Q, sel)
                    /\ LabelsStage(s2, d, row2, Q, sel)
                    /\ \A f \in Fleets : FleetStage(s2, f, d, row2, Q, sel)
  BY Zenon DEF Local
<1>0. /\ ReadRight(s, d, row) /\ Base(s, d, row, Q, sel) /\ s2.event = s.event
      /\ M \in SUBSET Fleets
  BY Zenon DEF Local, SameTask, MatchingFleets
<1>1. ReadRight(s2, d, row2)
  BY Zenon DEF ReadRight
<1>2. CASE row2.multi = row.multi /\ s2.failed
  <2>1. Explained(row, sel, Q \union F) => Explained(row2, sel, Q \union F)
    BY <1>2, ExplainedGrows, Zenon
  <2>2. Base(s2, d, row2, Q, sel)
    BY <1>0, <2>1, Zenon DEF Base
  <2> QED
    BY <1>1, <1>2, <2>2, FailedStages, Zenon
<1>3. CASE /\ s2.failed = s.failed
           /\ s.rows[d].multi = row.multi => row2.multi = MessageFor(M)
  <2>1. s.rows[d].multi = row.multi
    BY <1>0, Zenon DEF ReadRight, Listing
  <2>2. CASE s.event[1] = "fleet" \/ ~s.failed
    <3>1. row.owner = OwnerFor(M, s.rows[d].owner)
      BY <1>0, <2>2, Zenon DEF ReadRight, Listing
    <3>2. \A g \in Fleets \ Q : g \in M <=> LabelsMatch(row2.labels, sel[g])
      BY <1>0, Judged, Zenon
    <3>3. row2.owner = OwnerFor(M, s.rows[d].owner) /\ row2.multi = MessageFor(M)
      BY <1>3, <2>1, <3>1, Zenon
    <3>4. Explained(row2, sel, Q)
      <4> HIDE DEF M
      <4> QED
        BY <1>0, <3>2, <3>3, Assigned, Zenon
    <3>5. Explained(row2, sel, Q \union F)
      BY <3>4, ExplainedGrows, Zenon
    <3> QED
      BY <1>0, <1>1, <3>4, <3>5, Zenon DEF Base, LabelsStage, FleetStage
  <2>3. CASE s.event = <<"labels", d>> /\ s.failed
    BY <1>0, <1>1, <1>3, <2>3, FailedStages, Zenon DEF Base
  <2> QED
    BY <2>2, <2>3, Zenon
<1> QED
  BY <1>2, <1>3, Zenon

\* The task is over: it made the device right, or its event is back in the queue.
LEMMA LocalDone ==
  ASSUME NEW s, NEW d, NEW row, NEW waiting, NEW Q, NEW sel, Local(s, d, row, waiting, Q, sel),
         \/ s.pc = "end" /\ ~s.failed
         \/ /\ s.event = <<"labels", d>> => waiting
            /\ \A f \in Fleets : s.event = <<"fleet", f>> => f \in Q
  PROVE  Local(Idle, d, row, waiting, Q, sel)
<1> DEFINE F == {f \in Fleets : s.event = <<"fleet", f>>}
<1> SUFFICES ASSUME ~row.retired, ~waiting
             PROVE  /\ ReadRight(Idle, d, row) /\ Base(Idle, d, row, Q, sel)
                    /\ LabelsStage(Idle, d, row, Q, sel)
                    /\ \A f \in Fleets : FleetStage(Idle, f, d, row, Q, sel)
  BY Zenon DEF Local
<1>0. /\ Base(s, d, row, Q, sel) /\ LabelsStage(s, d, row, Q, sel)
      /\ \A f \in Fleets : FleetStage(s, f, d, row, Q, sel)
  BY Zenon DEF Local
<1>1. /\ Idle.list = {} /\ Idle.event # <<"labels", d>>
      /\ \A f \in Fleets : Idle.event # <<"fleet", f>>
  BY Zenon DEF Idle, NoEvent
<1>2. Explained(row, sel, Q)
  <2>1. CASE s.event = <<"labels", d>>
    BY <1>0, <2>1, Zenon DEF LabelsStage, Listing
  <2>2. CASE s.event # <<"labels", d>>
    <3>1. Explained(row, sel, Q \union F)
      BY <1>0, <2>2, Zenon DEF Base
    <3>2. CASE F \subseteq Q
      BY <3>1, <3>2, ExplainedGrows, Zenon
    <3>3. CASE ~(F \subseteq Q)
      BY <1>0, <3>3, Zenon DEF FleetStage, Listing
    <3> QED
      BY <3>2, <3>3, Zenon
  <2> QED
    BY <2>1, <2>2, Zenon
<1>3. Explained(row, sel, Q \union {f \in Fleets : Idle.event = <<"fleet", f>>})
  BY <1>2, ExplainedGrows, Zenon
<1> QED
  BY <1>1, <1>2, <1>3, Zenon DEF ReadRight, Base, LabelsStage, FleetStage

\* A worker without a task.
LEMMA IdleRight ==
  ASSUME NEW Q, NEW sel
  PROVE  ListRight(Idle) /\ SelRight(Idle, Q, sel)
  BY Zenon DEF ListRight, SelRight, Idle, NoEvent, Listing

-----------------------------------------------------------------------------
(* The steps that write a device, fail, or end the task.                    *)

\* Setting the owner of a device, or failing to.
LEMMA OwnOwner ==
  ASSUME TypeOK, Steps, NEW w \in Workers, Ahead(w), NEW e \in Devices,
         SetOwner(w, e) \/ \E written \in BOOLEAN : OwnerFails(w, e, written)
  PROVE  After(w)
<1> DEFINE s == worker[w]
<1>0. /\ s \in WorkerState /\ OnList(s) /\ dev \in [Devices -> Device] /\ dev[e] \in Device
      /\ s.pc = "device" /\ e \in s.list /\ s.at = {}
  BY Zenon DEF TypeOK, SetOwner, OwnerFails, At, OnList
<1>1. \/ worker'[w] = [s EXCEPT !.pc = "condition", !.at = {e}]
         /\ (ChangesOwner(w, e) => OwnerAsRead(w, e) /\ WriteOwner(w, e))
      \/ worker'[w] = OwnerFailed(w, e)
  <2>1. CASE SetOwner(w, e)
    BY <2>1, Zenon DEF SetOwner, TypeOK
  <2>2. CASE \E written \in BOOLEAN : OwnerFails(w, e, written)
    BY <2>2, Zenon DEF OwnerFails, TypeOK
  <2> QED
    BY <2>1, <2>2, Zenon
<1>2. dev' = dev \/ WriteOwner(w, e)
  BY Zenon DEF SetOwner, OwnerFails
<1>3. /\ \A d \in Devices \ {e} : dev'[d] = dev[d]
      /\ dev'[e].labels = dev[e].labels /\ dev'[e].multi = dev[e].multi
      /\ dev'[e].retired = dev[e].retired
      /\ dev'[e].owner = dev[e].owner \/ dev'[e].owner = NewOwner(w, e)
      /\ WriteOwner(w, e) => dev'[e].owner = NewOwner(w, e)
  BY <1>0, <1>2 DEF WriteOwner, Device
<1>4. /\ SameTask(s, worker'[w])
      /\ \A d \in Devices \ {e} : worker'[w].rows[d] = s.rows[d]
      /\ worker'[w].list \in {s.list, s.list \ {e}} /\ worker'[w].at \subseteq {e}
      /\ worker'[w].pc \in {"device", "condition"}
      /\ worker'[w].failed \/ worker'[w].failed = s.failed
      /\ \/ /\ worker'[w].pc = "condition" /\ worker'[w].at = {e} /\ worker'[w].list = s.list
            /\ worker'[w].rows[e] = s.rows[e] /\ worker'[w].failed = s.failed
            /\ ChangesOwner(w, e) => WriteOwner(w, e)
         \/ /\ worker'[w].failed
            /\ \/ /\ worker'[w].pc = "condition" /\ worker'[w].at = {e}
                  /\ worker'[w].rows[e] = s.rows[e] /\ s.event[1] = "labels"
               \/ /\ worker'[w].pc = "device" /\ worker'[w].at = {}
                  /\ worker'[w].list = s.list \ {e}
  <2>1. CASE /\ worker'[w] = [s EXCEPT !.pc = "condition", !.at = {e}]
             /\ (ChangesOwner(w, e) => OwnerAsRead(w, e) /\ WriteOwner(w, e))
    BY <1>0, <2>1, Zenon DEF WorkerState, SameTask
  <2>2. CASE worker'[w] = OwnerFailed(w, e)
    <3>1. /\ SameTask(s, worker'[w]) /\ worker'[w].failed
          /\ \A d \in Devices \ {e} : worker'[w].rows[d] = s.rows[d]
      <4>1. /\ SameTask(s, OwnerFailed(w, e)) /\ OwnerFailed(w, e).failed
            /\ \A d \in Devices \ {e} : OwnerFailed(w, e).rows[d] = s.rows[d]
        BY OwnerFailedState, Zenon
      <4> QED
        BY <2>2, <4>1, Zenon
    <3>2. \/ /\ worker'[w].pc = "condition" /\ worker'[w].at = {e} /\ worker'[w].list = s.list
             /\ s.event[1] = "labels" /\ worker'[w].rows = s.rows
          \/ /\ worker'[w].pc = "device" /\ worker'[w].at = {} /\ worker'[w].list = s.list \ {e}
      <4>1. \/ /\ OwnerFailed(w, e).pc = "condition" /\ OwnerFailed(w, e).at = {e}
               /\ OwnerFailed(w, e).list = s.list /\ Kind(w) = "labels"
               /\ OwnerFailed(w, e).rows = s.rows
            \/ /\ OwnerFailed(w, e).pc = "device" /\ OwnerFailed(w, e).at = {}
               /\ OwnerFailed(w, e).list = s.list \ {e}
        BY OwnerFailedState, Zenon
      <4> QED
        BY <2>2, <4>1, Zenon DEF Kind
    <3>3. /\ worker'[w].list \in {s.list, s.list \ {e}} /\ worker'[w].at \subseteq {e}
          /\ worker'[w].pc \in {"device", "condition"}
      BY <3>2, Zenon
    <3> QED
      BY <3>1, <3>2, <3>3, Zenon
  <2> QED
    BY <1>1, <2>1, <2>2, Zenon
<1>5. ListRight(worker'[w])
  BY <1>4, Zenon DEF Ahead, ListRight, SameTask
<1>6. SelRight(s, Queued', selector) /\ \A d \in Devices : Local(s, d, dev[d], Waiting(d)', Queued', selector)
  BY Zenon DEF Ahead
<1>7. SelRight(worker'[w], Queued', selector)
  BY <1>0, <1>4, <1>6, KnowsOn, Zenon DEF SameTask
<1>8. ASSUME NEW d \in Devices, d # e
      PROVE  Local(worker'[w], d, dev'[d], Waiting(d)', Queued', selector)
  <2>1. /\ dev'[d] = dev[d] /\ d \notin s.at /\ d \notin worker'[w].at
        /\ worker'[w].rows[d] = s.rows[d]
    BY <1>0, <1>3, <1>4, <1>8, Zenon
  <2>2. Local(worker'[w], d, dev[d], Waiting(d)', Queued', selector)
    BY <1>0, <1>4, <1>6, <1>8, <2>1, LocalOther, Zenon DEF SameTask
  <2> QED
    BY <2>1, <2>2, Zenon
<1>9. Local(worker'[w], e, dev'[e], Waiting(e)', Queued', selector)
  <2>1. NewOwner(w, e) = OwnerFor(MatchingFleets(s.rows[e].labels, s.known), s.rows[e].owner)
    BY Zenon DEF NewOwner, Matching
  <2>2. (~s.rows[e].retired /\ ~ChangesOwner(w, e)) => NewOwner(w, e) = s.rows[e].owner
    BY Zenon DEF ChangesOwner
  <2>3. ASSUME ChangesOwner(w, e) => WriteOwner(w, e), ~s.rows[e].retired,
               s.rows[e].owner = dev[e].owner
        PROVE  dev'[e].owner = NewOwner(w, e)
    BY <1>3, <2>2, <2>3, Zenon
  <2>4. Local(s, e, dev[e], Waiting(e)', Queued', selector)
    BY <1>6, Zenon
  <2>5. SameTask(s, worker'[w]) /\ s.pc = "device" /\ e \in s.list /\ s.at = {}
    BY <1>0, <1>4, Zenon
  <2>6. /\ dev'[e].labels = dev[e].labels /\ dev'[e].multi = dev[e].multi
        /\ dev'[e].retired = dev[e].retired
    BY <1>3, Zenon
  <2>7. \/ dev'[e].owner = dev[e].owner
        \/ dev'[e].owner = OwnerFor(MatchingFleets(s.rows[e].labels, s.known), s.rows[e].owner)
    BY <1>3, <2>1, Zenon
  <2>8. \/ /\ worker'[w].pc = "condition" /\ worker'[w].at = {e} /\ worker'[w].list = s.list
           /\ worker'[w].rows[e] = s.rows[e] /\ worker'[w].failed = s.failed
           /\ (~dev[e].retired /\ s.rows[e].owner = dev[e].owner /\ ~s.rows[e].retired) =>
                dev'[e].owner = OwnerFor(MatchingFleets(s.rows[e].labels, s.known), s.rows[e].owner)
        \/ /\ worker'[w].failed
           /\ \/ /\ worker'[w].pc = "condition" /\ worker'[w].at = {e}
                 /\ worker'[w].rows[e] = s.rows[e] /\ s.event[1] = "labels"
              \/ /\ worker'[w].pc = "device" /\ worker'[w].at = {}
                 /\ worker'[w].list = s.list \ {e}
    BY <1>4, <2>1, <2>3, Zenon
  <2> HIDE DEF s
  <2> QED
    BY <1>6, <2>4, <2>5, <2>6, <2>7, <2>8, LocalOwner, Zenon
<1> QED
  BY <1>5, <1>7, <1>8, <1>9, Zenon DEF After

\* Setting the condition of a device, or failing to.
LEMMA OwnCondition ==
  ASSUME TypeOK, Steps, NEW w \in Workers, Ahead(w), NEW e \in Devices,
         SetCondition(w, e) \/ ConditionFails(w, e)
  PROVE  After(w)
<1> DEFINE s == worker[w]
           m == MessageFor(MatchingFleets(s.rows[e].labels, s.known))
<1>0. /\ s \in WorkerState /\ OnList(s) /\ StepOK(s)
      /\ dev \in [Devices -> Device] /\ dev[e] \in Device
      /\ s.pc = "condition" /\ e \in s.at /\ e \in s.list
  BY Zenon DEF TypeOK, Steps, SetCondition, ConditionFails, At, OnList
<1>a. /\ SameTask(s, Leave(w, e)) /\ Leave(w, e).list = s.list \ {e}
      /\ Leave(w, e).at = {} /\ Leave(w, e).pc = "device"
      /\ \A d \in Devices \ {e} : Leave(w, e).rows[d] = s.rows[d]
      /\ Leave(w, e).failed = s.failed
  BY LeaveState, Zenon
<1>1. /\ SameTask(s, worker'[w]) /\ worker'[w].list = s.list \ {e} /\ worker'[w].at = {}
      /\ worker'[w].pc = "device" /\ \A d \in Devices \ {e} : worker'[w].rows[d] = s.rows[d]
      /\ \/ SetCondition(w, e) /\ worker'[w].failed = s.failed
         \/ ConditionFails(w, e) /\ worker'[w].failed
  <2>1. CASE SetCondition(w, e)
    <3>1. worker'[w] = Leave(w, e)
      BY <2>1, Zenon DEF SetCondition, TypeOK
    <3>2. /\ SameTask(s, worker'[w]) /\ worker'[w].list = s.list \ {e} /\ worker'[w].at = {}
          /\ worker'[w].pc = "device" /\ worker'[w].failed = s.failed
      BY <1>a, <3>1, Zenon
    <3>3. \A d \in Devices \ {e} : worker'[w].rows[d] = s.rows[d]
      BY <1>a, <3>1, Zenon
    <3> QED
      BY <2>1, <3>2, <3>3, Zenon
  <2>2. CASE ConditionFails(w, e)
    <3>1. worker'[w] = [Leave(w, e) EXCEPT !.failed = TRUE]
      BY <2>2, Zenon DEF ConditionFails, TypeOK
    <3>2. /\ worker'[w].failed /\ worker'[w].pc = Leave(w, e).pc /\ worker'[w].at = Leave(w, e).at
          /\ worker'[w].list = Leave(w, e).list /\ worker'[w].rows = Leave(w, e).rows
          /\ SameTask(Leave(w, e), worker'[w])
      BY <3>1, LeaveType DEF WorkerState, SameTask
    <3>3. SameTask(s, worker'[w])
      BY <1>a, <3>2, Zenon DEF SameTask
    <3>4. worker'[w].list = s.list \ {e} /\ worker'[w].at = {} /\ worker'[w].pc = "device"
      BY <1>a, <3>2, Zenon
    <3>5. \A d \in Devices \ {e} : worker'[w].rows[d] = s.rows[d]
      BY <1>a, <3>2, Zenon
    <3> QED
      BY <2>2, <3>2, <3>3, <3>4, <3>5, Zenon
  <2> QED
    BY <2>1, <2>2, Zenon
<1>2. /\ \A d \in Devices \ {e} : dev'[d] = dev[d]
      /\ dev'[e].labels = dev[e].labels /\ dev'[e].owner = dev[e].owner
      /\ dev'[e].retired = dev[e].retired
      /\ ConditionFails(w, e) => dev'[e].multi = dev[e].multi
      /\ SetCondition(w, e) => (s.rows[e].multi = dev[e].multi => dev'[e].multi = m)
  <2>1. CASE SetCondition(w, e)
    <3>1. dev' = IF m # s.rows[e].multi THEN [dev EXCEPT ![e].multi = m] ELSE dev
      BY <2>1, Zenon DEF SetCondition, Matching
    <3>2. ~ConditionFails(w, e) \/ dev' = dev
      BY Zenon DEF ConditionFails
    <3> HIDE DEF m
    <3> QED
      BY <1>0, <3>1, <3>2, Zenon DEF Device
  <2>2. CASE ConditionFails(w, e) /\ ~SetCondition(w, e)
    BY <2>2, Zenon DEF ConditionFails
  <2> QED
    BY <2>1, <2>2, Zenon
<1>3. s.event[1] = "fleet" \/ s.event = <<"labels", e>>
  <2>1. s.event \in Events /\ s.event[1] # "owner"
    BY <1>0, Zenon DEF StepOK
  <2>2. s.event[1] = "labels" => s.event[2] = e
    BY <1>0, Zenon DEF Ahead, ListRight
  <2> QED
    BY <2>1, <2>2, EventKinds, Zenon
<1>4. ListRight(worker'[w]) /\ \A d \in Devices \ {e} : d \notin s.at
  BY <1>0, <1>1, Zenon DEF Ahead, ListRight, SameTask
<1>5. SelRight(s, Queued', selector) /\ \A d \in Devices : Local(s, d, dev[d], Waiting(d)', Queued', selector)
  BY Zenon DEF Ahead
<1>6. SelRight(worker'[w], Queued', selector)
  BY <1>0, <1>1, <1>5, KnowsOn, Zenon DEF SameTask
<1>7. ASSUME NEW d \in Devices, d # e
      PROVE  Local(worker'[w], d, dev'[d], Waiting(d)', Queued', selector)
  <2>1. /\ dev'[d] = dev[d] /\ d \notin s.at /\ d \notin worker'[w].at
        /\ worker'[w].rows[d] = s.rows[d]
    BY <1>1, <1>2, <1>4, <1>7, Zenon
  <2>2. Local(worker'[w], d, dev[d], Waiting(d)', Queued', selector)
    BY <1>0, <1>1, <1>5, <1>7, <2>1, LocalOther, ZenonT(30) DEF SameTask
  <2> QED
    BY <2>1, <2>2, Zenon
<1>8. Local(worker'[w], e, dev'[e], Waiting(e)', Queued', selector)
  <2>1. Local(s, e, dev[e], Waiting(e)', Queued', selector)
    BY <1>5, Zenon
  <2>2. \/ dev'[e].multi = dev[e].multi /\ worker'[w].failed
        \/ worker'[w].failed = s.failed /\ (s.rows[e].multi = dev[e].multi => dev'[e].multi = m)
    BY <1>1, <1>2, Zenon
  <2> HIDE DEF s
  <2> QED
    BY <1>0, <1>1, <1>2, <1>3, <1>5, <2>1, <2>2, LocalCondition, Zenon
<1> QED
  BY <1>4, <1>6, <1>7, <1>8, Zenon DEF After

\* A call fails: the error is kept for the end of the task.
LEMMA OwnCallFails ==
  ASSUME TypeOK, Steps, NEW w \in Workers, Ahead(w), CallFails(w)
  PROVE  After(w)
<1> DEFINE s == worker[w]
<1>0. /\ s \in WorkerState /\ StepOK(s) /\ dev' = dev
      /\ s.pc \in {"rollout", "deploy", "getDevice", "getFleet", "fetch", "list"}
  BY Zenon DEF TypeOK, Steps, CallFails
<1>1. /\ worker'[w].event = s.event /\ worker'[w].list = s.list /\ worker'[w].at = s.at
      /\ worker'[w].fetched = s.fetched /\ worker'[w].known = s.known /\ worker'[w].sel = s.sel
      /\ worker'[w].failed
      /\ \/ worker'[w].pc = "end"
         \/ /\ worker'[w].pc = "getDevice" /\ s.pc \in {"rollout", "deploy"}
            /\ worker'[w].phase = s.phase
         \/ worker'[w].pc = "list" /\ s.pc = "list"
  <2>1. CASE s.pc \in {"rollout", "deploy"}
    <3>1. worker'[w] = [s EXCEPT !.failed = TRUE, !.pc = AfterRollout(w), !.rows = Idle.rows]
      BY <2>1, Zenon DEF CallFails, TypeOK
    <3> QED
      BY <1>0, <2>1, <3>1, Zenon DEF WorkerState, AfterRollout
  <2>2. CASE s.pc = "list" /\ ~Clearing(w) /\ s.phase # "multi"
    <3>1. worker'[w] = [s EXCEPT !.failed = TRUE,
                          !.phase = IF s.phase = "orphans" THEN "matching" ELSE "multi"]
      BY <2>2, Zenon DEF CallFails, TypeOK
    <3> QED
      BY <1>0, <2>2, <3>1, Zenon DEF WorkerState
  <2>3. CASE ~(s.pc \in {"rollout", "deploy"}) /\ ~(s.pc = "list" /\ ~Clearing(w) /\ s.phase # "multi")
    <3>1. worker'[w] = [s EXCEPT !.failed = TRUE, !.pc = "end"]
      BY <2>3, Zenon DEF CallFails, TypeOK
    <3> QED
      BY <1>0, <3>1, Zenon DEF WorkerState
  <2> QED
    BY <2>1, <2>2, <2>3, Zenon
<1>2. ListRight(worker'[w])
  BY <1>1, Zenon DEF Ahead, ListRight
<1>3. SelRight(worker'[w], Queued', selector)
  BY <1>1, Zenon DEF Ahead, SelRight, Listing
<1>4. ASSUME NEW d \in Devices PROVE Local(worker'[w], d, dev'[d], Waiting(d)', Queued', selector)
  <2>1. Local(s, d, dev[d], Waiting(d)', Queued', selector)
    BY Zenon DEF Ahead
  <2>2. ReadRight(worker'[w], d, dev[d])
    BY <1>1, Zenon DEF ReadRight, Listing
  <2>3. /\ LabelsStage(worker'[w], d, dev[d], Queued', selector)
        /\ \A f \in Fleets : FleetStage(worker'[w], f, d, dev[d], Queued', selector)
    BY <1>1, FailedStages, Zenon
  <2>4. worker'[w].event = s.event /\ dev'[d] = dev[d]
    BY <1>0, <1>1, Zenon
  <2> QED
    BY <2>1, <2>2, <2>3, <2>4, LocalTask, Zenon
<1> QED
  BY <1>2, <1>3, <1>4, Zenon DEF After

\* The task is done, or its thread dies.
LEMMA OwnDone ==
  ASSUME TypeOK, Steps, NEW w \in Workers, Ahead(w), Complete(w) \/ WorkerDies(w)
  PROVE  After(w)
<1> DEFINE s == worker[w]
<1>0. /\ worker'[w] = Idle /\ dev' = dev /\ s.event \in Events
      /\ \/ s.pc = "end" /\ ~s.failed
         \/ Enqueue(s.event)
  BY Zenon DEF TypeOK, Steps, StepOK, Complete, WorkerDies, At
<1>1. (s.pc = "end" /\ ~s.failed) \/ queue'[s.event] > 0
  BY <1>0, EnqueueType, Zenon
<1>2. ASSUME NEW d \in Devices PROVE Local(Idle, d, dev[d], Waiting(d)', Queued', selector)
  <2>1. Local(s, d, dev[d], Waiting(d)', Queued', selector)
    BY Zenon DEF Ahead
  <2>2. \/ s.pc = "end" /\ ~s.failed
        \/ /\ s.event = <<"labels", d>> => Waiting(d)'
           /\ \A f \in Fleets : s.event = <<"fleet", f>> => f \in Queued'
    BY <1>1, Zenon DEF Waiting, Queued
  <2> HIDE DEF s
  <2> QED
    BY <2>1, <2>2, LocalDone, Zenon
<1> QED
  BY <1>0, <1>2, IdleRight, Zenon DEF After

\* A worker takes an event: from now on the task answers for it.
LEMMA OwnTake ==
  ASSUME TypeOK, Steps, NEW w \in Workers, OwnInv(w), NEW e \in Events, TakeEvent(w, e)
  PROVE  After(w)
<1> DEFINE s == worker[w]
<1>0. s = Idle /\ dev' = dev /\ queue \in [Events -> Nat]
  BY Zenon DEF TypeOK, Steps, StepOK, TakeEvent, At
<1>1. PICK p \in {"getFleet", "rollout"} :
        worker'[w] = [Idle EXCEPT !.event = e, !.pc = p] /\ (p = "getFleet" <=> e[1] = "fleet")
  BY <1>0, Zenon DEF TakeEvent, TypeOK
<1>2. /\ worker'[w].event = e /\ worker'[w].pc = p /\ worker'[w].list = {}
      /\ worker'[w].at = {} /\ ~worker'[w].fetched /\ worker'[w].phase = "orphans"
  BY <1>1, Zenon DEF Idle
<1>3. \A x \in Events \ {e} : queue'[x] = queue[x]
  BY <1>0, Zenon DEF TakeEvent
<1>4. ListRight(worker'[w]) /\ SelRight(worker'[w], Queued', selector)
  BY <1>2, Zenon DEF ListRight, SelRight, Listing
<1>5. ASSUME NEW d \in Devices PROVE Local(worker'[w], d, dev[d], Waiting(d)', Queued', selector)
  <2> DEFINE F == {f \in Fleets : e = <<"fleet", f>>}
  <2> SUFFICES ASSUME ~dev[d].retired, ~Waiting(d)'
               PROVE  Local(worker'[w], d, dev[d], Waiting(d)', Queued', selector)
    BY Zenon DEF Local
  <2>1. /\ ReadRight(worker'[w], d, dev[d])
        /\ LabelsStage(worker'[w], d, dev[d], Queued', selector)
    BY <1>1, <1>2 DEF ReadRight, LabelsStage, Listing
  <2>2. \A f \in Fleets : FleetStage(worker'[w], f, d, dev[d], Queued', selector)
    BY <1>1, <1>2 DEF FleetStage
  <2>3. Base(worker'[w], d, dev[d], Queued', selector)
    <3>1. CASE e = <<"labels", d>>
      BY <1>2, <3>1, Zenon DEF Base
    <3>2. CASE e # <<"labels", d>>
      <4>1. ~Waiting(d)
        BY <1>3, <3>2, EventKinds, Zenon DEF Waiting
      <4>2. Base(Idle, d, dev[d], Queued, selector)
        BY <1>0, <4>1, Zenon DEF OwnInv, Local
      <4>3. {f \in Fleets : Idle.event = <<"fleet", f>>} = {} /\ Idle.event # <<"labels", d>>
        BY Zenon DEF Idle, NoEvent
      <4>4. Explained(dev[d], selector, Queued \union {})
        BY <4>2, <4>3, Zenon DEF Base
      <4>5. \A g \in Fleets \ (Queued' \union F) : g \notin Queued \union {}
        BY <1>3, EventKinds DEF Queued
      <4>6. Explained(dev[d], selector, Queued' \union F)
        BY <4>4, <4>5, ExplainedGrows, Zenon
      <4> QED
        BY <1>2, <4>6, Zenon DEF Base
    <3> QED
      BY <3>1, <3>2, Zenon
  <2> QED
    BY <2>1, <2>2, <2>3, Zenon DEF Local
<1> QED
  BY <1>0, <1>4, <1>5, Zenon DEF After

\* Events that come to the queue.
LEMMA MoreEvents ==
  ASSUME \A x \in Events : queue'[x] >= queue[x] /\ queue[x] \in Nat /\ queue'[x] \in Nat
  PROVE  Queued \subseteq Queued' /\ \A d \in Devices : Waiting(d) => Waiting(d)'
<1>1. \A x \in Events : queue[x] > 0 => queue'[x] > 0
  OBVIOUS
<1>2. \A f \in Fleets : queue[<<"fleet", f>>] > 0 => queue'[<<"fleet", f>>] > 0
  BY <1>1, EventKinds, Zenon
<1>3. \A d \in Devices : queue[<<"labels", d>>] > 0 => queue'[<<"labels", d>>] > 0
  BY <1>1, EventKinds, Zenon
<1> QED
  BY <1>2, <1>3, Zenon DEF Queued, Waiting

\* Users change a fleet or a device, and an event tells of it.
LEMMA OwnUsers ==
  ASSUME TypeOK, NEW w \in Workers, OwnInv(w), Users
  PROVE  OwnInv(w)'
<1>0. /\ worker' = worker /\ dev \in [Devices -> Device] /\ queue \in [Events -> Nat]
      /\ selector \in [Fleets -> SUBSET Pairs]
  BY Zenon DEF TypeOK, Users, DeleteFleet, SetSelector, Decommission, SetLabels
<1>1. \A x \in Events : queue'[x] >= queue[x] /\ queue[x] \in Nat /\ queue'[x] \in Nat
  <2>1. queue' = queue \/ \E x \in Events : Enqueue(x)
    BY EventKinds, Zenon DEF Users, DeleteFleet, SetSelector, Decommission, SetLabels
  <2> QED
    BY <1>0, <2>1, EnqueueType
<1>2. Queued \subseteq Queued' /\ \A d \in Devices : Waiting(d) => Waiting(d)'
  BY <1>1, MoreEvents, Zenon
<1>3. \A g \in Fleets \ Queued' : selector'[g] = selector[g]
  <2>1. CASE selector' = selector
    BY <2>1, Zenon
  <2>2. ASSUME NEW f \in Fleets, NEW v, selector' = [selector EXCEPT ![f] = v],
               Enqueue(<<"fleet", f>>)
        PROVE  \A g \in Fleets \ Queued' : selector'[g] = selector[g]
    <3>1. f \in Queued'
      BY <2>2, EventKinds, EnqueueType, Zenon DEF Queued
    <3> QED
      BY <1>0, <2>2, <3>1, Zenon
  <2> QED
    BY <2>1, <2>2, Zenon DEF Users, DeleteFleet, SetSelector, Decommission, SetLabels
<1>4. ASSUME NEW d \in Devices
      PROVE  \/ dev'[d] = dev[d] \/ dev'[d].retired \/ Waiting(d)'
  <2>1. CASE dev' = dev
    BY <2>1, Zenon
  <2>2. ASSUME NEW x \in Devices, NEW labels, SetLabels(x, labels)
        PROVE  dev'[d] = dev[d] \/ Waiting(d)'
    <3>1. Waiting(x)'
      BY <2>2, EventKinds, EnqueueType, Zenon DEF SetLabels, Waiting
    <3>2. d # x => dev'[d] = dev[d]
      BY <1>0, <2>2, Zenon DEF SetLabels
    <3> QED
      BY <3>1, <3>2, Zenon
  <2>3. ASSUME NEW x \in Devices, Decommission(x) PROVE dev'[d] = dev[d] \/ dev'[d].retired
    BY <1>0, <2>3, Zenon DEF Decommission, Device
  <2> QED
    BY <2>1, <2>2, <2>3, Zenon DEF Users, DeleteFleet, SetSelector
<1>5. ListRight(worker[w]) /\ SelRight(worker[w], Queued', selector')
  BY <1>2, <1>3, SelGrows, Zenon DEF OwnInv
<1>6. ASSUME NEW d \in Devices PROVE Local(worker[w], d, dev'[d], Waiting(d)', Queued', selector')
  <2>1. CASE dev'[d].retired \/ Waiting(d)'
    BY <2>1, Zenon DEF Local
  <2>2. CASE dev'[d] = dev[d]
    <3>1. Local(worker[w], d, dev[d], Waiting(d), Queued, selector)
      BY Zenon DEF OwnInv
    <3> QED
      BY <1>2, <1>3, <2>2, <3>1, LocalGrows
  <2> QED
    BY <1>4, <2>1, <2>2, Zenon
<1> QED
  BY <1>0, <1>5, <1>6, Zenon DEF OwnInv

\* Every step of the only worker but for stopping early.
LEMMA OwnWorker ==
  ASSUME TypeOK, TypeOK', Steps, NEW w \in Workers, OwnInv(w),
         Task(w) \/ Failure(w) \/ \E e \in Events : TakeEvent(w, e)
  PROVE  stopped' \/ OwnInv(w)'
<1>0. selector' = selector
  BY Zenon DEF Task, ListDevices, Fetch, NextList, Complete, GetFleet, RolloutRead, RolloutWrite,
         GetDevice, SetOwner, SetCondition, Failure, CallFails, WorkerDies, StopEarly,
         ConditionFails, OwnerFails, TakeEvent
<1>1. After(w) => OwnInv(w)'
  BY <1>0, Zenon DEF After, OwnInv
<1>2. CASE \E e \in Events : TakeEvent(w, e)
  BY <1>1, <1>2, OwnTake, Zenon
<1>3. CASE StopEarly(w)
  BY <1>3, Zenon DEF StopEarly
<1>4. CASE Task(w) \/ (Failure(w) /\ ~StopEarly(w))
  <2>1. \A x \in Events : queue'[x] >= queue[x] /\ queue[x] \in Nat /\ queue'[x] \in Nat
    BY <1>4, WorkerQueue, Zenon DEF TypeOK
  <2>2. Queued \subseteq Queued' /\ \A d \in Devices : Waiting(d) => Waiting(d)'
    BY <2>1, MoreEvents, Zenon
  <2>3. SelRight(worker[w], Queued', selector)
    BY <2>2, SelGrows, Zenon DEF OwnInv
  <2>4. ASSUME NEW d \in Devices
        PROVE  Local(worker[w], d, dev[d], Waiting(d)', Queued', selector)
    <3>1. Local(worker[w], d, dev[d], Waiting(d), Queued, selector)
      BY Zenon DEF OwnInv
    <3> QED
      BY <2>2, <3>1, LocalGrows
  <2>5. Ahead(w)
    BY <2>3, <2>4, Zenon DEF OwnInv, Ahead
  <2> QED
    BY Zenon, <1>1, <1>4, <2>5, OwnRollout, OwnRead, OwnList, OwnNext, OwnOwner, OwnCondition,
       OwnCallFails, OwnDone
       DEF Task, Failure
<1> QED
  BY <1>2, <1>3, <1>4, Zenon

\* Initially no device has labels, and none has an owner.
LEMMA OwnInit == ASSUME NEW w \in Workers, Init PROVE OwnInv(w)
<1>1. worker[w] = Idle /\ \A d \in Devices : dev[d] = NewDevice
  BY Zenon DEF Init
<1>2. ASSUME NEW d \in Devices PROVE Local(Idle, d, NewDevice, Waiting(d), Queued, selector)
  <2>1. \A C : Explained(NewDevice, selector, C)
    <3>1. /\ NewDevice.owner = OwnerFor({}, NewDevice.owner) /\ NewDevice.multi = MessageFor({})
          /\ \A g \in Fleets : ~LabelsMatch(NewDevice.labels, selector[g])
      BY Zenon DEF NewDevice, OwnerFor, MessageFor, Several, LabelsMatch
    <3> QED
      BY <3>1 DEF Explained
  <2>2. Idle.list = {} /\ Idle.event # <<"labels", d>>
    BY Zenon DEF Idle, NoEvent
  <2> QED
    BY <2>1, <2>2, Zenon DEF Local, ReadRight, Base, LabelsStage, FleetStage
<1> QED
  BY <1>1, <1>2, IdleRight, Zenon DEF OwnInv

\* When nothing is left to do, every device is right.
LEMMA OwnDoneRight ==
  ASSUME TypeOK, NEW w, Workers = {w}, OwnInv(w)
  PROVE  OwnersAssigned
<1> SUFFICES ASSUME \A e \in Events : e[1] # "owner" => ~Pending(e),
                    NEW d \in Devices, ~dev[d].retired
             PROVE  Settled(d)
  BY DEF OwnersAssigned
<1>1. /\ \A f \in Fleets : ~Pending(<<"fleet", f>>)
      /\ ~Pending(<<"labels", d>>)
  BY EventKinds, Zenon
<1>2. Queued = {} /\ ~Waiting(d)
  BY <1>1, Zenon DEF Pending, Queued, Waiting
<1>3. /\ worker[w].event # <<"labels", d>>
      /\ {f \in Fleets : worker[w].event = <<"fleet", f>>} = {}
  BY <1>1, Zenon DEF Pending
<1>4. Base(worker[w], d, dev[d], Queued, selector)
  BY <1>2, Zenon DEF OwnInv, Local
<1>5. Explained(dev[d], selector, {})
  BY <1>2, <1>3, <1>4, Zenon DEF Base
<1>6. PICK M \in SUBSET Fleets :
        /\ dev[d].owner = OwnerFor(M, dev[d].owner) /\ dev[d].multi = MessageFor(M)
        /\ \A g \in Fleets \ {} : g \in M <=> LabelsMatch(dev[d].labels, selector[g])
  BY <1>5, Zenon DEF Explained
<1>7. M = MatchingFleets(dev[d].labels, selector)
  BY <1>6, Zenon DEF MatchingFleets
<1> QED
  BY <1>6, <1>7, Zenon DEF Settled

\* With one worker, whatever users do in between and whatever fails, is retried or is
\* delivered again: when no event about a fleet or about labels is left, every device in use
\* has the owner and the MultipleOwners condition that FleetSelectorUpdated and
\* DeviceLabelsUpdated are to give it, unless a task stopped early at its timeout.
THEOREM OwnersAssignedRight ==
  ASSUME NEW w, Workers = {w}
  PROVE  Spec => []OwnersRight
<1> DEFINE Inv == stopped \/ OwnInv(w)
<1>0. w \in Workers
  BY Zenon
<1>1. Init => Steps /\ Inv
  BY <1>0, InitSteps, OwnInit, Zenon
<1>2. TypeOK /\ TypeOK' /\ Steps /\ Inv /\ [Next]_vars => Inv'
  <2> SUFFICES ASSUME TypeOK, TypeOK', Steps, Inv, [Next]_vars PROVE Inv'
    BY Zenon
  <2>1. CASE stopped
    <3>1. CASE UNCHANGED vars \/ Users
      BY <2>1, <3>1, Zenon DEF vars, Users, DeleteFleet, SetSelector, Decommission, SetLabels
    <3>2. ASSUME NEW v \in Workers, Task(v) \/ \E e \in Events : TakeEvent(v, e)
          PROVE  stopped'
      BY <2>1, <3>2, Zenon
         DEF Task, ListDevices, Fetch, NextList, Complete, GetFleet, RolloutRead, RolloutWrite,
             GetDevice, SetOwner, SetCondition, TakeEvent
    <3>3. ASSUME NEW v \in Workers, Failure(v) PROVE stopped'
      BY <2>1, <3>3, Zenon
         DEF Failure, CallFails, WorkerDies, StopEarly, ConditionFails, OwnerFails
    <3> QED
      BY <3>1, <3>2, <3>3, Zenon DEF Next
  <2>2. CASE OwnInv(w) /\ UNCHANGED vars
    BY <2>2, Zenon DEF OwnInv, Queued, Waiting, vars
  <2>3. CASE OwnInv(w) /\ Users
    BY <1>0, <2>3, OwnUsers, Zenon
  <2>4. CASE OwnInv(w) /\ \E v \in Workers : Task(v) \/ Failure(v) \/ \E e \in Events : TakeEvent(v, e)
    <3>1. Task(w) \/ Failure(w) \/ \E e \in Events : TakeEvent(w, e)
      BY <2>4, Zenon
    <3> QED
      BY <1>0, <2>4, <3>1, OwnWorker, Zenon
  <2> QED
    BY <2>1, <2>2, <2>3, <2>4, Zenon DEF Next
<1>3. TypeOK /\ Inv => OwnersRight
  BY OwnDoneRight, Zenon DEF OwnersRight
<1>4. TypeOK /\ Steps /\ [Next]_vars => Steps'
  BY NextSteps, Zenon
<1> HIDE DEF Inv
<1> QED
  BY <1>1, <1>2, <1>3, <1>4, SelectorTypes, PTL DEF Spec
============================================================================
