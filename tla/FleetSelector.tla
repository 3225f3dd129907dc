--------------------------- MODULE FleetSelector ---------------------------
(***************************************************************************)
(* Which fleet owns a device: the fleet selector task of the workers       *)
(* (internal/tasks/fleet_selector.go), started by events about fleets and  *)
(* about labels of devices, and the rollout of the owner's template to a   *)
(* single device (RolloutDevice, internal/tasks/fleet_rollout.go).         *)
(*                                                                         *)
(* Labels and selectors are sets of key-value pairs.  A service call that  *)
(* reads or writes the database is one step; a list of more than one page  *)
(* is one call.  A task that returns an error is queued again.             *)
(***************************************************************************)
EXTENDS Naturals

CONSTANTS
  Devices,
  Fleets,
  Pairs,       \* label pairs
  NoFleet,     \* the owner of a device without one
  Workers,     \* consumer threads
  Labellings,  \* what users put on devices and into selectors
  MaxChanges,  \* changes users make
  MaxFaults    \* calls that fail, threads that die, tasks that run out of time

ASSUME SelectorAssumption ==
  /\ NoFleet \notin Fleets
  /\ Labellings \subseteq SUBSET Pairs
  /\ MaxChanges \in Nat /\ MaxFaults \in Nat

VARIABLES
  fleets,    \* the fleets that exist
  selector,  \* matchLabels of each fleet, empty for one that does not exist
  dev,       \* the device rows
  queue,     \* how many events of each kind wait for a worker
  worker,    \* the tasks in progress
  changes, faults,
  stopped    \* a task ended early without an error

vars == <<fleets, selector, dev, queue, worker, changes, faults, stopped>>

\* A device row: labels, owner, the fleets that the MultipleOwners condition names (none
\* when it is false), whether it is being decommissioned, the fleet whose template was
\* copied to it, and whether that was skipped because of the condition.
Device ==
  [labels : SUBSET Pairs, owner : Fleets \union {NoFleet}, multi : SUBSET Fleets,
   retired : BOOLEAN, spec : Fleets \union {NoFleet}, skipped : BOOLEAN]

NewDevice ==
  [labels |-> {}, owner |-> NoFleet, multi |-> {}, retired |-> FALSE, spec |-> NoFleet,
   skipped |-> FALSE]

\* The events the task is started by: a fleet was created, deleted or got another
\* selector; a device was created or got other labels; the owner of a device changed.
Events == {"fleet"} \X Fleets \union {"labels", "owner"} \X Devices

NoEvent == <<"none", NoFleet>>

\* A task in progress: its step, its event, whether it met an error, the list it is at and
\* the devices left of it with their rows as they were read, the device whose owner it has
\* set, the selector of its fleet and the selectors of all fleets, once it fetched them.
Idle ==
  [pc |-> "idle", event |-> NoEvent, failed |-> FALSE, phase |-> "orphans", list |-> {},
   at |-> {}, rows |-> [d \in Devices |-> NewDevice], sel |-> {}, fetched |-> FALSE,
   known |-> [f \in Fleets |-> {}]]

\* Any fleets, and devices without labels, which no fleet selects.
Init ==
  /\ fleets \in SUBSET Fleets
  /\ selector \in [Fleets -> Labellings \union {{}}]
  /\ \A f \in Fleets \ fleets : selector[f] = {}
  /\ dev = [d \in Devices |-> NewDevice]
  /\ queue = [e \in Events |-> 0]
  /\ worker = [w \in Workers |-> Idle]
  /\ changes = 0 /\ faults = 0 /\ stopped = FALSE

Enqueue(e) == queue' = [queue EXCEPT ![e] = @ + 1]

-----------------------------------------------------------------------------
(* Users.                                                                   *)

Change == changes < MaxChanges /\ changes' = changes + 1

\* CreateFleet, ReplaceFleet and PatchFleet; an unchanged selector is no event.
SetSelector(f, sel) ==
  /\ Change
  /\ f \in fleets => sel # selector[f]
  /\ fleets' = fleets \union {f}
  /\ selector' = [selector EXCEPT ![f] = sel]
  /\ Enqueue(<<"fleet", f>>)
  /\ UNCHANGED <<dev, worker, faults, stopped>>

\* A faulty variant: the selector outlives the fleet.
DeleteFleetOnly(f) ==
  /\ Change
  /\ f \in fleets
  /\ fleets' = fleets \ {f}
  /\ Enqueue(<<"fleet", f>>)
  /\ UNCHANGED <<selector, dev, worker, faults, stopped>>

\* DeleteFleet
DeleteFleet(f) ==
  /\ Change
  /\ f \in fleets
  /\ fleets' = fleets \ {f}
  /\ selector' = [selector EXCEPT ![f] = {}]
  /\ Enqueue(<<"fleet", f>>)
  /\ UNCHANGED <<dev, worker, faults, stopped>>

\* CreateDevice, ReplaceDevice and PatchDevice, as far as they concern labels.
SetLabels(d, labels) ==
  /\ Change
  /\ ~dev[d].retired /\ labels # dev[d].labels
  /\ dev' = [dev EXCEPT ![d].labels = labels]
  /\ Enqueue(<<"labels", d>>)
  /\ UNCHANGED <<fleets, selector, worker, faults, stopped>>

\* DecommissionDevice: its event starts none of these tasks.
Decommission(d) ==
  /\ Change
  /\ ~dev[d].retired
  /\ dev' = [dev EXCEPT ![d].retired = TRUE, ![d].owner = NoFleet, ![d].labels = {}]
  /\ UNCHANGED <<fleets, selector, queue, worker, faults, stopped>>

-----------------------------------------------------------------------------
(* The rules of ownership.                                                  *)

\* LabelsMatchLabelSelector: the empty selector matches nothing.
LabelsMatch(labels, sel) == sel # {} /\ sel \subseteq labels

\* findMatchingFleets
MatchingFleets(labels, known) == {f \in Fleets : LabelsMatch(labels, known[f])}

Several(matching) == \E f, g \in matching : f # g

\* The owner a device should have: none, the only match, or in a conflict the one it has.
OwnerFor(matching, owner) ==
  IF matching = {} THEN NoFleet
  ELSE IF Several(matching) THEN owner
  ELSE CHOOSE f \in matching : TRUE

\* createMultipleOwnersConditionMessage
MessageFor(matching) == IF Several(matching) THEN matching ELSE {}

-----------------------------------------------------------------------------
(* The tasks.                                                               *)

At(w, pc) == worker[w].pc = pc

Kind(w) == worker[w].event[1]

\* A worker takes a message.  Events about devices first roll out the owner's template.
TakeEvent(w, e) ==
  /\ At(w, "idle") /\ queue[e] > 0
  /\ queue' = [queue EXCEPT ![e] = @ - 1]
  /\ worker' = [worker EXCEPT ![w].event = e,
                  ![w].pc = IF e[1] = "fleet" THEN "getFleet" ELSE "rollout"]
  /\ UNCHANGED <<fleets, selector, dev, changes, faults, stopped>>

\* A faulty variant: a task with an error is done.
CompleteAlways(w) ==
  /\ At(w, "end")
  /\ worker' = [worker EXCEPT ![w] = Idle]
  /\ UNCHANGED <<fleets, selector, dev, queue, changes, faults, stopped>>

\* consumer.Complete: a task with an error is retried.
Complete(w) ==
  /\ At(w, "end")
  /\ worker' = [worker EXCEPT ![w] = Idle]
  /\ IF worker[w].failed THEN Enqueue(worker[w].event) ELSE UNCHANGED queue
  /\ UNCHANGED <<fleets, selector, dev, changes, faults, stopped>>

-----------------------------------------------------------------------------
(* RolloutDevice.                                                           *)

\* Only new labels may call for another owner.
AfterRollout(w) == IF Kind(w) = "labels" THEN "getDevice" ELSE "end"

\* RolloutDevice up to its write: a device without an owner has nothing to copy, one in a
\* conflict is passed over, and a fleet that is gone is an error.
RolloutRead(w, d) ==
  /\ At(w, "rollout") /\ worker[w].event[2] = d
  /\ LET owned == dev[d].owner # NoFleet
         skip == owned /\ dev[d].multi # {}
         deploy == owned /\ ~skip /\ dev[d].owner \in fleets
     IN
     /\ worker' = [worker EXCEPT ![w].pc = IF deploy THEN "deploy" ELSE AfterRollout(w),
                                 ![w].failed = owned /\ ~skip /\ ~deploy,
                                 ![w].rows[d] = IF deploy THEN dev[d] ELSE @]
     /\ dev' = [dev EXCEPT ![d].skipped = @ \/ skip]
  /\ UNCHANGED <<fleets, selector, queue, changes, faults, stopped>>

\* updateDeviceInStore: the spec is replaced if the owner is still the one that was read.
RolloutWrite(w, d) ==
  /\ At(w, "deploy") /\ worker[w].event[2] = d
  /\ LET owner == worker[w].rows[d].owner
         same == dev[d].owner = owner /\ ~dev[d].retired
     IN
     /\ dev' = IF same THEN [dev EXCEPT ![d].spec = owner, ![d].skipped = FALSE] ELSE dev
     /\ worker' = [worker EXCEPT ![w].pc = AfterRollout(w), ![w].failed = ~same,
                                 ![w].rows[d] = NewDevice]
  /\ UNCHANGED <<fleets, selector, queue, changes, faults, stopped>>

-----------------------------------------------------------------------------
(* FleetSelectorMatchingLogic.                                              *)

\* DeviceLabelsUpdated reads the device; a device without labels needs no fleets.
GetDevice(w, d) ==
  /\ At(w, "getDevice") /\ worker[w].event[2] = d
  /\ worker' = [worker EXCEPT ![w].rows[d] = dev[d], ![w].list = {d},
                  ![w].pc = IF dev[d].labels = {} THEN "device" ELSE "fetch"]
  /\ UNCHANGED <<fleets, selector, dev, queue, changes, faults, stopped>>

\* validateAndGetFleet: a fleet that is gone and one with an empty selector are alike.
GetFleet(w, f) ==
  /\ At(w, "getFleet") /\ worker[w].event[2] = f
  /\ worker' = [worker EXCEPT ![w].sel = selector[f], ![w].pc = "list"]
  /\ UNCHANGED <<fleets, selector, dev, queue, changes, faults, stopped>>

\* A faulty variant: devices in a conflict are examined only if the fleet selects them.
ListedSelected(w, d) ==
  LET matches == LabelsMatch(dev[d].labels, worker[w].sel) IN
  CASE worker[w].phase = "orphans"  -> dev[d].owner = worker[w].event[2] /\ ~matches
    [] worker[w].phase = "matching" -> matches
    [] worker[w].phase = "multi"    -> dev[d].multi # {} /\ matches

\* The queries of the three lists: devices of the fleet that it does not select (all of
\* them when the selector is empty), devices it selects, devices in a conflict.
Listed(w, d) ==
  LET matches == LabelsMatch(dev[d].labels, worker[w].sel) IN
  CASE worker[w].phase = "orphans"  -> dev[d].owner = worker[w].event[2] /\ ~matches
    [] worker[w].phase = "matching" -> matches
    [] worker[w].phase = "multi"    -> dev[d].multi # {}

\* handleOrphanedDevices or clearFleetOwnershipFromDevices, handleDevicesMatchingFleet and
\* handleDevicesWithMultipleOwnersCondition list their devices.
ListDevices(w) ==
  /\ At(w, "list")
  /\ LET list == {d \in Devices : Listed(w, d)} IN
     worker' = [worker EXCEPT ![w].list = list,
                  ![w].rows = [d \in Devices |-> IF d \in list THEN dev[d] ELSE NewDevice],
                  ![w].pc = IF list # {} /\ ~worker[w].fetched THEN "fetch" ELSE "device"]
  /\ UNCHANGED <<fleets, selector, dev, queue, changes, faults, stopped>>

\* fetchAllFleets, once for all devices of a task.
Fetch(w) ==
  /\ At(w, "fetch")
  /\ worker' = [worker EXCEPT ![w].known = selector, ![w].fetched = TRUE, ![w].pc = "device"]
  /\ UNCHANGED <<fleets, selector, dev, queue, changes, faults, stopped>>

\* What the task thinks of a device: the row it read and the fleets it fetched.
Matching(w, d) == MatchingFleets(worker[w].rows[d].labels, worker[w].known)

NewOwner(w, d) == OwnerFor(Matching(w, d), worker[w].rows[d].owner)

\* updateDeviceOwner is called if the owner is to change, but for decommissioned devices.
ChangesOwner(w, d) ==
  ~worker[w].rows[d].retired /\ NewOwner(w, d) # worker[w].rows[d].owner

\* The task is through with a device.
Leave(w, d) == [worker[w] EXCEPT !.pc = "device", !.at = {}, !.list = @ \ {d},
                                 !.rows[d] = NewDevice]

\* The owner could not be set: DeviceLabelsUpdated goes on with the condition,
\* recomputeDeviceOwnership and handleUnlabeledDevice do not.
OwnerFailed(w, d) ==
  IF Kind(w) = "labels" /\ worker[w].rows[d].labels # {}
  THEN [worker[w] EXCEPT !.pc = "condition", !.at = {d}, !.failed = TRUE]
  ELSE [Leave(w, d) EXCEPT !.failed = TRUE]

\* A faulty variant: only the owner is compared.
OwnerOnlyAsRead(w, d) == dev[d].owner = worker[w].rows[d].owner

\* SetDeviceOwner: the owner in the store is the one that was read, and the device is not
\* being decommissioned.
OwnerAsRead(w, d) == dev[d].owner = worker[w].rows[d].owner /\ ~dev[d].retired

\* A faulty variant: nobody hears of the new owner.
WriteOwnerSilently(w, d) == dev' = [dev EXCEPT ![d].owner = NewOwner(w, d)] /\ UNCHANGED queue

\* The event handler of the device service reports the new owner.
WriteOwner(w, d) ==
  /\ dev' = [dev EXCEPT ![d].owner = NewOwner(w, d)]
  /\ Enqueue(<<"owner", d>>)

SetOwner(w, d) ==
  /\ At(w, "device") /\ d \in worker[w].list
  /\ IF ChangesOwner(w, d) /\ OwnerAsRead(w, d)
     THEN WriteOwner(w, d) ELSE UNCHANGED <<dev, queue>>
  /\ worker' = [worker EXCEPT ![w] =
                  IF ChangesOwner(w, d) => OwnerAsRead(w, d)
                  THEN [@ EXCEPT !.pc = "condition", !.at = {d}] ELSE OwnerFailed(w, d)]
  /\ UNCHANGED <<fleets, selector, changes, faults, stopped>>

\* setDeviceMultipleOwnersCondition: written if it differs from the one that was read.
SetCondition(w, d) ==
  /\ At(w, "condition") /\ d \in worker[w].at
  /\ LET message == MessageFor(Matching(w, d)) IN
     dev' = IF message # worker[w].rows[d].multi THEN [dev EXCEPT ![d].multi = message] ELSE dev
  /\ worker' = [worker EXCEPT ![w] = Leave(w, d)]
  /\ UNCHANGED <<fleets, selector, queue, changes, faults, stopped>>

\* processFleetSelectorUpdate goes from list to list; clearFleetOwnershipFromDevices has no
\* matching devices to look at.
NextList(w) ==
  /\ At(w, "device") /\ worker[w].list = {}
  /\ worker' = [worker EXCEPT ![w] =
       IF Kind(w) = "labels" \/ @.phase = "multi" THEN [@ EXCEPT !.pc = "end"]
       ELSE [@ EXCEPT !.pc = "list",
                      !.phase = IF worker[w].phase = "orphans" /\ worker[w].sel # {}
                                THEN "matching" ELSE "multi"]]
  /\ UNCHANGED <<fleets, selector, dev, queue, changes, faults, stopped>>

-----------------------------------------------------------------------------
(* Failures.                                                                *)

Fault == faults < MaxFaults /\ faults' = faults + 1

\* clearFleetOwnershipFromDevices is at work: the fleet is gone or selects nothing.
Clearing(w) == worker[w].phase = "orphans" /\ worker[w].sel = {}

\* A read fails, a device can not be rolled out to (yet), or a list can not be read.
CallFails(w) ==
  /\ worker[w].pc \in {"rollout", "deploy", "getDevice", "getFleet", "fetch", "list"}
  /\ Fault
  /\ worker' = [worker EXCEPT ![w] =
       CASE @.pc \in {"rollout", "deploy"} ->
              [@ EXCEPT !.failed = TRUE, !.pc = AfterRollout(w), !.rows = Idle.rows]
         [] @.pc = "list" /\ ~Clearing(w) /\ @.phase # "multi" ->
              [@ EXCEPT !.failed = TRUE,
                        !.phase = IF worker[w].phase = "orphans" THEN "matching" ELSE "multi"]
         [] OTHER -> [@ EXCEPT !.failed = TRUE, !.pc = "end"]]
  /\ UNCHANGED <<fleets, selector, dev, queue, changes, stopped>>

\* SetDeviceOwner fails, or the update of the status that follows it.
OwnerFails(w, d, written) ==
  /\ At(w, "device") /\ d \in worker[w].list /\ ChangesOwner(w, d)
  /\ written => OwnerAsRead(w, d)
  /\ Fault
  /\ IF written THEN WriteOwner(w, d) ELSE UNCHANGED <<dev, queue>>
  /\ worker' = [worker EXCEPT ![w] = OwnerFailed(w, d)]
  /\ UNCHANGED <<fleets, selector, changes, stopped>>

\* SetDeviceServiceConditions fails.
ConditionFails(w, d) ==
  /\ At(w, "condition") /\ d \in worker[w].at
  /\ MessageFor(Matching(w, d)) # worker[w].rows[d].multi
  /\ Fault
  /\ worker' = [worker EXCEPT ![w] = [Leave(w, d) EXCEPT !.failed = TRUE]]
  /\ UNCHANGED <<fleets, selector, dev, queue, changes, stopped>>

\* The thread dies; the message is delivered again.
WorkerDies(w) ==
  /\ ~At(w, "idle")
  /\ Fault
  /\ Enqueue(worker[w].event)
  /\ worker' = [worker EXCEPT ![w] = Idle]
  /\ UNCHANGED <<fleets, selector, dev, changes, stopped>>

\* EventProcessingTimeout is over when a loop looks at its context: the task leaves this
\* list and those after it, and does not count that as an error.
StopEarly(w) ==
  /\ Kind(w) = "fleet" /\ worker[w].pc \in {"list", "device"} /\ ~Clearing(w)
  /\ Fault /\ stopped' = TRUE
  /\ worker' = [worker EXCEPT ![w].pc = "end"]
  /\ UNCHANGED <<fleets, selector, dev, queue, changes>>

-----------------------------------------------------------------------------
Users ==
  \/ \E f \in Fleets : DeleteFleet(f) \/ \E sel \in Labellings : SetSelector(f, sel)
  \/ \E d \in Devices : Decommission(d) \/ \E labels \in Labellings : SetLabels(d, labels)

Task(w) ==
  \/ ListDevices(w) \/ Fetch(w) \/ NextList(w) \/ Complete(w)
  \/ \E f \in Fleets : GetFleet(w, f)
  \/ \E d \in Devices : \/ RolloutRead(w, d) \/ RolloutWrite(w, d) \/ GetDevice(w, d)
                        \/ SetOwner(w, d) \/ SetCondition(w, d)

Failure(w) ==
  \/ CallFails(w) \/ WorkerDies(w) \/ StopEarly(w)
  \/ \E d \in Devices : ConditionFails(w, d) \/ \E written \in BOOLEAN : OwnerFails(w, d, written)

Next ==
  \/ Users
  \/ \E w \in Workers : Task(w) \/ Failure(w) \/ \E e \in Events : TakeEvent(w, e)

Spec == Init /\ [][Next]_vars

\* A worker goes on with its task, and every message is taken in the end: the stream hands
\* them out in order, and what failed comes back after its backoff.
FairSpec ==
  /\ Spec
  /\ \A w \in Workers : WF_vars(Task(w))
  /\ \A e \in Events : SF_vars(\E w \in Workers : TakeEvent(w, e))

-----------------------------------------------------------------------------
(* Properties.                                                              *)

WorkerState ==
  [pc : {"idle", "rollout", "deploy", "getDevice", "getFleet", "list", "fetch", "device",
         "condition", "end"},
   event : Events \union {NoEvent}, failed : BOOLEAN, phase : {"orphans", "matching", "multi"},
   list : SUBSET Devices, at : SUBSET Devices, rows : [Devices -> Device],
   sel : SUBSET Pairs, fetched : BOOLEAN, known : [Fleets -> SUBSET Pairs]]

\* The device whose condition is to be set is one of the list.
OnList(s) == s.at \subseteq s.list /\ (s.pc # "condition" => s.at = {})

\* Every variable has its type, a fleet that does not exist has no selector, and the
\* device a task sets the condition of is one of its list.
TypeOK ==
  /\ fleets \subseteq Fleets /\ selector \in [Fleets -> SUBSET Pairs]
  /\ \A f \in Fleets \ fleets : selector[f] = {}
  /\ dev \in [Devices -> Device]
  /\ queue \in [Events -> Nat]
  /\ worker \in [Workers -> WorkerState]
  /\ \A w \in Workers : OnList(worker[w])
  /\ changes \in Nat /\ faults \in Nat /\ stopped \in BOOLEAN

Pending(e) == queue[e] > 0 \/ \E w \in Workers : worker[w].event = e

\* The rules of ownership hold of a device.
Settled(d) ==
  LET matching == MatchingFleets(dev[d].labels, selector) IN
  /\ dev[d].owner = OwnerFor(matching, dev[d].owner)
  /\ dev[d].multi = MessageFor(matching)

\* What the comment at the head of fleet_selector.go says the task ensures: when no event
\* about a fleet or about labels is left, every device that is not being decommissioned has
\* the owner and the MultipleOwners condition that the selectors and its labels call for.
OwnersAssigned ==
  (\A e \in Events : e[1] # "owner" => ~Pending(e))
     => \A d \in Devices : dev[d].retired \/ Settled(d)

\* OwnersAssigned, whatever the order in which FleetSelectorUpdated and DeviceLabelsUpdated
\* ran, failed and were retried, unless a task stopped early at its timeout.
OwnersRight == stopped \/ OwnersAssigned

\* A decommissioned device never gets an owner again: a task that read the device before
\* finds its write refused by SetDeviceOwner.
RetiredUnowned == \A d \in Devices : dev[d].retired => dev[d].owner = NoFleet

\* When no event about its owner is left, a device has the template of its owner, copied by
\* RolloutDevice, unless that found it in a conflict of several fleets.
OwnerTemplateCopied ==
  \A d \in Devices :
    (dev[d].owner # NoFleet /\ ~dev[d].skipped /\ ~Pending(<<"owner", d>>))
       => dev[d].spec = dev[d].owner

\* What the users' guide says of a device that joins a fleet: without a conflict it gets the
\* template of its owner in the end.
TemplateCopied ==
  \A d \in Devices :
    (dev[d].owner # NoFleet /\ dev[d].multi = {} /\ \A e \in Events : ~Pending(e))
       => dev[d].spec = dev[d].owner

\* The tasks settle: once users change nothing more, every device gets and keeps the owner
\* and the condition it should have and, but for a rollout skipped in a conflict, the
\* template of its owner; unless a task stopped early at its timeout.
OwnersSettle ==
  <>[](stopped \/ \A d \in Devices :
         \/ dev[d].retired
         \/ /\ Settled(d)
            /\ dev[d].owner \in {NoFleet, dev[d].spec} \/ dev[d].skipped)
============================================================================
