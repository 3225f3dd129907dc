----------------------------- MODULE DeviceRender -----------------------------
(***************************************************************************)
(* Rendering of a fleet's devices under a disruption budget: the spec writes *)
(* of the fleet_rollout task, the device_render task of the worker, the      *)
(* stored rendered version, the periodic disruption-budget reconciler        *)
(* (internal/rollout/disruption_budget) and the agents that apply what is    *)
(* rendered.  A render reads the device, works, and writes: two steps, with  *)
(* anything in between.  A spec is identified with its hash.                 *)
(***************************************************************************)
EXTENDS Integers, FiniteSets

CONSTANTS Devices,       \* names of the fleet's devices, in list order
          Group,         \* the value of the groupBy labels, by device
          MaxTV,         \* template versions, the first included
          SpecOf,        \* the device spec a template version stands for
          Broken,        \* specs that never render (isPermanentRenderError)
          Budgets,       \* disruption budgets the policy may have:
                         \*   [max |-> n or None, min |-> n or None]
          None,          \* an absent limit, or no disruption budget at all
          Workers,       \* worker goroutines running device_render tasks
          MaxEdits,      \* edits of the budget
          MaxMishaps,    \* renderings that fail for now (repository, network), deaths
                         \*   of a worker during a rendering, ticks that fail
          MaxFailures,   \* updates that fail on a device
          MaxLosses      \* disconnections

ASSUME RenderAssumption ==
    /\ Devices \subseteq Nat /\ IsFiniteSet(Devices)
    /\ MaxTV \in Nat \ {0}
    /\ 1..MaxTV \subseteq DOMAIN SpecOf
    /\ \A b \in Budgets \ {None} : /\ b.max # None \/ b.min # None
                                  /\ b.max \in Nat \cup {None} /\ b.min \in Nat \cup {None}

VARIABLES fleet,    \* the templateVersion annotation and the budget of the fleet
          dev,      \* the devices: spec, annotations, rendered content
          agent,    \* what each agent reports: rendered version, connection
          queue,    \* pending render events: <<device, reason>>
          roll,     \* the fleet_rollout task being run
          rnd,      \* the renderings being run, by worker
          rec,      \* the disruption-budget reconciler
          env       \* what the environment has used up
vars == <<fleet, dev, agent, queue, roll, rnd, rec, env>>

Groups == {Group[d] : d \in Devices}
Members(g) == {d \in Devices : Group[d] = g}
Min2(a, b) == IF a < b THEN a ELSE b
Max2(a, b) == IF a < b THEN b ELSE a

--------------------------------------------------------------------------------
(* The fleet gets a new template version; its budget may be edited. *)
NewTemplate ==
    /\ fleet.tv < MaxTV
    /\ fleet' = [fleet EXCEPT !.tv = @ + 1]
    /\ UNCHANGED <<dev, agent, queue, roll, rnd, rec, env>>

EditBudget(b) ==
    /\ env.edits < MaxEdits /\ b # fleet.budget
    /\ fleet' = [fleet EXCEPT !.budget = b]
    /\ env' = [env EXCEPT !.edits = @ + 1]
    /\ UNCHANGED <<dev, agent, queue, roll, rnd, rec>>

NoRoll == [tv |-> 0, delay |-> FALSE, page |-> {}]

(* A faulty variant: the version to come. *)
RolloutFleetNext ==
    /\ roll.page = {}
    /\ roll' = [tv |-> fleet.tv + 1, delay |-> fleet.budget # None,
                page |-> {d \in Devices : dev[d].tv # fleet.tv}]
    /\ roll'.page # {}
    /\ UNCHANGED <<fleet, dev, agent, queue, rnd, rec, env>>

(* RolloutFleet without device selection: the budget and the template version are *)
(* read once, and the devices that are not at the version listed.                 *)
RolloutFleet ==
    /\ roll.page = {}
    /\ roll' = [tv |-> fleet.tv, delay |-> fleet.budget # None,
                page |-> {d \in Devices : dev[d].tv # fleet.tv}]
    /\ roll'.page # {}
    /\ UNCHANGED <<fleet, dev, agent, queue, rnd, rec, env>>

(* The event of a changed spec makes a render task unless the rendering is delayed. *)
RenderTask(d, tv) == IF SpecOf[tv] # SpecOf[dev[d].tv] /\ ~roll.delay THEN {<<d, "spec">>} ELSE {}

(* ReplaceDeviceSpec: the spec and the template version of one device, at once. *)
ReplaceDeviceSpec(d) ==
    /\ d \in roll.page
    /\ dev' = [dev EXCEPT ![d].tv = roll.tv]
    /\ queue' = queue \cup RenderTask(d, roll.tv)
    /\ roll' = IF roll.page = {d} THEN NoRoll ELSE [roll EXCEPT !.page = @ \ {d}]
    /\ UNCHANGED <<fleet, agent, rnd, rec, env>>

--------------------------------------------------------------------------------
(* device_render. *)

NoRender == [pc |-> "idle", d |-> 0, reason |-> "spec", tv |-> 0]

(* A faulty variant: a selection always renders. *)
AlreadyRenderedByHash(d, reason) == reason # "selected" /\ dev[d].hash = SpecOf[dev[d].tv]

(* RenderDevice up to the rendering: a selection of a device already rendered for   *)
(* its template version, and any other event of a spec already rendered, are done.  *)
AlreadyRendered(d, reason) ==
    IF reason = "selected" THEN dev[d].tv = dev[d].rtv ELSE dev[d].hash = SpecOf[dev[d].tv]

RenderRead(w) ==
    /\ rnd[w].pc = "idle"
    /\ \E e \in queue :
         /\ queue' = queue \ {e}
         /\ rnd' = IF AlreadyRendered(e[1], e[2]) THEN rnd
                   ELSE [rnd EXCEPT ![w] = [pc |-> "render", d |-> e[1], reason |-> e[2],
                                            tv |-> dev[e[1]].tv]]
    /\ UNCHANGED <<fleet, dev, agent, roll, rec, env>>

Spec0(w) == SpecOf[rnd[w].tv]

(* GetNextDeviceRenderedVersion: past both the stored and the reported version. *)
NextVersion(d) == Max2(dev[d].ver, agent[d].ver) + 1

(* UpdateRenderedDevice: the device is read again, the content and the hash are the *)
(* caller's, the rendered template version is the device's own of now.  An          *)
(* unchanged hash writes nothing, unless the event forces it (the specs here have   *)
(* no external references, whose fingerprints would force it too).                  *)
RenderWrite(w) ==
    LET d == rnd[w].d
        unchanged == dev[d].hash = Spec0(w) /\ rnd[w].reason # "selected"
    IN /\ rnd[w].pc = "render" /\ Spec0(w) \notin Broken
       /\ rnd' = [rnd EXCEPT ![w] = NoRender]
       /\ IF unchanged THEN UNCHANGED <<dev, env>>
          ELSE /\ dev' = [dev EXCEPT ![d] = [tv |-> @.tv, rtv |-> @.tv, hash |-> Spec0(w),
                              content |-> Spec0(w), ver |-> NextVersion(d)]]
               /\ env' = [env EXCEPT !.crossed = IF dev[d].tv = rnd[w].tv THEN @ \ {d}
                                                 ELSE @ \cup {d}]
       /\ UNCHANGED <<fleet, agent, queue, roll, rec>>

(* markPermanentRenderFailure: the hash and the template version read at the start. *)
RenderBroken(w) ==
    /\ rnd[w].pc = "render" /\ Spec0(w) \in Broken
    /\ dev' = [dev EXCEPT ![rnd[w].d].hash = Spec0(w), ![rnd[w].d].rtv = rnd[w].tv]
    /\ rnd' = [rnd EXCEPT ![w] = NoRender]
    /\ UNCHANGED <<fleet, agent, queue, roll, rec, env>>

(* A faulty variant: every error is taken for a permanent one. *)
RenderErrorMarked(w) ==
    /\ rnd[w].pc = "render" /\ env.mishaps < MaxMishaps
    /\ dev' = [dev EXCEPT ![rnd[w].d].hash = Spec0(w), ![rnd[w].d].rtv = rnd[w].tv]
    /\ rnd' = [rnd EXCEPT ![w] = NoRender]
    /\ env' = [env EXCEPT !.mishaps = @ + 1]
    /\ UNCHANGED <<fleet, agent, queue, roll, rec>>

(* Any other error is recorded as a condition; the task counts as done. *)
RenderError(w) ==
    /\ rnd[w].pc = "render" /\ env.mishaps < MaxMishaps
    /\ rnd' = [rnd EXCEPT ![w] = NoRender]
    /\ env' = [env EXCEPT !.mishaps = @ + 1]
    /\ UNCHANGED <<fleet, dev, agent, queue, roll, rec>>

(* The worker dies: the queue delivers the event again. *)
RenderDies(w) ==
    /\ rnd[w].pc = "render" /\ env.mishaps < MaxMishaps
    /\ queue' = queue \cup {<<rnd[w].d, rnd[w].reason>>}
    /\ rnd' = [rnd EXCEPT ![w] = NoRender]
    /\ env' = [env EXCEPT !.mishaps = @ + 1]
    /\ UNCHANGED <<fleet, dev, agent, roll, rec>>

--------------------------------------------------------------------------------
(* The disruption-budget reconciler. *)

IdleTick == [pc |-> "idle", tv |-> 0, budget |-> None, num |-> [g \in {} |-> 0]]

(* A faulty variant: a spec rendered before needs no rendering. *)
ToRenderChanged(S, v) == {d \in S : dev[d].tv = v /\ dev[d].rtv # v /\ dev[d].hash # SpecOf[v]}

(* At the fleet's version, but not yet rendered for it. *)
ToRender(S, v) == {d \in S : dev[d].tv = v /\ dev[d].rtv # v}

Selected(S) == {<<d, "selected">> : d \in S}
FirstN(S, n) == {d \in S : Cardinality({e \in S : e < d}) < n}

(* CountByLabels. *)
Connected(g) == {d \in Members(g) : agent[d].conn}
Busy(g) == {d \in Connected(g) : agent[d].ver # dev[d].ver}

(* A MinAvailable that takes the whole group is lowered by one. *)
Floor(g, n) == Min2(n, Cardinality(Members(g)) - 1)

(* A faulty variant: the devices that are busy already do not count against max. *)
NumToRenderMore(g, b) ==
    LET byMin == Cardinality(Connected(g)) - Cardinality(Busy(g)) - Floor(g, b.min)
    IN IF b.min = None THEN b.max ELSE IF b.max = None THEN byMin ELSE Min2(b.max, byMin)

(* What the budget b leaves of a group. *)
NumToRender(g, b) ==
    LET busy == Cardinality(Busy(g))
        byMax == b.max - busy
        byMin == Cardinality(Connected(g)) - busy - Floor(g, b.min)
    IN IF b.min = None THEN byMax ELSE IF b.max = None THEN byMin ELSE Min2(byMax, byMin)

(* ListDisruptionBudgetFleets: some device of the fleet is to be rendered.  The tick *)
(* goes by this snapshot of the fleet; without a budget all such devices are sent.   *)
StartTick ==
    /\ rec.pc = "idle" /\ ToRender(Devices, fleet.tv) # {}
    /\ rec' = [IdleTick EXCEPT !.pc = IF fleet.budget = None THEN "all" ELSE "count",
                               !.tv = fleet.tv, !.budget = fleet.budget]
    /\ UNCHANGED <<fleet, dev, agent, queue, roll, rnd, env>>

SelectAll ==
    /\ rec.pc = "all"
    /\ queue' = queue \cup Selected(ToRender(Devices, rec.tv))
    /\ rec' = IdleTick
    /\ UNCHANGED <<fleet, dev, agent, roll, rnd, env>>

(* getFleetCounts.  env.overlap notes a count taken while a selection is pending. *)
Pending == (\E e \in queue : e[2] = "selected") \/ (\E w \in Workers : rnd[w].pc # "idle")
CountGroups ==
    /\ rec.pc = "count"
    /\ LET open == {g \in Groups : NumToRender(g, rec.budget) > 0}
       IN rec' = IF open = {} THEN IdleTick
                 ELSE [rec EXCEPT !.pc = "list",
                         !.num = [g \in open |-> NumToRender(g, rec.budget)]]
    /\ env' = [env EXCEPT !.overlap = @ \/ Pending]
    /\ UNCHANGED <<fleet, dev, agent, queue, roll, rnd>>

(* reconcileSelectionDevices of one group: the first devices of the list, in number. *)
SelectGroup(g) ==
    /\ rec.pc = "list" /\ g \in DOMAIN rec.num
    /\ queue' = queue \cup Selected(FirstN(ToRender(Members(g), rec.tv), rec.num[g]))
    /\ rec' = IF DOMAIN rec.num = {g} THEN IdleTick
              ELSE [rec EXCEPT !.num = [h \in DOMAIN rec.num \ {g} |-> rec.num[h]]]
    /\ UNCHANGED <<fleet, dev, agent, roll, rnd, env>>

(* A call fails, or the process dies: the tick ends. *)
TickFails ==
    /\ rec.pc # "idle" /\ env.mishaps < MaxMishaps
    /\ rec' = IdleTick
    /\ env' = [env EXCEPT !.mishaps = @ + 1]
    /\ UNCHANGED <<fleet, dev, agent, queue, roll, rnd>>

--------------------------------------------------------------------------------
(* The agents, external: an update ends with the rendered version reported, or fails *)
(* and leaves the reported version as it was.                                        *)
AgentUpdates(d) ==
    /\ agent[d].conn /\ agent[d].ver # dev[d].ver /\ agent[d].bad # dev[d].ver
    /\ agent' = [agent EXCEPT ![d].ver = dev[d].ver]
    /\ UNCHANGED <<fleet, dev, queue, roll, rnd, rec, env>>

AgentFails(d) ==
    /\ agent[d].conn /\ agent[d].ver # dev[d].ver /\ agent[d].bad # dev[d].ver
    /\ env.failures < MaxFailures
    /\ agent' = [agent EXCEPT ![d].bad = dev[d].ver]
    /\ env' = [env EXCEPT !.failures = @ + 1]
    /\ UNCHANGED <<fleet, dev, queue, roll, rnd, rec>>

Disconnect(d) ==
    /\ agent[d].conn /\ env.losses < MaxLosses
    /\ agent' = [agent EXCEPT ![d].conn = FALSE]
    /\ env' = [env EXCEPT !.losses = @ + 1]
    /\ UNCHANGED <<fleet, dev, queue, roll, rnd, rec>>

Reconnect(d) ==
    /\ ~agent[d].conn
    /\ agent' = [agent EXCEPT ![d].conn = TRUE]
    /\ UNCHANGED <<fleet, dev, queue, roll, rnd, rec, env>>

--------------------------------------------------------------------------------
(* A fleet that is all at its first version, with or without a budget. *)
Init ==
    /\ \E b \in Budgets : fleet = [tv |-> 1, budget |-> b]
    /\ dev = [d \in Devices |-> [tv |-> 1, rtv |-> 1, hash |-> SpecOf[1],
                                 content |-> SpecOf[1], ver |-> 1]]
    /\ agent = [d \in Devices |-> [ver |-> 1, bad |-> 0, conn |-> TRUE]]
    /\ queue = {}
    /\ roll = NoRoll
    /\ rnd = [w \in Workers |-> NoRender]
    /\ rec = IdleTick
    /\ env = [edits |-> 0, mishaps |-> 0, failures |-> 0, losses |-> 0,
              overlap |-> FALSE, crossed |-> {}]

Rollout == RolloutFleet \/ \E d \in Devices : ReplaceDeviceSpec(d)
Render(w) == RenderRead(w) \/ RenderWrite(w) \/ RenderBroken(w)
Tick == StartTick \/ SelectAll \/ CountGroups \/ \E g \in Groups : SelectGroup(g)

Next ==
    \/ NewTemplate \/ (\E b \in Budgets : EditBudget(b)) \/ Rollout
    \/ (\E w \in Workers : Render(w) \/ RenderError(w) \/ RenderDies(w))
    \/ Tick \/ TickFails
    \/ \E d \in Devices : AgentUpdates(d) \/ AgentFails(d) \/ Disconnect(d) \/ Reconnect(d)

(* The worker and the periodic checker keep running; a connected agent updates. *)
Fairness ==
    /\ WF_vars(Rollout) /\ WF_vars(Tick)
    /\ \A w \in Workers : WF_vars(Render(w))
    /\ \A d \in Devices : WF_vars(AgentUpdates(d))

Spec == Init /\ [][Next]_vars
FairSpec == Spec /\ Fairness

--------------------------------------------------------------------------------
(* Properties. *)

(* The shape of the fleet, its devices, the queue and the tasks. *)
TypeOK ==
    /\ fleet.tv \in 1..MaxTV /\ fleet.budget \in Budgets
    /\ \A d \in Devices : /\ dev[d].tv \in 1..fleet.tv /\ dev[d].rtv \in 1..dev[d].tv
                          /\ agent[d].ver \in 1..dev[d].ver
    /\ queue \subseteq Devices \X {"spec", "selected"}
    /\ roll.page \subseteq Devices
    /\ \A w \in Workers : rnd[w].pc \in {"idle", "render"}
    /\ rec.pc \in {"idle", "all", "count", "list"} /\ DOMAIN rec.num \subseteq Groups

(* A device labelled as rendered for its template version (renderedTemplateVersion,    *)
(* which CompletionCounts and both reconcilers go by) has that version's content: true  *)
(* of every write whose device kept its template version since RenderDevice read it,    *)
(* whatever events were duplicated, delayed, lost to an error or delivered again.       *)
Renderable(d) == SpecOf[dev[d].tv] \notin Broken
RightContent(d) == dev[d].content = SpecOf[dev[d].tv]
LabelHonest ==
    \A d \in Devices \ env.crossed :
        (dev[d].rtv = dev[d].tv /\ Renderable(d)) => RightContent(d)

(* The same without the proviso, once nothing is left to be done for the device:        *)
(* RenderDevice "detects mid-write inconsistencies".                                    *)
AtRest(d) ==
    /\ \A e \in queue : e[1] # d
    /\ \A w \in Workers : rnd[w].pc = "idle" \/ rnd[w].d # d
MidWriteDetected ==
    \A d \in Devices :
        (AtRest(d) /\ dev[d].rtv = dev[d].tv /\ Renderable(d)) => RightContent(d)

(* The budget holds in every group: no more than MaxUnavailable connected devices are   *)
(* behind what is rendered for them, and MinAvailable (one less than the group, if it   *)
(* is smaller) are not.  For devices that stay connected, a budget that stays, and      *)
(* counts taken when no selection was pending.                                          *)
WithinBudget(g) ==
    /\ fleet.budget.max # None => Cardinality(Busy(g)) <= fleet.budget.max
    /\ fleet.budget.min # None =>
          Cardinality(Connected(g)) - Cardinality(Busy(g)) >= Floor(g, fleet.budget.min)
BudgetKept ==
    (fleet.budget # None /\ env.edits = 0 /\ env.losses = 0 /\ ~env.overlap) =>
        \A g \in Groups : WithinBudget(g)

(* "Limits the number of devices per group that can be unavailable at the same time",   *)
(* however long a selection takes to be rendered.                                       *)
MaxUnavailableKept ==
    (fleet.budget # None /\ env.edits = 0 /\ env.losses = 0) =>
        \A g \in Groups : WithinBudget(g)

(* The rendered version moves only for a device that has something to catch up with:    *)
(* a repeated FleetRolloutDeviceSelected, or a redelivered event, never makes its agent *)
(* go through another update.  One worker: two that have both read the device both      *)
(* write.                                                                               *)
CaughtUp(d) == dev[d].rtv = dev[d].tv /\ dev[d].hash = SpecOf[dev[d].tv]
NoPhantomRender ==
    [][\A d \in Devices : CaughtUp(d) => dev'[d].ver = dev[d].ver]_vars

(* Every device ends up rendered for the fleet's last template version, with a budget   *)
(* or without, through failed renderings, deaths of the worker and of the periodic      *)
(* checker; but under a budget devices that fail or are lost may use it up.             *)
Rendered(d) == /\ dev[d].tv = fleet.tv /\ dev[d].rtv = fleet.tv
               /\ Renderable(d) => (RightContent(d) \/ d \in env.crossed)
UsedUp == fleet.budget # None /\ env.failures + env.losses > 0
RenderConverges == <>[](UsedUp \/ \A d \in Devices : Rendered(d))

================================================================================
