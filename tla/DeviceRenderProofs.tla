------------------------- MODULE DeviceRenderProofs -------------------------
(***************************************************************************)
(* Rendering, for any fleet, any sequence of template versions, any specs   *)
(* and any number of workers: what a device is labelled with is what it     *)
(* carries (LabelHonest).  With one worker, no rendering of a device that   *)
(* has nothing to catch up with (NoPhantomRender).  The disruption budget   *)
(* holds in every group (BudgetKept).                                       *)
(***************************************************************************)
EXTENDS DeviceRender, FiniteSetTheorems, TLAPS

Specs == {SpecOf[v] : v \in 1..MaxTV}

Types ==
    /\ fleet \in [tv : 1..MaxTV, budget : Budgets]
    /\ dev \in [Devices -> [tv : 1..MaxTV, rtv : 1..MaxTV, hash : Specs, content : Specs,
                            ver : Nat]]
    /\ agent \in [Devices -> [ver : Nat, bad : Nat, conn : BOOLEAN]]
    /\ queue \subseteq Devices \X {"spec", "selected"}
    /\ roll \in [tv : 0..MaxTV, delay : BOOLEAN, page : SUBSET Devices]
    /\ rnd \in [Workers -> [pc : {"idle", "render"}, d : Nat, reason : {"spec", "selected"},
                            tv : 0..MaxTV]]
    /\ {"pc", "num"} \subseteq DOMAIN rec
    /\ rec.pc \in {"idle", "all", "count", "list"} /\ DOMAIN rec.num \subseteq Groups
    /\ "crossed" \in DOMAIN env

(* Template versions only grow on their way from the fleet to the rendered device: a  *)
(* device on the page of a rollout is behind it, a rendering is not ahead of its      *)
(* device, and an agent not ahead of what is rendered.                                *)
Order ==
    /\ roll.tv <= fleet.tv
    /\ \A d \in roll.page : dev[d].tv < roll.tv
    /\ \A d \in Devices : /\ dev[d].rtv <= dev[d].tv /\ dev[d].tv <= fleet.tv
                          /\ agent[d].ver >= 1 /\ agent[d].ver <= dev[d].ver
    /\ \A w \in Workers : rnd[w].pc = "render" =>
          rnd[w].d \in Devices /\ rnd[w].tv >= 1 /\ rnd[w].tv <= dev[rnd[w].d].tv

RenderInv == Types /\ Order /\ LabelHonest

(* What is written is past both versions. *)
LEMMA NextVersionGrows ==
    ASSUME Types, NEW d \in Devices
    PROVE  NextVersion(d) \in Nat /\ NextVersion(d) > dev[d].ver /\ NextVersion(d) > agent[d].ver
BY DEF Types, NextVersion, Max2

LEMMA TemplateVersions ==
    ASSUME Types
    PROVE  \A d \in Devices : d \in Nat /\ dev[d].tv \in 0..MaxTV /\ dev[d].tv \in Nat /\ dev[d].tv >= 1
<1>1. Devices \subseteq Nat /\ MaxTV \in Nat
  BY RenderAssumption, Zenon
<1>2. \A d \in Devices : dev[d].tv \in 1..MaxTV
  BY Zenon DEF Types
<1>3. ASSUME NEW d \in Devices
      PROVE  d \in Nat /\ dev[d].tv \in 0..MaxTV /\ dev[d].tv \in Nat /\ dev[d].tv >= 1
  <2>1. d \in Nat /\ dev[d].tv \in 1..MaxTV BY <1>1, <1>2, Zenon
  <2> QED BY <1>1, <2>1
<1> QED BY <1>3, Zenon

LEMMA InitRender == Init => RenderInv
<1> SUFFICES ASSUME Init PROVE RenderInv
    BY Zenon
<1>1. Types
  BY RenderAssumption DEF Init, Types, Specs, NoRoll, NoRender, IdleTick
<1>2. Order
  BY RenderAssumption DEF Init, Order, NoRoll, NoRender
<1>3. LabelHonest
  BY Zenon DEF Init, LabelHonest, RightContent
<1> QED BY <1>1, <1>2, <1>3, Zenon DEF RenderInv

(* The rollout task, and the user. *)
LEMMA RolloutSteps ==
    ASSUME RenderInv, NewTemplate \/ (\E b \in Budgets : EditBudget(b)) \/ Rollout
    PROVE  RenderInv'
<1> USE RenderAssumption DEF RenderInv
<1>1. CASE NewTemplate
  <2>1. Types' BY <1>1 DEF NewTemplate, Types
  <2>2. Order' BY <1>1 DEF NewTemplate, Order, Types
  <2>3. LabelHonest' BY <1>1, Zenon DEF NewTemplate, LabelHonest, RightContent, Renderable
  <2> QED BY <2>1, <2>2, <2>3, Zenon
<1>2. ASSUME NEW b \in Budgets, EditBudget(b) PROVE RenderInv'
  <2>1. Types' BY <1>2, Zenon DEF EditBudget, Types
  <2>2. Order' BY <1>2, Zenon DEF EditBudget, Order, Types
  <2>3. LabelHonest' BY <1>2, Zenon DEF EditBudget, LabelHonest, RightContent, Renderable, Types
  <2> QED BY <2>1, <2>2, <2>3, Zenon
<1>3. CASE RolloutFleet
  <2>1. Types' BY <1>3 DEF RolloutFleet, Types
  <2>2. Order'
    <3>1. roll'.tv = fleet.tv /\ roll'.page \subseteq Devices
      BY <1>3, Zenon DEF RolloutFleet
    <3>2. \A d \in roll'.page : dev[d].tv # fleet.tv
      BY <1>3, Zenon DEF RolloutFleet
    <3>3. \A d \in Devices : dev[d].tv \in Nat /\ fleet.tv \in Nat
      BY DEF Types
    <3> QED BY <1>3, <3>1, <3>2, <3>3 DEF RolloutFleet, Order
  <2>3. LabelHonest' BY <1>3, Zenon DEF RolloutFleet, LabelHonest, RightContent, Renderable
  <2> QED BY <2>1, <2>2, <2>3
<1>4. ASSUME NEW d \in Devices, ReplaceDeviceSpec(d) PROVE RenderInv'
  <2> USE <1>4 DEF ReplaceDeviceSpec
  <2>1. roll.tv \in 1..MaxTV /\ dev[d].tv < roll.tv
    BY DEF Types, Order
  <2>2. Types'
    <3>1. dev' \in [Devices -> [tv : 1..MaxTV, rtv : 1..MaxTV, hash : Specs, content : Specs,
                                ver : Nat]]
      BY <2>1 DEF Types
    <3>2. queue' \subseteq Devices \X {"spec", "selected"}
      BY DEF Types, RenderTask
    <3>3. roll' \in [tv : 0..MaxTV, delay : BOOLEAN, page : SUBSET Devices]
      BY DEF Types, NoRoll
    <3> QED BY <3>1, <3>2, <3>3, Zenon DEF Types
  <2>3. Order'
    BY <2>1 DEF Order, Types, NoRoll
  <2>4. dev'[d].rtv # dev'[d].tv
    BY <2>1 DEF Order, Types
  <2>5. LabelHonest'
    BY <2>4, Zenon DEF LabelHonest, RightContent, Renderable, Types
  <2> QED BY <2>2, <2>3, <2>5, Zenon
<1> QED BY <1>1, <1>2, <1>3, <1>4, Zenon DEF Rollout

(* The rendering. *)
LEMMA RenderSteps ==
    ASSUME RenderInv, NEW w \in Workers, Render(w) \/ RenderError(w) \/ RenderDies(w)
    PROVE  RenderInv'
<1> USE RenderAssumption DEF RenderInv
<1>1. CASE RenderRead(w)
  <2> PICK e \in queue :
         /\ queue' = queue \ {e}
         /\ rnd' = IF AlreadyRendered(e[1], e[2]) THEN rnd
                   ELSE [rnd EXCEPT ![w] = [pc |-> "render", d |-> e[1], reason |-> e[2],
                                            tv |-> dev[e[1]].tv]]
    BY <1>1, Zenon DEF RenderRead
  <2>0. e[1] \in Devices /\ e[2] \in {"spec", "selected"}
    BY Zenon DEF Types
  <2>v. \A d \in Devices : d \in Nat /\ dev[d].tv \in 0..MaxTV /\ dev[d].tv \in Nat /\ dev[d].tv >= 1
    BY TemplateVersions, Zenon
  <2>1. Types'
    <3>1. [pc |-> "render", d |-> e[1], reason |-> e[2], tv |-> dev[e[1]].tv]
             \in [pc : {"idle", "render"}, d : Nat, reason : {"spec", "selected"}, tv : 0..MaxTV]
      BY <2>0, <2>v, Zenon
    <3>2. rnd' \in [Workers -> [pc : {"idle", "render"}, d : Nat,
                                 reason : {"spec", "selected"}, tv : 0..MaxTV]]
      BY <3>1, Zenon DEF Types
    <3> QED BY <1>1, <3>2, Zenon DEF RenderRead, Types
  <2>2. Order'
    <3>1. CASE rnd' = rnd BY <1>1, <3>1, Zenon DEF RenderRead, Order
    <3>2. CASE rnd' = [rnd EXCEPT ![w] = [pc |-> "render", d |-> e[1], reason |-> e[2],
                                          tv |-> dev[e[1]].tv]]
      <4>1. dev[e[1]].tv \in Nat /\ dev[e[1]].tv >= 1
        BY <2>0, <2>v, Zenon
      <4>2. ASSUME NEW v \in Workers, rnd'[v].pc = "render"
            PROVE  rnd'[v].d \in Devices /\ rnd'[v].tv >= 1 /\ rnd'[v].tv <= dev[rnd'[v].d].tv
        <5>1. CASE v = w BY <2>0, <3>2, <4>1, <5>1 DEF Types
        <5>2. CASE v # w BY <3>2, <4>2, <5>2, Zenon DEF Order, Types
        <5> QED BY <5>1, <5>2, Zenon
      <4> QED BY <1>1, <4>2, Zenon DEF RenderRead, Order
    <3> QED BY <3>1, <3>2, Zenon
  <2>3. LabelHonest' BY <1>1, Zenon DEF RenderRead, LabelHonest, RightContent, Renderable
  <2> QED BY <2>1, <2>2, <2>3, Zenon
<1>2. CASE RenderWrite(w)
  <2> DEFINE d == rnd[w].d
  <2>1. d \in Devices /\ rnd[w].tv \in 1..MaxTV /\ Spec0(w) \in Specs
    BY <1>2 DEF RenderWrite, Order, Types, Spec0, Specs
  <2>2. CASE dev' = dev /\ env' = env
    <3>1. Types' BY <1>2, <2>2 DEF RenderWrite, Types, NoRender
    <3>2. Order' BY <1>2, <2>2, Zenon DEF RenderWrite, Order, Types, NoRender
    <3>3. LabelHonest' BY <1>2, <2>2, Zenon DEF RenderWrite, LabelHonest, RightContent, Renderable
    <3> QED BY <3>1, <3>2, <3>3, Zenon
  <2>3. CASE ~(dev' = dev /\ env' = env)
    <3>1. /\ dev' = [dev EXCEPT ![d] = [tv |-> dev[d].tv, rtv |-> dev[d].tv, hash |-> Spec0(w),
                              content |-> Spec0(w), ver |-> NextVersion(d)]]
          /\ env' = [env EXCEPT !.crossed = IF dev[d].tv = rnd[w].tv THEN env.crossed \ {d}
                                            ELSE env.crossed \cup {d}]
          /\ rnd' = [rnd EXCEPT ![w] = NoRender]
          /\ UNCHANGED <<fleet, agent, queue, roll, rec>>
      BY <1>2, <2>1, <2>3, Zenon DEF RenderWrite, Types
    <3>2. Types' BY <2>1, <3>1, NextVersionGrows DEF Types, NoRender
    <3>3. Order' BY <2>1, <3>1, NextVersionGrows DEF Order, Types, NoRender
    <3>4. ASSUME NEW e \in Devices \ env'.crossed, dev'[e].rtv = dev'[e].tv, Renderable(e)'
          PROVE  RightContent(e)'
      <4>1. CASE e = d BY <2>1, <3>1, <3>4, <4>1, Zenon DEF RightContent, Types, Spec0
      <4>2. CASE e # d BY <2>1, <3>1, <3>4, <4>2, Zenon DEF RightContent, Renderable, LabelHonest, Types
      <4> QED BY <4>1, <4>2, Zenon
    <3>5. LabelHonest' BY <3>4, Zenon DEF LabelHonest
    <3> QED BY <3>2, <3>3, <3>5
  <2> QED BY <2>2, <2>3, Zenon
<1>3. CASE RenderBroken(w)
  <2>1. rnd[w].d \in Devices /\ rnd[w].tv \in 1..MaxTV /\ Spec0(w) \in Specs
    BY <1>3 DEF RenderBroken, Order, Types, Spec0, Specs
  <2>2. Types'
    <3>1. dev' \in [Devices -> [tv : 1..MaxTV, rtv : 1..MaxTV, hash : Specs, content : Specs,
                                ver : Nat]]
        BY <1>3, <2>1 DEF RenderBroken, Types
    <3>2. rnd' \in [Workers -> [pc : {"idle", "render"}, d : Nat, reason : {"spec", "selected"},
                                tv : 0..MaxTV]]
        BY <1>3 DEF RenderBroken, Types, NoRender
    <3> QED BY <1>3, <3>1, <3>2, Zenon DEF RenderBroken, Types
  <2>3. Order' BY <1>3, <2>1 DEF RenderBroken, Order, Types, NoRender
  <2>4. LabelHonest'
    BY <1>3, <2>1 DEF RenderBroken, LabelHonest, RightContent, Renderable, Types, Spec0
  <2> QED BY <2>2, <2>3, <2>4
<1>4. CASE RenderError(w)
  <2>1. Types' BY <1>4 DEF RenderError, Types, NoRender
  <2>2. Order' BY <1>4, Zenon DEF RenderError, Order, Types, NoRender
  <2>3. LabelHonest' BY <1>4, Zenon DEF RenderError, LabelHonest, RightContent, Renderable, Types
  <2> QED BY <2>1, <2>2, <2>3
<1>5. CASE RenderDies(w)
  <2>1. Types' BY <1>5 DEF RenderDies, Types, Order, NoRender
  <2>2. Order' BY <1>5, Zenon DEF RenderDies, Order, Types, NoRender
  <2>3. LabelHonest' BY <1>5, Zenon DEF RenderDies, LabelHonest, RightContent, Renderable, Types
  <2> QED BY <2>1, <2>2, <2>3
<1> QED BY <1>1, <1>2, <1>3, <1>4, <1>5, Zenon DEF Render

(* The reconciler selects devices; nothing of theirs changes. *)
LEMMA TickSteps ==
    ASSUME RenderInv, Tick \/ TickFails
    PROVE  RenderInv'
<1> USE DEF RenderInv
<1>1. /\ UNCHANGED <<fleet, dev, agent, roll, rnd>>
      /\ "crossed" \in DOMAIN env' /\ env'.crossed = env.crossed
  BY Zenon DEF Types, Tick, TickFails, StartTick, SelectAll, CountGroups, SelectGroup
<1>2. queue' \subseteq Devices \X {"spec", "selected"}
  <2>1. CASE SelectAll BY <2>1 DEF SelectAll, Selected, ToRender, Types
  <2>2. ASSUME NEW g \in Groups, SelectGroup(g)
        PROVE  queue' \subseteq Devices \X {"spec", "selected"}
    <3>1. FirstN(ToRender(Members(g), rec.tv), rec.num[g]) \subseteq Devices
      BY Zenon DEF FirstN, ToRender, Members
    <3> QED BY <2>2, <3>1 DEF SelectGroup, Selected, Types
  <2>3. CASE queue' = queue BY <2>3, Zenon DEF Types
  <2> QED BY <2>1, <2>2, <2>3, Zenon DEF Tick, TickFails, StartTick, CountGroups
<1>3. /\ {"pc", "num"} \subseteq DOMAIN rec'
      /\ rec'.pc \in {"idle", "all", "count", "list"} /\ DOMAIN rec'.num \subseteq Groups
  <2> USE DEF IdleTick, Types
  <2>1. CASE StartTick BY <2>1, Zenon DEF StartTick
  <2>2. CASE SelectAll \/ TickFails BY <2>2 DEF SelectAll, TickFails
  <2>3. CASE CountGroups BY <2>3, Zenon DEF CountGroups
  <2>4. ASSUME NEW g \in Groups, SelectGroup(g)
        PROVE  /\ {"pc", "num"} \subseteq DOMAIN rec'
               /\ rec'.pc \in {"idle", "all", "count", "list"} /\ DOMAIN rec'.num \subseteq Groups
    BY <2>4, Zenon DEF SelectGroup
  <2> QED BY <2>1, <2>2, <2>3, <2>4, Zenon DEF Tick
<1>4. Types' BY <1>1, <1>2, <1>3, Zenon DEF Types
<1>5. Order' BY <1>1, Zenon DEF Order
<1>6. LabelHonest' BY <1>1, Zenon DEF LabelHonest, RightContent, Renderable
<1> QED BY <1>4, <1>5, <1>6, Zenon

LEMMA AgentSteps ==
    ASSUME RenderInv, NEW d \in Devices,
           AgentUpdates(d) \/ AgentFails(d) \/ Disconnect(d) \/ Reconnect(d)
    PROVE  RenderInv'
<1> USE DEF RenderInv
<1>1. CASE AgentUpdates(d)
  <2>1. Types' BY <1>1 DEF AgentUpdates, Types
  <2>2. Order' BY <1>1 DEF AgentUpdates, Order, Types
  <2>3. LabelHonest' BY <1>1, Zenon DEF AgentUpdates, LabelHonest, RightContent, Renderable
  <2> QED BY <2>1, <2>2, <2>3, Zenon
<1>2. CASE AgentFails(d)
  <2>1. Types' BY <1>2 DEF AgentFails, Types
  <2>2. Order' BY <1>2, Zenon DEF AgentFails, Order, Types
  <2>3. LabelHonest' BY <1>2, Zenon DEF AgentFails, LabelHonest, RightContent, Renderable, Types
  <2> QED BY <2>1, <2>2, <2>3
<1>3. CASE Disconnect(d)
  <2>1. Types'
    <3>1. agent' \in [Devices -> [ver : Nat, bad : Nat, conn : BOOLEAN]]
        BY <1>3, ZenonT(30) DEF Disconnect, Types
    <3>2. "crossed" \in DOMAIN env'
        BY <1>3, Zenon DEF Disconnect, Types
    <3> QED BY <1>3, <3>1, <3>2, Zenon DEF Disconnect, Types
  <2>2. Order' BY <1>3, Zenon DEF Disconnect, Order, Types
  <2>3. LabelHonest' BY <1>3, Zenon DEF Disconnect, LabelHonest, RightContent, Renderable, Types
  <2> QED BY <2>1, <2>2, <2>3
<1>4. CASE Reconnect(d)
  <2>1. Types'
    <3>1. agent' \in [Devices -> [ver : Nat, bad : Nat, conn : BOOLEAN]]
        BY <1>4, ZenonT(30) DEF Reconnect, Types
    <3>2. "crossed" \in DOMAIN env'
        BY <1>4, Zenon DEF Reconnect, Types
    <3> QED BY <1>4, <3>1, <3>2, Zenon DEF Reconnect, Types
  <2>2. Order' BY <1>4 DEF Reconnect, Order, Types
  <2>3. LabelHonest' BY <1>4, Zenon DEF Reconnect, LabelHonest, RightContent, Renderable
  <2> QED BY <2>1, <2>2, <2>3
<1> QED BY <1>1, <1>2, <1>3, <1>4, Zenon

(* RenderInv is inductive. *)
THEOREM RenderInvariant == Spec => []RenderInv
<1>1. RenderInv /\ [Next]_vars => RenderInv'
  <2> SUFFICES ASSUME RenderInv, [Next]_vars PROVE RenderInv'
      BY Zenon
  <2>1. CASE NewTemplate \/ (\E b \in Budgets : EditBudget(b)) \/ Rollout
    BY <2>1, RolloutSteps, Zenon
  <2>2. ASSUME NEW w \in Workers, Render(w) \/ RenderError(w) \/ RenderDies(w) PROVE RenderInv'
    BY <2>2, RenderSteps, Zenon
  <2>3. CASE Tick \/ TickFails
    BY <2>3, TickSteps, Zenon
  <2>4. ASSUME NEW d \in Devices,
               AgentUpdates(d) \/ AgentFails(d) \/ Disconnect(d) \/ Reconnect(d)
        PROVE  RenderInv'
    BY <2>4, AgentSteps, Zenon
  <2>5. CASE UNCHANGED vars
    BY <2>5, Zenon DEF vars, RenderInv, Types, Order, LabelHonest, RightContent, Renderable
  <2> QED BY <2>1, <2>2, <2>3, <2>4, <2>5, Zenon DEF Next
<1> QED BY <1>1, InitRender, PTL DEF Spec

(* The variables keep their types; no template version is ahead of the one it comes   *)
(* from, no agent ahead of what UpdateRenderedDevice has stored.                       *)
THEOREM RenderTypes == Spec => []TypeOK
<1>1. RenderInv => TypeOK
  BY DEF RenderInv, Types, Order, TypeOK
<1> QED BY <1>1, RenderInvariant, PTL

(* A device labelled as rendered for its template version has that version's content, *)
(* for any number of workers of device_render, unless the template version changed     *)
(* between the read and the write of the rendering.                                    *)
THEOREM LabelsHonest == Spec => []LabelHonest
<1>1. RenderInv => LabelHonest
  BY Zenon DEF RenderInv
<1> QED BY <1>1, RenderInvariant, PTL

--------------------------------------------------------------------------------
(* A rendering that has started has something to do, whatever its device goes through *)
(* until it writes: the device is not rendered for its template version when selected, *)
(* not rendered from its spec otherwise.                                              *)
StillDue(w) ==
    LET d == rnd[w].d
    IN rnd[w].pc = "render" =>
          IF rnd[w].reason = "selected" THEN dev[d].rtv # dev[d].tv
          ELSE IF dev[d].tv = rnd[w].tv THEN dev[d].hash # SpecOf[dev[d].tv]
          ELSE dev[d].rtv # dev[d].tv
OneWorker == \A v, w \in Workers : v = w
DueInv == OneWorker => \A w \in Workers : StillDue(w)

LEMMA DueStep == RenderInv /\ DueInv /\ [Next]_vars => DueInv'
<1> SUFFICES ASSUME RenderInv, DueInv, [Next]_vars, OneWorker, NEW w \in Workers
             PROVE  StillDue(w)'
    BY Zenon DEF DueInv, OneWorker
<1>0. StillDue(w) /\ Types /\ Order
  BY Zenon DEF DueInv, RenderInv
<1>1. CASE UNCHANGED <<dev, rnd>>
  BY <1>0, <1>1, Zenon DEF StillDue
<1>2. ASSUME NEW e \in Devices, ReplaceDeviceSpec(e) PROVE StillDue(w)'
  <2>1. CASE rnd[w].pc = "render" /\ rnd[w].d = e
    <3>1. /\ dev[e].tv < roll.tv /\ dev[e].rtv <= dev[e].tv /\ rnd[w].tv <= dev[e].tv
          /\ dev[e].tv \in Nat /\ dev[e].rtv \in Nat /\ roll.tv \in Nat /\ rnd[w].tv \in Nat
      BY <1>0, <1>2, <2>1 DEF ReplaceDeviceSpec, Types, Order
    <3>2. dev'[e].tv = roll.tv /\ dev'[e].rtv = dev[e].rtv /\ rnd' = rnd
      BY <1>0, <1>2 DEF ReplaceDeviceSpec, Types
    <3> QED BY <2>1, <3>1, <3>2 DEF StillDue
  <2>2. CASE ~(rnd[w].pc = "render" /\ rnd[w].d = e)
    <3>1. rnd' = rnd /\ (rnd[w].pc = "render" => dev'[rnd[w].d] = dev[rnd[w].d])
      BY <1>0, <1>2, <2>2, Zenon DEF ReplaceDeviceSpec, Types, Order
    <3> QED BY <1>0, <3>1, Zenon DEF StillDue
  <2> QED BY <2>1, <2>2, Zenon
<1>3. CASE RenderRead(w)
  <2>1. PICK e \in queue :
         rnd' = IF AlreadyRendered(e[1], e[2]) THEN rnd
                ELSE [rnd EXCEPT ![w] = [pc |-> "render", d |-> e[1], reason |-> e[2],
                                         tv |-> dev[e[1]].tv]]
    BY <1>3, Zenon DEF RenderRead
  <2> QED BY <1>0, <1>3, <2>1, Zenon DEF RenderRead, AlreadyRendered, StillDue, Types
<1>4. CASE RenderWrite(w) \/ RenderBroken(w) \/ RenderError(w) \/ RenderDies(w)
  <2>1. rnd'[w] = NoRender
    BY <1>0, <1>4, Zenon DEF RenderWrite, RenderBroken, RenderError, RenderDies, Types
  <2> QED BY <2>1 DEF StillDue, NoRender
<1>5. ASSUME NEW v \in Workers, Render(v) \/ RenderError(v) \/ RenderDies(v) PROVE StillDue(w)'
  BY <1>3, <1>4, <1>5, Zenon DEF OneWorker, Render
<1>6. CASE \/ NewTemplate \/ (\E b \in Budgets : EditBudget(b)) \/ RolloutFleet \/ Tick
          \/ TickFails \/ UNCHANGED vars
          \/ \E d \in Devices : AgentUpdates(d) \/ AgentFails(d) \/ Disconnect(d) \/ Reconnect(d)
  BY <1>1, <1>6, Zenon DEF NewTemplate, EditBudget, RolloutFleet, Tick, TickFails, StartTick,
     SelectAll, CountGroups, SelectGroup, AgentUpdates, AgentFails, Disconnect, Reconnect, vars
<1> QED BY <1>2, <1>5, <1>6, Zenon DEF Next, Rollout

(* With one worker of device_render, the rendered version of a device that has caught  *)
(* up never moves: repeated and redelivered events do not disturb its agent.           *)
THEOREM NoPhantoms == OneWorker /\ Spec => NoPhantomRender
<1> SUFFICES ASSUME OneWorker PROVE Spec => NoPhantomRender
    BY Zenon
<1>1. Init => DueInv
  BY DEF Init, DueInv, StillDue, NoRender
<1>2. RenderInv /\ DueInv /\ [Next]_vars =>
         [\A d \in Devices : CaughtUp(d) => dev'[d].ver = dev[d].ver]_vars
  <2> SUFFICES ASSUME RenderInv, DueInv, Next, NEW d \in Devices, CaughtUp(d)
               PROVE  dev'[d].ver = dev[d].ver
      BY Zenon
  <2>0. Types /\ Order
    BY Zenon DEF RenderInv
  <2>1. ASSUME NEW e \in Devices, ReplaceDeviceSpec(e) PROVE dev'[d].ver = dev[d].ver
    BY <2>0, <2>1 DEF ReplaceDeviceSpec, Types
  <2>2. ASSUME NEW w \in Workers, RenderBroken(w) PROVE dev'[d].ver = dev[d].ver
    BY <2>0, <2>2 DEF RenderBroken, Types
  <2>3. ASSUME NEW w \in Workers, RenderWrite(w) PROVE dev'[d].ver = dev[d].ver
    <3>1. CASE rnd[w].d # d
      BY <2>0, <2>3, <3>1, Zenon DEF RenderWrite, Types
    <3>2. CASE rnd[w].d = d
      BY <2>0, <2>3, <3>2, Zenon DEF RenderWrite, Types, Spec0, DueInv, StillDue, CaughtUp
    <3> QED BY <3>1, <3>2, Zenon
  <2>4. CASE dev' = dev
    BY <2>4, Zenon
  <2> QED BY <2>1, <2>2, <2>3, <2>4, Zenon
      DEF Next, Rollout, Render, NewTemplate, EditBudget, RolloutFleet, RenderRead, RenderError,
          RenderDies, Tick, TickFails, StartTick, SelectAll, CountGroups, SelectGroup,
          AgentUpdates, AgentFails, Disconnect, Reconnect
<1> QED BY <1>1, <1>2, DueStep, RenderInvariant, PTL DEF Spec, NoPhantomRender

--------------------------------------------------------------------------------
(* The disruption budget.  A device selected for rendering, or being rendered, is not *)
(* behind yet and no later count may miss it: the invariant counts it with those that  *)
(* are, and with what the reconciler may still select of its group.                   *)
Out(g) == {d \in Members(g) : \/ agent[d].ver # dev[d].ver
                              \/ <<d, "selected">> \in queue
                              \/ \E w \in Workers : rnd[w].pc = "render" /\ rnd[w].d = d}
Allows(b, g, n) ==
    /\ b.max # None => n <= b.max
    /\ b.min # None => Cardinality(Members(g)) - n >= Floor(g, b.min)
Steady == fleet.budget # None /\ env.edits = 0 /\ env.losses = 0 /\ ~env.overlap

OnlySelected ==
    /\ \A d \in Devices : agent[d].conn
    /\ roll.page # {} => roll.delay
    /\ \A e \in queue : e[2] = "selected"
    /\ \A w \in Workers : rnd[w].pc = "render" => rnd[w].reason = "selected"
    /\ rec.pc # "all" /\ (rec.pc # "idle" => rec.budget = fleet.budget)
Counted ==
    /\ \A g \in Groups : Allows(fleet.budget, g, Cardinality(Out(g)))
    /\ rec.pc = "list" => \A g \in DOMAIN rec.num :
          rec.num[g] \in Nat /\ Allows(fleet.budget, g, Cardinality(Out(g)) + rec.num[g])
BudgetInv ==
    /\ {"edits", "losses", "overlap"} \subseteq DOMAIN env /\ env.edits \in Nat /\ env.losses \in Nat
    /\ {"tv", "budget"} \subseteq DOMAIN rec
    /\ Steady => OnlySelected /\ Counted

(* The first n of a set are at most n: the number of smaller members tells them apart. *)
LEMMA FirstAtMost ==
    ASSUME NEW S \in SUBSET Devices, NEW n \in Nat
    PROVE  IsFiniteSet(FirstN(S, n)) /\ Cardinality(FirstN(S, n)) <= n
<1> DEFINE Below(d) == {e \in S : e < d}
           F == FirstN(S, n)
           rank == [d \in F |-> Cardinality(Below(d))]
<1>1. S \subseteq Nat /\ IsFiniteSet(S)
    BY RenderAssumption, FS_Subset, Zenon
<1>2. \A d \in S : IsFiniteSet(Below(d)) /\ Cardinality(Below(d)) \in Nat
  <2> SUFFICES ASSUME NEW d \in S PROVE IsFiniteSet(Below(d)) /\ Cardinality(Below(d)) \in Nat
      BY Zenon
  <2>1. Below(d) \in SUBSET S
      BY Zenon
  <2>2. IsFiniteSet(Below(d))
      BY <1>1, <2>1, FS_Subset, Zenon
  <2> QED BY <2>2, FS_CardinalityType, Zenon
<1>3. F \subseteq S /\ \A d \in F : Cardinality(Below(d)) < n
    BY Zenon DEF FirstN
<1>4. rank \in [F -> 0..(n - 1)]
  <2> SUFFICES ASSUME NEW d \in F PROVE Cardinality(Below(d)) \in 0..(n - 1)
      BY Zenon
  <2>1. Cardinality(Below(d)) \in Nat /\ Cardinality(Below(d)) < n
      BY <1>2, <1>3, Zenon
  <2> HIDE DEF Below
  <2> QED BY <2>1
<1>5. ASSUME NEW d \in F, NEW e \in F, d < e PROVE rank[d] # rank[e]
  <2>1. d \in S /\ e \in S /\ d \in Nat /\ e \in Nat
      BY <1>1, <1>3, Zenon
  <2>2. Below(d) \in SUBSET Below(e)
    <3> SUFFICES ASSUME NEW x \in S, x < d PROVE x < e
        BY Zenon
    <3>1. x \in Nat
        BY <1>1, Zenon
    <3> HIDE DEF F, rank, Below
    <3> QED BY <1>5, <2>1, <3>1
  <2>3. Below(d) # Below(e)
      BY <1>5, <2>1
  <2>4. IsFiniteSet(Below(e))
      BY <1>2, <2>1, Zenon
  <2> HIDE DEF Below
  <2>5. Cardinality(Below(d)) # Cardinality(Below(e))
      BY <2>2, <2>3, <2>4, FS_Subset, Zenon
  <2> QED BY <2>5, Zenon
<1>6. rank \in Injection(F, 0..(n - 1))
  <2> HIDE DEF rank, F
  <2>1. \A d, e \in F : d # e => d < e \/ e < d
    <3>1. F \subseteq Nat
        BY <1>1, <1>3, Zenon
    <3> QED BY <3>1
  <2>2. \A d, e \in F : rank[d] = rank[e] => d = e
      BY <1>5, <2>1, Zenon
  <2> QED BY <1>4, <2>2, Zenon DEF Injection, IsInjective
<1>7. IsFiniteSet(0..(n - 1)) /\ Cardinality(0..(n - 1)) = n
  <2>1. 0 \in Int /\ n - 1 \in Int
      OBVIOUS
  <2>2. /\ IsFiniteSet(0..(n - 1))
        /\ Cardinality(0..(n - 1)) = IF 0 > n - 1 THEN 0 ELSE n - 1 - 0 + 1
      BY <2>1, FS_Interval, Zenon
  <2> QED BY <2>2
<1> HIDE DEF rank, F
<1>8. IsFiniteSet(F) /\ Cardinality(F) <= Cardinality(0..(n - 1))
    BY <1>6, <1>7, FS_Injection, Zenon
<1> QED BY <1>7, <1>8, Zenon DEF F

LEMMA GroupSizes ==
    ASSUME NEW g \in Groups
    PROVE  /\ IsFiniteSet(Members(g)) /\ Cardinality(Members(g)) \in Nat
           /\ \A S \in SUBSET Members(g) :
                 /\ IsFiniteSet(S) /\ Cardinality(S) \in Nat
                 /\ \A R \in SUBSET S : Cardinality(R) \in Nat /\ Cardinality(R) <= Cardinality(S)
<1>1. Members(g) \in SUBSET Devices /\ IsFiniteSet(Devices)
    BY RenderAssumption, Zenon DEF Members
<1>2. \A S \in SUBSET Devices : IsFiniteSet(S)
    BY <1>1, FS_Subset, Zenon
<1>3. \A S \in SUBSET Devices : Cardinality(S) \in Nat
    BY <1>2, FS_CardinalityType, Zenon
<1>4. \A S \in SUBSET Devices : \A R \in SUBSET S : Cardinality(R) <= Cardinality(S)
    BY <1>2, FS_Subset, Zenon
<1> QED BY <1>1, <1>2, <1>3, <1>4, Zenon

LEMMA Floors ==
    ASSUME NEW g \in Groups, NEW b \in Budgets \ {None}
    PROVE  /\ b.max # None => b.max \in Nat
           /\ b.min # None => Floor(g, b.min) \in Int /\ Floor(g, b.min) < Cardinality(Members(g))
<1>1. Cardinality(Members(g)) \in Nat
    BY GroupSizes, Zenon
<1>2. (b.max # None => b.max \in Nat) /\ (b.min # None => b.min \in Nat)
    BY RenderAssumption, Zenon
<1> QED BY <1>1, <1>2 DEF Floor, Min2

(* What a budget allows for n devices it allows for fewer. *)
LEMMA AllowsFewer ==
    ASSUME NEW g \in Groups, NEW b \in Budgets \ {None}, NEW m \in Nat, NEW n \in Nat, m <= n,
           Allows(b, g, n)
    PROVE  Allows(b, g, m)
<1>1. Cardinality(Members(g)) \in Nat
    BY GroupSizes, Zenon
<1> QED BY <1>1, Floors DEF Allows

(* A step that takes no further device out. *)
LEMMA NoneOut ==
    ASSUME Types, Counted, Steady, fleet'.budget = fleet.budget,
           \A g \in Groups : Out(g)' \subseteq Out(g),
           rec' = rec \/ rec'.pc \in {"idle", "count"}
    PROVE  Counted'
<1>1. fleet.budget \in Budgets \ {None}
    BY Zenon DEF Types, Steady
<1>2. ASSUME NEW g \in Groups
      PROVE  /\ Cardinality(Out(g)) \in Nat /\ Cardinality(Out(g)') \in Nat
             /\ Cardinality(Out(g)') <= Cardinality(Out(g))
  <2>1. Out(g) \in SUBSET Members(g) /\ Out(g)' \in SUBSET Out(g)
      BY Zenon DEF Out
  <2> QED BY <2>1, GroupSizes, Zenon
<1>3. \A g \in Groups : Allows(fleet.budget, g, Cardinality(Out(g)'))
    BY <1>1, <1>2, AllowsFewer, Zenon DEF Counted
<1>4. ASSUME rec'.pc = "list", NEW g \in DOMAIN rec'.num
      PROVE  rec'.num[g] \in Nat /\ Allows(fleet.budget, g, Cardinality(Out(g)') + rec'.num[g])
  <2>1. rec' = rec
      BY <1>4, Zenon
  <2>2. g \in Groups /\ rec.num[g] \in Nat
        /\ Allows(fleet.budget, g, Cardinality(Out(g)) + rec.num[g])
      BY <1>4, <2>1, Zenon DEF Counted, Types
  <2>3. /\ Cardinality(Out(g)) + rec.num[g] \in Nat /\ Cardinality(Out(g)') + rec.num[g] \in Nat
        /\ Cardinality(Out(g)') + rec.num[g] <= Cardinality(Out(g)) + rec.num[g]
      BY <1>2, <2>2
  <2>4. Allows(fleet.budget, g, Cardinality(Out(g)') + rec.num[g])
      BY <1>1, <2>2, <2>3, AllowsFewer, Zenon
  <2> QED BY <2>1, <2>2, <2>4, Zenon
<1> QED BY <1>3, <1>4, Zenon DEF Counted

(* What the budget leaves of a group is within it. *)
LEMMA NumAllowed ==
    ASSUME NEW g \in Groups, NEW b \in Budgets \ {None}, Connected(g) = Members(g),
           NumToRender(g, b) > 0
    PROVE  /\ NumToRender(g, b) \in Nat
           /\ Allows(b, g, Cardinality(Busy(g)) + NumToRender(g, b))
<1>1. /\ Cardinality(Members(g)) \in Nat /\ Cardinality(Busy(g)) \in Nat
      /\ b.max # None => b.max \in Nat
      /\ b.min # None => Floor(g, b.min) \in Int
      /\ b.max # None \/ b.min # None
  <2>1. Busy(g) \in SUBSET Members(g)
      BY Zenon DEF Busy
  <2> QED BY <2>1, GroupSizes, Floors, RenderAssumption, Zenon
<1> DEFINE busy == Cardinality(Busy(g))
           byMax == b.max - busy
           byMin == Cardinality(Members(g)) - busy - Floor(g, b.min)
<1>2. NumToRender(g, b) = IF b.min = None THEN byMax ELSE IF b.max = None THEN byMin
                          ELSE Min2(byMax, byMin)
    BY Zenon DEF NumToRender
<1>3. CASE b.min = None
    BY <1>1, <1>2, <1>3 DEF Allows
<1>4. CASE b.min # None /\ b.max = None
    BY <1>1, <1>2, <1>4 DEF Allows
<1>5. CASE b.min # None /\ b.max # None
    BY <1>1, <1>2, <1>5 DEF Allows, Min2
<1> QED BY <1>3, <1>4, <1>5, Zenon

LEMMA InitBudget == Init => BudgetInv
<1> SUFFICES ASSUME Init PROVE BudgetInv
    OBVIOUS
<1>1. /\ fleet.budget \in Budgets
      /\ \A d \in Devices : agent[d].conn /\ agent[d].ver = 1 /\ dev[d].ver = 1
      /\ roll.page = {} /\ queue = {} /\ \A w \in Workers : rnd[w].pc = "idle"
      /\ rec.pc = "idle" /\ {"tv", "budget"} \subseteq DOMAIN rec
      /\ {"edits", "losses", "overlap"} \subseteq DOMAIN env /\ env.edits = 0 /\ env.losses = 0
  <2>1. fleet.budget \in Budgets
      BY DEF Init
  <2>2. \A d \in Devices : agent[d].conn /\ agent[d].ver = 1 /\ dev[d].ver = 1
      BY Zenon DEF Init
  <2>3. roll.page = {} /\ queue = {} /\ \A w \in Workers : rnd[w].pc = "idle"
      BY Zenon DEF Init, NoRoll, NoRender
  <2>4. rec.pc = "idle" /\ {"tv", "budget"} \subseteq DOMAIN rec
      BY Zenon DEF Init, IdleTick
  <2>5. {"edits", "losses", "overlap"} \subseteq DOMAIN env /\ env.edits = 0 /\ env.losses = 0
      BY Zenon DEF Init
  <2> QED BY <2>1, <2>2, <2>3, <2>4, <2>5, Zenon
<1>2. OnlySelected
    BY <1>1, Zenon DEF OnlySelected
<1>3. ASSUME Steady, NEW g \in Groups PROVE Allows(fleet.budget, g, Cardinality(Out(g)))
  <2>1. Out(g) = {}
      BY <1>1, Zenon DEF Out, Members
  <2>2. Cardinality(Out(g)) = 0
      BY <2>1, FS_EmptySet, Zenon
  <2>3. Cardinality(Members(g)) \in Nat /\ fleet.budget \in Budgets \ {None}
      BY <1>1, <1>3, GroupSizes, Zenon DEF Steady
  <2> QED BY <2>2, <2>3, Floors DEF Allows
<1> QED BY <1>1, <1>2, <1>3 DEF BudgetInv, Counted

(* The user, and the rollout: with a budget the event of a changed spec does not render. *)
LEMMA BudgetRollout ==
    ASSUME RenderInv, BudgetInv, NewTemplate \/ (\E b \in Budgets : EditBudget(b)) \/ Rollout
    PROVE  BudgetInv'
<1>0. Types
    BY Zenon DEF RenderInv
<1>1. ASSUME NEW b \in Budgets, EditBudget(b) PROVE BudgetInv'
  <2>1. /\ {"edits", "losses", "overlap"} \subseteq DOMAIN env' /\ env'.edits = env.edits + 1
        /\ env'.losses = env.losses /\ rec' = rec
      BY <1>1, Zenon DEF EditBudget, BudgetInv
  <2>2. env'.edits # 0 /\ env'.edits \in Nat
      BY <2>1 DEF BudgetInv
  <2> QED BY <2>1, <2>2, Zenon DEF BudgetInv, Steady
<1>2. CASE NewTemplate \/ Rollout
  <2>1. UNCHANGED <<agent, rnd, rec, env>> /\ fleet'.budget = fleet.budget
      BY <1>0, <1>2, Zenon DEF NewTemplate, Rollout, RolloutFleet, ReplaceDeviceSpec, Types
  <2>2. Steady' => Steady
      BY <2>1, Zenon DEF Steady
  <2>3. ASSUME Steady PROVE OnlySelected' /\ Counted'
    <3>0. OnlySelected /\ Counted /\ fleet.budget # None
        BY <2>3, Zenon DEF BudgetInv, Steady
    <3>1. queue' = queue
        BY <1>2, <3>0, Zenon DEF NewTemplate, Rollout, RolloutFleet, ReplaceDeviceSpec, RenderTask,
                          OnlySelected
    <3>2. roll'.page # {} => roll'.delay
      <4>1. CASE NewTemplate
          BY <3>0, <4>1, Zenon DEF NewTemplate, OnlySelected
      <4>2. CASE RolloutFleet
          BY <3>0, <4>2, Zenon DEF RolloutFleet
      <4>3. ASSUME NEW d \in Devices, ReplaceDeviceSpec(d) PROVE roll'.page # {} => roll'.delay
          BY <1>0, <3>0, <4>3, Zenon DEF ReplaceDeviceSpec, OnlySelected, NoRoll, Types
      <4> QED BY <1>2, <4>1, <4>2, <4>3, Zenon DEF Rollout
    <3>3. \A d \in Devices : dev'[d].ver = dev[d].ver
        BY <1>0, <1>2 DEF NewTemplate, Rollout, RolloutFleet, ReplaceDeviceSpec, Types
    <3>4. \A g \in Groups : Out(g)' \subseteq Out(g)
        BY <2>1, <3>1, <3>3, Zenon DEF Out, Members
    <3>5. OnlySelected'
        BY <2>1, <3>0, <3>1, <3>2, Zenon DEF OnlySelected
    <3> QED BY <1>0, <2>1, <2>3, <3>0, <3>4, <3>5, NoneOut, Zenon
  <2> QED BY <2>1, <2>2, <2>3, Zenon DEF BudgetInv
<1> QED BY <1>1, <1>2, Zenon

(* A rendering goes on with a device that was selected, and ends. *)
LEMMA BudgetRender ==
    ASSUME RenderInv, BudgetInv, NEW w \in Workers, Render(w) \/ RenderError(w) \/ RenderDies(w)
    PROVE  BudgetInv'
<1>0. Types /\ Order
    BY Zenon DEF RenderInv
<1>1. /\ UNCHANGED <<fleet, agent, roll, rec>>
      /\ {"edits", "losses", "overlap"} \subseteq DOMAIN env'
      /\ env'.edits = env.edits /\ env'.losses = env.losses /\ env'.overlap = env.overlap
    BY Zenon DEF Render, RenderRead, RenderWrite, RenderBroken, RenderError, RenderDies, BudgetInv
<1>2. Steady' => Steady
    BY <1>1, Zenon DEF Steady
<1>3. ASSUME Steady PROVE OnlySelected' /\ Counted'
  <2>0. OnlySelected /\ Counted
      BY <1>3, Zenon DEF BudgetInv
  <2>1. /\ \A e \in queue' : e[2] = "selected"
        /\ \A v \in Workers : rnd'[v].pc = "render" => rnd'[v].reason = "selected"
        /\ \A g \in Groups : Out(g)' \subseteq Out(g)
    <3>1. CASE RenderRead(w)
      <4>1. PICK e \in queue :
               /\ queue' = queue \ {e}
               /\ rnd' = IF AlreadyRendered(e[1], e[2]) THEN rnd
                         ELSE [rnd EXCEPT ![w] = [pc |-> "render", d |-> e[1], reason |-> e[2],
                                                  tv |-> dev[e[1]].tv]]
          BY <3>1, Zenon DEF RenderRead
      <4>2. e[2] = "selected" /\ e = <<e[1], "selected">>
          BY <1>0, <2>0 DEF OnlySelected, Types
      <4>3. \A v \in Workers : rnd'[v].pc = "render" =>
               \/ rnd'[v] = rnd[v]
               \/ rnd'[v].d = e[1] /\ rnd'[v].reason = "selected"
          BY <1>0, <4>1, <4>2, Zenon DEF Types
      <4>4. queue' \subseteq queue /\ <<e[1], "selected">> \in queue
          BY <4>1, <4>2, Zenon
      <4>5. dev' = dev
          BY <3>1, Zenon DEF RenderRead
      <4>6. \A g \in Groups : Out(g)' \subseteq Out(g)
          BY <1>1, <4>3, <4>4, <4>5, Zenon DEF Out, Members
      <4> QED BY <2>0, <4>3, <4>4, <4>6, Zenon DEF OnlySelected
    <3>2. CASE RenderWrite(w) \/ RenderBroken(w) \/ RenderError(w) \/ RenderDies(w)
      <4>1. rnd[w].pc = "render" /\ rnd' = [rnd EXCEPT ![w] = NoRender]
          BY <3>2, Zenon DEF RenderWrite, RenderBroken, RenderError, RenderDies
      <4>2. \A v \in Workers : rnd'[v].pc = "render" => rnd'[v] = rnd[v]
          BY <1>0, <4>1, Zenon DEF NoRender, Types
      <4>3. rnd[w].reason = "selected" /\ rnd[w].d \in Devices
          BY <1>0, <2>0, <4>1, Zenon DEF OnlySelected, Order
      <4>4. queue' \subseteq queue \cup {<<rnd[w].d, "selected">>}
          BY <3>2, <4>3, Zenon DEF RenderWrite, RenderBroken, RenderError, RenderDies
      <4>5. \A d \in Devices \ {rnd[w].d} : dev'[d].ver = dev[d].ver
          BY <1>0, <3>2, Zenon DEF RenderWrite, RenderBroken, RenderError, RenderDies, Types
      <4>6. ASSUME NEW g \in Groups, NEW d \in Out(g)' PROVE d \in Out(g)
        <5>1. d \in Members(g) /\ d \in Devices
            BY Zenon DEF Out, Members
        <5>2. CASE d = rnd[w].d
            BY <4>1, <5>1, <5>2, Zenon DEF Out
        <5>3. CASE d # rnd[w].d
          <6>1. dev'[d].ver = dev[d].ver /\ agent' = agent
              BY <1>1, <4>5, <5>1, <5>3, Zenon
          <6>2. <<d, "selected">> \in queue' => <<d, "selected">> \in queue
              BY <4>4, <5>3, Zenon
          <6>3. \A v \in Workers : rnd'[v].pc = "render" /\ rnd'[v].d = d =>
                                   rnd[v].pc = "render" /\ rnd[v].d = d
              BY <4>2, Zenon
          <6> QED BY <5>1, <6>1, <6>2, <6>3, Zenon DEF Out
        <5> QED BY <5>2, <5>3, Zenon
      <4>7. \A e \in queue' : e[2] = "selected"
          BY <2>0, <4>4 DEF OnlySelected
      <4> QED BY <2>0, <4>2, <4>6, <4>7, Zenon DEF OnlySelected
    <3> QED BY <3>1, <3>2, Zenon DEF Render
  <2>2. OnlySelected'
      BY <1>1, <2>0, <2>1, Zenon DEF OnlySelected
  <2> QED BY <1>0, <1>1, <1>3, <2>0, <2>1, <2>2, NoneOut, Zenon
<1> QED BY <1>1, <1>2, <1>3, Zenon DEF BudgetInv

(* The reconciler: a count with nothing pending sees all devices that are out, and a    *)
(* group gets at most the number counted for it.                                        *)
LEMMA BudgetTick ==
    ASSUME RenderInv, BudgetInv, Tick \/ TickFails
    PROVE  BudgetInv'
<1>0. Types
    BY Zenon DEF RenderInv
<1>1. /\ UNCHANGED <<fleet, dev, agent, roll, rnd>>
      /\ {"edits", "losses", "overlap"} \subseteq DOMAIN env'
      /\ env'.edits = env.edits /\ env'.losses = env.losses
      /\ ~env'.overlap => ~env.overlap
  <2>1. UNCHANGED <<fleet, dev, agent, roll, rnd>>
      BY Zenon DEF Tick, TickFails, StartTick, SelectAll, CountGroups, SelectGroup
  <2>2. \/ env' = env \/ env' = [env EXCEPT !.mishaps = env.mishaps + 1]
        \/ env' = [env EXCEPT !.overlap = env.overlap \/ Pending]
      BY Zenon DEF Tick, TickFails, StartTick, SelectAll, CountGroups, SelectGroup
  <2> QED BY <2>1, <2>2, Zenon DEF BudgetInv
<1>2. Steady' => Steady
    BY <1>1, Zenon DEF Steady
<1>3. {"tv", "budget"} \subseteq DOMAIN rec'
  <2>1. CASE rec' = IdleTick
      BY <2>1, Zenon DEF IdleTick
  <2>2. CASE StartTick
      BY <2>2, Zenon DEF StartTick, IdleTick
  <2>3. CASE CountGroups /\ rec' # IdleTick
      BY <1>0, <2>3, Zenon DEF CountGroups, BudgetInv
  <2>4. ASSUME NEW g \in Groups, SelectGroup(g), rec' # IdleTick
        PROVE  {"tv", "budget"} \subseteq DOMAIN rec'
      BY <1>0, <2>4, Zenon DEF SelectGroup, BudgetInv
  <2> QED BY <2>1, <2>2, <2>3, <2>4, Zenon DEF Tick, TickFails, SelectAll
<1>4. SUFFICES ASSUME Steady, Steady' PROVE OnlySelected' /\ Counted'
    BY <1>1, <1>2, <1>3, Zenon DEF BudgetInv
<1>5. OnlySelected /\ Counted /\ fleet.budget \in Budgets \ {None}
    BY <1>0, <1>4, Zenon DEF BudgetInv, Steady, Types
<1>6. CASE StartTick \/ SelectAll \/ TickFails
  <2>1. rec'.pc = "idle" \/ (rec'.pc = "count" /\ rec'.budget = fleet.budget)
    <3>1. CASE rec' = IdleTick
        BY <3>1, Zenon DEF IdleTick
    <3>2. CASE StartTick
        BY <1>5, <3>2, Zenon DEF StartTick, IdleTick
    <3> QED BY <1>6, <3>1, <3>2, Zenon DEF SelectAll, TickFails
  <2>2. queue' = queue
      BY <1>5, <1>6, Zenon DEF StartTick, SelectAll, TickFails, OnlySelected
  <2>3. \A g \in Groups : Out(g)' \subseteq Out(g)
      BY <1>1, <2>2, Zenon DEF Out, Members
  <2>4. OnlySelected'
      BY <1>1, <1>5, <2>1, <2>2, Zenon DEF OnlySelected
  <2> QED BY <1>0, <1>1, <1>4, <1>5, <2>1, <2>3, <2>4, NoneOut, Zenon
<1>7. CASE CountGroups
  <2>1. queue' = queue /\ ~Pending
      BY <1>4, <1>7, Zenon DEF CountGroups, Steady, BudgetInv
  <2>2. \A g \in Groups : Out(g)' = Out(g)
      BY <1>1, <2>1, Zenon DEF Out, Members
  <2>3. CASE rec' = IdleTick
    <3>1. rec'.pc = "idle"
        BY <2>3, Zenon DEF IdleTick
    <3>2. OnlySelected'
        BY <1>1, <1>5, <2>1, <3>1, Zenon DEF OnlySelected
    <3> QED BY <1>0, <1>1, <1>4, <1>5, <2>2, <3>1, <3>2, NoneOut, Zenon
  <2>4. CASE rec' # IdleTick
    <3> DEFINE open == {g \in Groups : NumToRender(g, rec.budget) > 0}
    <3>1. /\ rec.pc = "count"
          /\ rec' = [rec EXCEPT !.pc = "list", !.num = [g \in open |-> NumToRender(g, rec.budget)]]
        BY <1>7, <2>4, Zenon DEF CountGroups
    <3>2. /\ rec'.pc = "list" /\ rec'.budget = rec.budget
          /\ rec'.num = [g \in open |-> NumToRender(g, rec.budget)]
        BY <1>0, <3>1, Zenon DEF Types, BudgetInv
    <3>3. rec.budget = fleet.budget
        BY <1>5, <3>1, Zenon DEF OnlySelected
    <3>4. OnlySelected'
        BY <1>1, <1>5, <2>1, <3>2, <3>3, Zenon DEF OnlySelected
    <3>5. ASSUME NEW g \in DOMAIN rec'.num
          PROVE  /\ rec'.num[g] \in Nat
                 /\ Allows(fleet.budget, g, Cardinality(Out(g)) + rec'.num[g])
      <4>1. /\ g \in Groups /\ rec'.num[g] = NumToRender(g, fleet.budget)
            /\ NumToRender(g, fleet.budget) > 0
          BY <3>2, <3>3, <3>5, Zenon
      <4>2. Connected(g) = Members(g)
          BY <1>5, Zenon DEF Connected, Members, OnlySelected
      <4>3. Busy(g) = Out(g)
          BY <1>0, <2>1, <4>2, Zenon DEF Busy, Out, Pending, Types
      <4>4. /\ NumToRender(g, fleet.budget) \in Nat
            /\ Allows(fleet.budget, g, Cardinality(Busy(g)) + NumToRender(g, fleet.budget))
          BY <1>5, <4>1, <4>2, NumAllowed, Zenon
      <4> QED BY <4>1, <4>3, <4>4, Zenon
    <3>6. \A g \in Groups : Allows(fleet.budget, g, Cardinality(Out(g)))
        BY <1>5, Zenon DEF Counted
    <3>7. \A g \in DOMAIN rec'.num : g \in Groups
        BY <3>2, Zenon
    <3>8. Counted'
        BY <1>1, <2>2, <3>5, <3>6, <3>7, Zenon DEF Counted
    <3> QED BY <3>4, <3>8, Zenon
  <2> QED BY <2>3, <2>4, Zenon
<1>8. ASSUME NEW g \in Groups, SelectGroup(g) PROVE OnlySelected' /\ Counted'
  <2> DEFINE F == FirstN(ToRender(Members(g), rec.tv), rec.num[g])
  <2>1. /\ rec.pc = "list" /\ g \in DOMAIN rec.num /\ queue' = queue \cup Selected(F)
        /\ rec' = IF DOMAIN rec.num = {g} THEN IdleTick
                  ELSE [rec EXCEPT !.num = [h \in DOMAIN rec.num \ {g} |-> rec.num[h]]]
      BY <1>8, Zenon DEF SelectGroup
  <2>2. /\ rec.num[g] \in Nat /\ Allows(fleet.budget, g, Cardinality(Out(g)) + rec.num[g])
        /\ \A h \in DOMAIN rec.num : rec.num[h] \in Nat /\ h \in Groups
      BY <1>0, <1>5, <2>1, Zenon DEF Counted, Types
  <2>3. F \subseteq Members(g) /\ IsFiniteSet(F) /\ Cardinality(F) <= rec.num[g]
    <3>1. ToRender(Members(g), rec.tv) \in SUBSET Devices
        BY Zenon DEF ToRender, Members
    <3>2. IsFiniteSet(F) /\ Cardinality(F) <= rec.num[g]
        BY <2>2, <3>1, FirstAtMost, Zenon
    <3> QED BY <3>2, Zenon DEF FirstN, ToRender
  <2>4. \/ rec'.pc = "idle"
        \/ /\ rec'.pc = "list" /\ rec'.budget = rec.budget
           /\ rec'.num = [h \in DOMAIN rec.num \ {g} |-> rec.num[h]]
      BY <1>0, <2>1, Zenon DEF IdleTick, Types, BudgetInv
  <2> HIDE DEF F
  <2>5. OnlySelected'
    <3>1. \A e \in queue' : e[2] = "selected"
        BY <1>5, <2>1 DEF OnlySelected, Selected
    <3> QED BY <1>1, <1>5, <2>1, <2>4, <3>1, Zenon DEF OnlySelected
  <2>6. \A h \in Groups \ {g} : Out(h)' = Out(h)
    <3> SUFFICES ASSUME NEW h \in Groups \ {g}, NEW d \in Members(h)
                 PROVE  <<d, "selected">> \in queue' <=> <<d, "selected">> \in queue
        BY <1>1, Zenon DEF Out, Members
    <3>1. d \notin F
        BY <2>3, Zenon DEF Members
    <3> QED BY <2>1, <3>1, Zenon DEF Selected
  <2>7. Out(g)' \subseteq Out(g) \cup F
    <3>1. \A d \in Members(g) : <<d, "selected">> \in queue' => <<d, "selected">> \in queue \/ d \in F
        BY <2>1, Zenon DEF Selected
    <3> QED BY <1>1, <3>1, Zenon DEF Out, Members
  <2>8. /\ Cardinality(Out(g)) \in Nat /\ Cardinality(Out(g)') \in Nat
        /\ Cardinality(Out(g)') <= Cardinality(Out(g)) + rec.num[g]
    <3>1. Out(g) \in SUBSET Members(g)
        BY Zenon DEF Out
    <3>2. Out(g) \cup F \in SUBSET Members(g) /\ Out(g)' \in SUBSET (Out(g) \cup F)
        BY <2>3, <2>7, <3>1, Zenon
    <3>3. /\ Cardinality(Out(g)') \in Nat /\ Cardinality(Out(g)') <= Cardinality(Out(g) \cup F)
          /\ Cardinality(Out(g) \cup F) \in Nat
          /\ IsFiniteSet(Out(g)) /\ Cardinality(Out(g)) \in Nat /\ Cardinality(F) \in Nat
          /\ IsFiniteSet(Out(g) \cap F) /\ Cardinality(Out(g) \cap F) \in Nat
      <4>1. F \in SUBSET Members(g) /\ Out(g) \cap F \in SUBSET Members(g)
          BY <2>3, <3>1, Zenon
      <4> QED BY <3>1, <3>2, <4>1, GroupSizes, Zenon
    <3>4. Cardinality(Out(g) \cup F) = Cardinality(Out(g)) + Cardinality(F) - Cardinality(Out(g) \cap F)
        BY <2>3, <3>3, FS_Union, Zenon
    <3> QED BY <2>2, <2>3, <3>3, <3>4
  <2>9. Allows(fleet.budget, g, Cardinality(Out(g)'))
    <3>1. Cardinality(Out(g)) + rec.num[g] \in Nat
        BY <2>2, <2>8
    <3> QED BY <1>5, <2>2, <2>8, <3>1, AllowsFewer, Zenon
  <2>10. \A h \in Groups : Allows(fleet.budget, h, Cardinality(Out(h)'))
      BY <1>5, <2>6, <2>9, Zenon DEF Counted
  <2>11. ASSUME rec'.pc = "list", NEW h \in DOMAIN rec'.num
         PROVE  rec'.num[h] \in Nat /\ Allows(fleet.budget, h, Cardinality(Out(h)') + rec'.num[h])
    <3>1. h \in DOMAIN rec.num \ {g} /\ rec'.num[h] = rec.num[h]
        BY <2>4, <2>11, Zenon
    <3>2. h \in Groups \ {g} /\ Out(h)' = Out(h)
        BY <2>2, <2>6, <3>1, Zenon
    <3> QED BY <1>5, <2>1, <3>1, <3>2, Zenon DEF Counted
  <2>12. Counted'
      BY <1>1, <2>10, <2>11, Zenon DEF Counted
  <2> QED BY <2>5, <2>12, Zenon
<1> QED BY <1>6, <1>7, <1>8, Zenon DEF Tick

LEMMA BudgetAgent ==
    ASSUME RenderInv, BudgetInv, NEW d \in Devices,
           AgentUpdates(d) \/ AgentFails(d) \/ Disconnect(d) \/ Reconnect(d)
    PROVE  BudgetInv'
<1>0. Types
    BY Zenon DEF RenderInv
<1>1. /\ UNCHANGED <<fleet, dev, queue, roll, rnd, rec>>
      /\ {"edits", "losses", "overlap"} \subseteq DOMAIN env'
      /\ env'.edits = env.edits /\ env'.overlap = env.overlap
      /\ env'.losses \in Nat /\ env'.losses >= env.losses
    BY DEF AgentUpdates, AgentFails, Disconnect, Reconnect, BudgetInv
<1>2. Steady' => Steady
    BY <1>1 DEF Steady, BudgetInv
<1>3. ASSUME Steady, Steady' PROVE OnlySelected' /\ Counted'
  <2>0. OnlySelected /\ Counted
      BY <1>3, Zenon DEF BudgetInv
  <2>1. ~Disconnect(d) /\ ~Reconnect(d)
    <3>1. Disconnect(d) => env'.losses # 0
        BY DEF Disconnect, BudgetInv
    <3> QED BY <1>3, <2>0, <3>1, Zenon DEF Reconnect, OnlySelected, Steady
  <2>2. CASE AgentUpdates(d) \/ AgentFails(d)
    <3>1. \A e \in Devices : agent'[e].conn /\ (agent'[e].ver = agent[e].ver \/ agent'[e].ver = dev[e].ver)
        BY <1>0, <2>0, <2>2 DEF AgentUpdates, AgentFails, Types, OnlySelected
    <3>2. \A g \in Groups : Out(g)' \subseteq Out(g)
        BY <1>1, <3>1, Zenon DEF Out, Members
    <3>3. OnlySelected'
        BY <1>1, <2>0, <3>1, Zenon DEF OnlySelected
    <3> QED BY <1>0, <1>1, <1>3, <2>0, <3>2, <3>3, NoneOut, Zenon
  <2> QED BY <2>1, <2>2, Zenon
<1> QED BY <1>1, <1>2, <1>3, Zenon DEF BudgetInv

(* MaxUnavailable and MinAvailable hold in every group, for any fleet, grouping and      *)
(* budget, any number of workers and any failed or repeated renderings and ticks, as     *)
(* long as the counts are taken with no selection pending, the budget stays as it is     *)
(* and no device disconnects.                                                            *)
THEOREM BudgetHolds == Spec => []BudgetKept
<1>1. RenderInv /\ BudgetInv /\ [Next]_vars => BudgetInv'
  <2> SUFFICES ASSUME RenderInv, BudgetInv, [Next]_vars PROVE BudgetInv'
      BY Zenon
  <2>1. CASE NewTemplate \/ (\E b \in Budgets : EditBudget(b)) \/ Rollout
      BY <2>1, BudgetRollout, Zenon
  <2>2. ASSUME NEW w \in Workers, Render(w) \/ RenderError(w) \/ RenderDies(w) PROVE BudgetInv'
      BY <2>2, BudgetRender, Zenon
  <2>3. CASE Tick \/ TickFails
      BY <2>3, BudgetTick, Zenon
  <2>4. ASSUME NEW d \in Devices,
               AgentUpdates(d) \/ AgentFails(d) \/ Disconnect(d) \/ Reconnect(d)
        PROVE  BudgetInv'
      BY <2>4, BudgetAgent, Zenon
  <2>5. CASE UNCHANGED vars
      BY <2>5, Zenon DEF vars, BudgetInv, Steady, OnlySelected, Counted, Out, Members
  <2> QED BY <2>1, <2>2, <2>3, <2>4, <2>5, Zenon DEF Next
<1>2. RenderInv /\ BudgetInv => BudgetKept
  <2> SUFFICES ASSUME Types, BudgetInv, Steady, NEW g \in Groups PROVE WithinBudget(g)
      BY Zenon DEF RenderInv, BudgetKept, Steady
  <2>0. OnlySelected /\ Counted /\ fleet.budget \in Budgets \ {None}
      BY Zenon DEF BudgetInv, Steady, Types
  <2>1. Connected(g) = Members(g)
      BY <2>0, Zenon DEF Connected, Members, OnlySelected
  <2>2. Busy(g) \in SUBSET Out(g) /\ Out(g) \in SUBSET Members(g)
      BY <2>1, Zenon DEF Busy, Out
  <2>3. /\ Cardinality(Busy(g)) \in Nat /\ Cardinality(Out(g)) \in Nat
        /\ Cardinality(Busy(g)) <= Cardinality(Out(g))
      BY <2>2, GroupSizes, Zenon
  <2>4. Allows(fleet.budget, g, Cardinality(Busy(g)))
      BY <2>0, <2>3, AllowsFewer, Zenon DEF Counted
  <2> QED BY <2>1, <2>4, Zenon DEF Allows, WithinBudget
<1> QED BY <1>1, <1>2, InitBudget, RenderInvariant, PTL DEF Spec

=============================================================================
