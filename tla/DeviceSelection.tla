--------------------------- MODULE DeviceSelection ---------------------------
(***************************************************************************)
(* The staged rollout of a fleet's template: the periodic device-selection  *)
(* reconciler (internal/rollout/device_selection), the fleet_validate and    *)
(* fleet_rollout tasks of the worker (internal/tasks) and the queries of the *)
(* device and fleet stores they go through, for ONE fleet.                   *)
(*                                                                           *)
(* Every service call of the reconciler that writes is a step of its own, so *)
(* that the tasks, the devices and the user act between two calls and a call *)
(* may fail (or the process die) at each of them.  A template version is the *)
(* number of the template it was made from; 0 is "no annotation".  Rendering *)
(* and the agent are abstracted to what CompletionCounts tells apart         *)
(* (DeviceRender models the rendering itself).                               *)
(***************************************************************************)
EXTENDS Integers, Sequences, FiniteSets

CONSTANTS Devices,         \* the devices the fleet owns
          Policies,        \* rollout policies a user may set: NoPolicy or records
                           \*   [seq |-> sequence of batches, thr |-> percentage]
                           \* where thr = -1 is "not set"
          NoPolicy,        \* spec.rolloutPolicy.deviceSelection is absent
          FirstPolicy,     \* the policy in force at the start
          Workers,         \* worker goroutines running fleet_rollout tasks
          MaxGen,          \* templates the user writes, the first included
          MaxEdits,        \* policy edits of the user
          MaxTouches,      \* label edits of devices, which keep their owner
          MaxFailures,     \* updates a device reports as failed
          MaxLosses,       \* disconnections of devices
          FaultPoints,     \* steps at which a call may fail, once each
          MaxFaults        \* calls that fail

(* A batch: its devices, its limit, its threshold or -1 for the policy's own. *)
Batches == [sel : SUBSET Devices, kind : {"none", "count", "percent"}, n : Nat, thr : -1..100]

ASSUME PoliciesAssumption ==
    /\ FirstPolicy \in Policies
    /\ \A p \in Policies \ {NoPolicy} : p.thr \in -1..100 /\ p.seq \in Seq(Batches)

ASSUME SizesAssumption == IsFiniteSet(Devices) /\ MaxGen \in Nat \ {0}

(* Last and ToSet of SequencesExt, whose many definitions slow down every proof step. *)
Last(s) == s[Len(s)]
Entries(s) == {s[i] : i \in DOMAIN s}

VARIABLES spec,    \* the fleet's spec: gen of the template, rollout policy
          rows,    \* template version rows, in creation order
          ann,     \* the fleet's annotations, and its RolloutInProgress condition
          dev,     \* the devices: annotations and reported status
          tasks,   \* events on the queue: "validate", "rollout", or a device
          val,     \* the fleet_validate task being run
          wrk,     \* the fleet_rollout tasks being run, by worker
          rec,     \* the reconciler
          env      \* what the environment has used up, and where calls failed

vars == <<spec, rows, ann, dev, tasks, val, wrk, rec, env>>

NoBatch == -2       \* no batchNumber annotation
NoReport == -1      \* no lastBatchCompletionReport annotation
--------------------------------------------------------------------------------
(* Devices.  phase is what the last status report says of the rendered version: *)
(* "same" it runs it; "old" it reported before it and not in error; "oldErr" it *)
(* reported before it, and in error; "updating" and "failed" are about it.      *)

Phases == {"same", "old", "oldErr", "updating", "failed"}
Same(d) == dev[d].phase = "same"
InError(d) == dev[d].phase \in {"oldErr", "failed"}

(* The rendering of a device's current spec: the rendered version moves on, the *)
(* rendered template version becomes the template version, the clock of the     *)
(* update timeout restarts; the reported status stays.                          *)
Render(d) ==
    /\ dev[d].rtv # dev[d].tv
    /\ dev' = [dev EXCEPT ![d].rtv = dev[d].tv, ![d].late = FALSE,
                          ![d].phase = IF InError(d) THEN "oldErr" ELSE "old"]
    /\ UNCHANGED <<spec, rows, ann, tasks, val, wrk, rec, env>>

(* The agent fetches the rendered version and reports that it updates. *)
AgentStart(d) ==
    /\ dev[d].conn /\ dev[d].phase \in {"old", "oldErr"}
    /\ dev' = [dev EXCEPT ![d].phase = "updating"]
    /\ UNCHANGED <<spec, rows, ann, tasks, val, wrk, rec, env>>

AgentDone(d) ==
    /\ dev[d].conn /\ dev[d].phase = "updating"
    /\ dev' = [dev EXCEPT ![d].phase = "same"]
    /\ UNCHANGED <<spec, rows, ann, tasks, val, wrk, rec, env>>

AgentFails(d) ==
    /\ dev[d].conn /\ dev[d].phase = "updating" /\ env.failures < MaxFailures
    /\ dev' = [dev EXCEPT ![d].phase = "failed"]
    /\ env' = [env EXCEPT !.failures = @ + 1]
    /\ UNCHANGED <<spec, rows, ann, tasks, val, wrk, rec>>

(* No report for long enough: status.summary.status becomes Unknown. *)
Disconnect(d) ==
    /\ dev[d].conn /\ env.losses < MaxLosses
    /\ dev' = [dev EXCEPT ![d].conn = FALSE]
    /\ env' = [env EXCEPT !.losses = @ + 1]
    /\ UNCHANGED <<spec, rows, ann, tasks, val, wrk, rec>>

Reconnect(d) ==
    /\ ~dev[d].conn
    /\ dev' = [dev EXCEPT ![d].conn = TRUE]
    /\ UNCHANGED <<spec, rows, ann, tasks, val, wrk, rec, env>>

(* render_timestamp is older than the update timeout. *)
UpdateTimesOut(d) ==
    /\ ~dev[d].late /\ ~Same(d)
    /\ dev' = [dev EXCEPT ![d].late = TRUE]
    /\ UNCHANGED <<spec, rows, ann, tasks, val, wrk, rec, env>>

--------------------------------------------------------------------------------
(* The user edits the fleet; the update event of a template makes a validate task. *)

EditTemplate ==
    /\ spec.gen < MaxGen
    /\ spec' = [spec EXCEPT !.gen = @ + 1]
    /\ tasks' = tasks \cup {"validate"}
    /\ UNCHANGED <<rows, ann, dev, val, wrk, rec, env>>

EditPolicy(p) ==
    /\ env.edits < MaxEdits /\ p # spec.policy
    /\ spec' = [spec EXCEPT !.policy = p]
    /\ env' = [env EXCEPT !.edits = @ + 1]
    /\ UNCHANGED <<rows, ann, dev, tasks, val, wrk, rec>>

EditLabels(d) ==
    /\ env.touches < MaxTouches
    /\ tasks' = tasks \cup {d}
    /\ env' = [env EXCEPT !.touches = @ + 1]
    /\ UNCHANGED <<spec, rows, ann, dev, val, wrk, rec>>

--------------------------------------------------------------------------------
(* fleet_validate: CreateNewTemplateVersionIfFleetValid, for a valid template. *)

NoValidate == [pc |-> "idle", gen |-> 0, immediate |-> FALSE]

(* A faulty variant: the version is named after the generation to come. *)
ValidateReadNext ==
    /\ val.pc = "idle" /\ "validate" \in tasks
    /\ tasks' = tasks \ {"validate"}
    /\ val' = [pc |-> "create", gen |-> spec.gen + 1, immediate |-> spec.policy = NoPolicy]
    /\ UNCHANGED <<spec, rows, ann, dev, wrk, rec, env>>

(* GetFleet: the name of the version and the immediate flag come from this read. *)
ValidateRead ==
    /\ val.pc = "idle" /\ "validate" \in tasks
    /\ tasks' = tasks \ {"validate"}
    /\ val' = [pc |-> "create", gen |-> spec.gen, immediate |-> spec.policy = NoPolicy]
    /\ UNCHANGED <<spec, rows, ann, dev, wrk, rec, env>>

(* CreateTemplateVersion; the service emits FleetRolloutStarted, which makes a *)
(* rollout task when immediate.  A version of that name ends the task.         *)
ValidateCreate ==
    /\ val.pc = "create"
    /\ IF val.gen \in Entries(rows)
       THEN val' = NoValidate /\ UNCHANGED <<rows, tasks>>
       ELSE /\ rows' = Append(rows, val.gen)
            /\ tasks' = tasks \cup (IF val.immediate THEN {"rollout"} ELSE {})
            /\ val' = [val EXCEPT !.pc = "annotate"]
    /\ UNCHANGED <<spec, ann, dev, wrk, rec, env>>

(* UpdateFleetAnnotations with the new version's name, and the status of the fleet. *)
ValidateAnnotate ==
    /\ val.pc = "annotate"
    /\ ann' = [ann EXCEPT !.tv = val.gen]
    /\ val' = NoValidate
    /\ UNCHANGED <<spec, rows, dev, tasks, wrk, rec, env>>

(* The process dies between two calls: the event is delivered again. *)
ValidateDies ==
    /\ val.pc \in FaultPoints \ env.hit /\ Cardinality(env.hit) < MaxFaults
    /\ tasks' = tasks \cup {"validate"}
    /\ val' = NoValidate
    /\ env' = [env EXCEPT !.hit = @ \cup {val.pc}]
    /\ UNCHANGED <<spec, rows, ann, dev, wrk, rec>>

--------------------------------------------------------------------------------
(* fleet_rollout.  The task reads all it needs when it runs: which batch or     *)
(* version its event was about plays no part, so equal events are one task.     *)

NoRollout == [pc |-> "idle", task |-> "rollout", all |-> FALSE, tv |-> 0, page |-> {}]

(* RolloutFleet: GetFleet.  Without device selection every device takes part. *)
RolloutGetFleet(w) ==
    /\ wrk[w].pc = "idle" /\ "rollout" \in tasks
    /\ tasks' = tasks \ {"rollout"}
    /\ wrk' = [wrk EXCEPT ![w] = [NoRollout EXCEPT !.pc = "latest", !.all = spec.policy = NoPolicy]]
    /\ UNCHANGED <<spec, rows, ann, dev, val, rec, env>>

(* GetLatestTemplateVersion: the row created last, whatever the annotation says. *)
RolloutGetLatest(w) ==
    /\ wrk[w].pc = "latest"
    /\ wrk' = [wrk EXCEPT ![w].pc = "list", ![w].tv = Last(rows)]
    /\ UNCHANGED <<spec, rows, ann, dev, tasks, val, rec, env>>

(* ListDevices: not at that version and, with device selection, marked. *)
RolloutList(w) ==
    /\ wrk[w].pc = "list"
    /\ LET page == {d \in Devices : dev[d].tv # wrk[w].tv /\ (wrk[w].all \/ dev[d].sel # 0)}
       IN wrk' = [wrk EXCEPT ![w] = IF page = {} THEN NoRollout
                                    ELSE [@ EXCEPT !.pc = "write", !.page = page]]
    /\ UNCHANGED <<spec, rows, ann, dev, tasks, val, rec, env>>

(* updateDeviceToFleetTemplate: the spec and the template version of one device. *)
RolloutWrite(w) ==
    /\ wrk[w].pc = "write"
    /\ \E d \in wrk[w].page :
         /\ dev' = [dev EXCEPT ![d].tv = wrk[w].tv]
         /\ wrk' = [wrk EXCEPT ![w] = IF @.page = {d} THEN NoRollout
                                      ELSE [@ EXCEPT !.page = wrk[w].page \ {d}]]
    /\ UNCHANGED <<spec, rows, ann, tasks, val, rec, env>>

(* RolloutDevice: the device and the latest version, then the fleet. *)
RolloutDeviceRead(w, d) ==
    /\ wrk[w].pc = "idle" /\ d \in tasks
    /\ tasks' = tasks \ {d}
    /\ wrk' = [wrk EXCEPT ![w] = [NoRollout EXCEPT !.pc = "stage", !.task = d,
                                                     !.tv = Last(rows), !.page = {d}]]
    /\ UNCHANGED <<spec, rows, ann, dev, val, rec, env>>

(* rollout.ProgressStage: a configured batch of the sequence is in progress. *)
ConfiguredBatch ==
    /\ spec.policy # NoPolicy
    /\ ann.batch # NoBatch
    /\ ann.batch < Len(spec.policy.seq)

RolloutDeviceStage(w) ==
    /\ wrk[w].pc = "stage"
    /\ wrk' = [wrk EXCEPT ![w] = IF ConfiguredBatch THEN NoRollout ELSE [@ EXCEPT !.pc = "write"]]
    /\ UNCHANGED <<spec, rows, ann, dev, tasks, val, rec, env>>

(* A call fails, or the worker dies, with some devices written: the task is retried. *)
RolloutFails(w) ==
    /\ wrk[w].pc \in FaultPoints \ env.hit /\ Cardinality(env.hit) < MaxFaults
    /\ tasks' = tasks \cup {wrk[w].task}
    /\ wrk' = [wrk EXCEPT ![w] = NoRollout]
    /\ env' = [env EXCEPT !.hit = @ \cup {wrk[w].pc}]
    /\ UNCHANGED <<spec, rows, ann, dev, val, rec>>

--------------------------------------------------------------------------------
(* The batches: what the selector computes from its snapshot and the store. *)

SeqLen == Len(rec.policy.seq)
CurrentBatch == IF ann.batch = NoBatch THEN -1 ELSE ann.batch
IsBatch(b) == b \in 0..(SeqLen - 1)
Marked == {d \in Devices : dev[d].sel # 0}

(* getSuccessThreshold: of the batch to be approved, else of the policy read just *)
(* now, else DefaultSuccessThreshold.                                             *)
Threshold(seq, b) ==
    IF b + 1 \in DOMAIN seq /\ seq[b + 1].thr # -1 THEN seq[b + 1].thr
    ELSE IF spec.policy.thr # -1 THEN spec.policy.thr
    ELSE 90

MayApproveAutomatically(b) ==
    \/ b = -1
    \/ ann.method /\ (ann.report = NoReport \/ ann.report >= Threshold(rec.policy.seq, b))

(* A faulty variant: the version the device runs is not looked at. *)
CompleteAnyVersion(d, v) == Same(d) \/ InError(d) \/ dev[d].late

(* A group of CompletionCounts is successful, or complete, for version v. *)
Successful(d, v) == dev[d].rtv = v /\ Same(d)
Complete(d, v) == dev[d].rtv = v /\ (Same(d) \/ InError(d) \/ dev[d].late)

SuccessPercentage(v) ==
    (Cardinality({d \in Marked : Successful(d, v)}) * 100) \div Cardinality(Marked)

(* calculateLimit: a count, or the rounded percentage of the selected population *)
(* less the devices of it that are at the version already.                       *)
HasLimit(batch) == batch.kind = "count" \/ (batch.kind = "percent" /\ batch.n # 100)
Limit(batch, v) ==
    IF batch.kind = "count" THEN batch.n
    ELSE (2 * Cardinality(batch.sel) * batch.n + 100) \div 200
           - Cardinality({d \in batch.sel : dev[d].tv = v})

(* markBatchSelection: connected devices of the batch that are not at the version, *)
(* up to the limit (which of them is left to the database).                        *)
BatchSelections(batch, v) ==
    LET ready == {d \in batch.sel : dev[d].tv # v /\ dev[d].conn}
        limit == Limit(batch, v)
    IN IF ~HasLimit(batch) THEN {ready}
       ELSE IF limit <= 0 THEN {{}}
       ELSE IF Cardinality(ready) <= limit THEN {ready}
       ELSE {s \in SUBSET ready : Cardinality(s) = limit}

(* A faulty variant: the last batch, too, takes connected devices only. *)
SelectionsConnected(b, v) ==
    IF IsBatch(b) THEN BatchSelections(rec.policy.seq[b + 1], v)
    ELSE IF b = SeqLen THEN {{d \in Devices : dev[d].tv # v /\ dev[d].conn}}
    ELSE {{}}

(* What Advance marks for batch b: a configured batch, or all remaining devices. *)
Selections(b, v) ==
    IF IsBatch(b) THEN BatchSelections(rec.policy.seq[b + 1], v)
    ELSE IF b = SeqLen THEN {{d \in Devices : dev[d].tv # v}}
    ELSE {{}}

Mark(s, v) == [d \in Devices |-> IF d \in s THEN [dev[d] EXCEPT !.sel = v] ELSE dev[d]]
Unmark == [d \in Devices |-> [dev[d] EXCEPT !.sel = 0]]

--------------------------------------------------------------------------------
(* The reconciler, one step per service call that writes. *)

IdlePass == [pc |-> "idle", policy |-> NoPolicy, tv |-> 0, numbered |-> FALSE,
             method |-> FALSE, batch |-> NoBatch]

(* A faulty variant: a device not yet rendered for the fleet's version is no reason. *)
ListedUnsettled == \E d \in Devices : dev[d].sel # 0 \/ ~Same(d)

(* ListRolloutDeviceSelection. *)
Listed == \E d \in Devices : dev[d].sel # 0 \/ dev[d].rtv # ann.tv \/ ~Same(d)

(* cleanupRollout: some annotation of a rollout is there. *)
RolloutActive ==
    \/ ann.dep # 0 \/ ann.digest # NoPolicy \/ ann.batch # NoBatch
    \/ ann.approved \/ ann.method \/ ann.report # NoReport

(* A faulty variant: an edited batch sequence does not start the rollout again. *)
NewRolloutOfVersion == ann.dep # ann.tv

(* IsRolloutNew, IsDefinitionUpdated. *)
NewRollout == ann.dep # ann.tv \/ spec.policy.seq # ann.digest

(* Reconcile lists the fleet; reconcileFleet decides on that snapshot. *)
StartPass ==
    /\ rec.pc = "idle" /\ Listed
    /\ rec' = IF spec.policy = NoPolicy /\ ~RolloutActive THEN IdlePass
              ELSE [pc |-> IF spec.policy = NoPolicy THEN "cleanUnmark"
                           ELSE IF NewRollout THEN "onNew" ELSE "select",
                    policy |-> spec.policy, tv |-> ann.tv, numbered |-> ann.batch # NoBatch,
                    method |-> ann.method, batch |-> NoBatch]
    /\ UNCHANGED <<spec, rows, ann, dev, tasks, val, wrk, env>>

Goto(pc) == rec' = IF pc = "idle" THEN IdlePass ELSE [rec EXCEPT !.pc = pc]

(* cleanupRollout, and the rollout of the whole fleet it leads to. *)
CleanUnmark ==
    /\ rec.pc = "cleanUnmark" /\ Goto("cleanDelete")
    /\ dev' = Unmark
    /\ UNCHANGED <<spec, rows, ann, tasks, val, wrk, env>>

CleanDelete ==
    /\ rec.pc = "cleanDelete" /\ Goto("cleanEmit")
    /\ ann' = [ann EXCEPT !.dep = 0, !.digest = NoPolicy, !.batch = NoBatch,
                          !.approved = FALSE, !.method = FALSE, !.report = NoReport]
    /\ UNCHANGED <<spec, rows, dev, tasks, val, wrk, env>>

CleanEmit ==
    /\ rec.pc = "cleanEmit" /\ Goto("idle")
    /\ tasks' = tasks \cup {"rollout"}
    /\ UNCHANGED <<spec, rows, ann, dev, val, wrk, env>>

(* A faulty variant: the selection of the rollout before stays. *)
ResetUnmarkNothing ==
    /\ rec.pc = "resetUnmark" /\ Goto("resetReport")
    /\ UNCHANGED <<spec, rows, ann, dev, tasks, val, wrk, env>>

(* OnNewRollout, then the three calls of Reset. *)
OnNewRollout ==
    /\ rec.pc = "onNew" /\ Goto("resetUnmark")
    /\ ann' = [ann EXCEPT !.dep = rec.tv, !.digest = rec.policy.seq]
    /\ UNCHANGED <<spec, rows, dev, tasks, val, wrk, env>>

ResetUnmark ==
    /\ rec.pc = "resetUnmark" /\ Goto("resetReport")
    /\ dev' = Unmark
    /\ UNCHANGED <<spec, rows, ann, tasks, val, wrk, env>>

ResetReport ==
    /\ rec.pc = "resetReport" /\ Goto("resetBatch")
    /\ ann' = [ann EXCEPT !.approved = FALSE, !.report = NoReport,
                          !.method = @ \/ ~rec.method]
    /\ UNCHANGED <<spec, rows, dev, tasks, val, wrk, env>>

ResetBatch ==
    /\ rec.pc = "resetBatch" /\ Goto("select")
    /\ ann' = [ann EXCEPT !.batch = -1]
    /\ UNCHANGED <<spec, rows, dev, tasks, val, wrk, env>>

(* CurrentSelection, IsApproved and MayApproveAutomatically: a batch number out   *)
(* of bounds ends the pass, as does the threshold of a policy that is gone.       *)
OutOfBounds == CurrentBatch > SeqLen + 1
PolicyGone == ~ann.approved /\ CurrentBatch # -1 /\ ann.method /\ spec.policy = NoPolicy

SelectBatch ==
    /\ rec.pc = "select"
    /\ IF OutOfBounds \/ PolicyGone THEN rec' = IdlePass
       ELSE rec' = [rec EXCEPT !.batch = CurrentBatch,
                      !.pc = IF ann.approved THEN "dispatch"
                             ELSE IF MayApproveAutomatically(CurrentBatch) THEN "approve"
                             ELSE "suspend"]
    /\ UNCHANGED <<spec, rows, ann, dev, tasks, val, wrk, env>>

Approve ==
    /\ rec.pc = "approve" /\ Goto("dispatch")
    /\ ann' = [ann EXCEPT !.approved = TRUE]
    /\ UNCHANGED <<spec, rows, dev, tasks, val, wrk, env>>

OnSuspended ==
    /\ rec.pc = "suspend" /\ Goto("idle")
    /\ ann' = [ann EXCEPT !.cond = IF ann.method THEN "suspended" ELSE "waiting"]
    /\ UNCHANGED <<spec, rows, dev, tasks, val, wrk, env>>

IsRolledOut == \A d \in Marked : dev[d].tv = rec.tv

(* The BatchDispatched event is made only when the snapshot had a batch number. *)
BatchDispatched == IF rec.numbered THEN {"rollout"} ELSE {}

Dispatch ==
    /\ rec.pc = "dispatch" /\ Goto("complete")
    /\ IF IsRolledOut THEN UNCHANGED <<ann, tasks>>
       ELSE /\ ann' = [ann EXCEPT !.cond = "active"]
            /\ tasks' = tasks \cup BatchDispatched
    /\ UNCHANGED <<spec, rows, dev, val, wrk, env>>

IsComplete ==
    /\ rec.pc = "complete"
    /\ Goto(IF \A d \in Marked : Complete(d, rec.tv) THEN "report" ELSE "idle")
    /\ UNCHANGED <<spec, rows, ann, dev, tasks, val, wrk, env>>

HasMoreSelections == CurrentBatch <= SeqLen

(* SetCompletionReport counts again; an empty batch leaves the last report alone. *)
SetCompletionReport ==
    /\ rec.pc = "report"
    /\ ann' = IF Marked = {} THEN ann ELSE [ann EXCEPT !.report = SuccessPercentage(rec.tv)]
    /\ Goto(IF HasMoreSelections THEN "advUnmark" ELSE "finish")
    /\ UNCHANGED <<spec, rows, dev, tasks, val, wrk, env>>

OnFinish ==
    /\ rec.pc = "finish" /\ Goto("idle")
    /\ ann' = [ann EXCEPT !.cond = "inactive"]
    /\ UNCHANGED <<spec, rows, dev, tasks, val, wrk, env>>

(* The four calls of Advance. *)
AdvanceUnmark ==
    /\ rec.pc = "advUnmark" /\ Goto("advApproval")
    /\ dev' = Unmark
    /\ UNCHANGED <<spec, rows, ann, tasks, val, wrk, env>>

AdvanceApproval ==
    /\ rec.pc = "advApproval" /\ Goto("advBatch")
    /\ ann' = [ann EXCEPT !.approved = FALSE]
    /\ UNCHANGED <<spec, rows, dev, tasks, val, wrk, env>>

AdvanceBatch ==
    /\ rec.pc = "advBatch" /\ Goto("advMark")
    /\ ann' = [ann EXCEPT !.batch = rec.batch + 1]
    /\ UNCHANGED <<spec, rows, dev, tasks, val, wrk, env>>

AdvanceMark ==
    /\ rec.pc = "advMark" /\ Goto("select")
    /\ \E s \in Selections(rec.batch + 1, rec.tv) : dev' = Mark(s, rec.tv)
    /\ UNCHANGED <<spec, rows, ann, tasks, val, wrk, env>>

(* The call at this point fails, or the process dies: the pass ends. *)
PassFails ==
    /\ rec.pc \in FaultPoints \ env.hit /\ Cardinality(env.hit) < MaxFaults
    /\ Goto("idle")
    /\ env' = [env EXCEPT !.hit = @ \cup {rec.pc}]
    /\ UNCHANGED <<spec, rows, ann, dev, tasks, val, wrk>>

--------------------------------------------------------------------------------
(* A fleet at its first version: rolled out at once before it had a policy, or in    *)
(* the batches of the policy, to the end.                                            *)
RolledOutAtOnce ==
    [tv |-> 1, cond |-> "none", dep |-> 0, digest |-> NoPolicy,
     batch |-> NoBatch, approved |-> FALSE, method |-> FALSE, report |-> NoReport]
RolledOutInBatches ==
    [tv |-> 1, cond |-> "inactive", dep |-> 1, digest |-> FirstPolicy.seq,
     batch |-> Len(FirstPolicy.seq) + 1, approved |-> TRUE, method |-> TRUE, report |-> 100]

Init ==
    /\ spec = [gen |-> 1, policy |-> FirstPolicy]
    /\ rows = <<1>>
    /\ ann \in {RolledOutAtOnce} \cup (IF FirstPolicy = NoPolicy THEN {} ELSE {RolledOutInBatches})
    /\ dev = [d \in Devices |-> [tv |-> 1, rtv |-> 1, sel |-> 0, phase |-> "same",
                                 conn |-> TRUE, late |-> FALSE]]
    /\ tasks = {}
    /\ val = NoValidate
    /\ wrk = [w \in Workers |-> NoRollout]
    /\ rec = IdlePass
    /\ env = [edits |-> 0, touches |-> 0, failures |-> 0, losses |-> 0, hit |-> {}]

Validate == ValidateRead \/ ValidateCreate \/ ValidateAnnotate
Rollout(w) ==
    \/ RolloutGetFleet(w) \/ RolloutGetLatest(w) \/ RolloutList(w) \/ RolloutWrite(w)
    \/ (\E d \in Devices : RolloutDeviceRead(w, d)) \/ RolloutDeviceStage(w)
Reconcile ==
    \/ StartPass \/ CleanUnmark \/ CleanDelete \/ CleanEmit
    \/ OnNewRollout \/ ResetUnmark \/ ResetReport \/ ResetBatch
    \/ SelectBatch \/ Approve \/ OnSuspended \/ Dispatch \/ IsComplete
    \/ SetCompletionReport \/ OnFinish
    \/ AdvanceUnmark \/ AdvanceApproval \/ AdvanceBatch \/ AdvanceMark
Agent(d) == AgentStart(d) \/ AgentDone(d) \/ AgentFails(d)

Next ==
    \/ Validate \/ ValidateDies \/ Reconcile \/ PassFails
    \/ \E w \in Workers : Rollout(w) \/ RolloutFails(w)
    \/ EditTemplate \/ \E p \in Policies : EditPolicy(p)
    \/ \E d \in Devices : \/ Render(d) \/ Agent(d) \/ UpdateTimesOut(d)
                          \/ Disconnect(d) \/ Reconnect(d) \/ EditLabels(d)

(* The worker and the periodic checker keep running, a rendering is retried until *)
(* it is written, a connected agent updates, and time passes.                     *)
Fairness ==
    /\ WF_vars(Validate) /\ WF_vars(Reconcile)
    /\ \A w \in Workers : WF_vars(Rollout(w))
    /\ \A d \in Devices : WF_vars(Render(d)) /\ WF_vars(Agent(d)) /\ WF_vars(UpdateTimesOut(d))

Spec == Init /\ [][Next]_vars
FairSpec == Spec /\ Fairness

--------------------------------------------------------------------------------
(* Properties. *)

RecSteps == {"idle", "cleanUnmark", "cleanDelete", "cleanEmit", "onNew", "resetUnmark",
             "resetReport", "resetBatch", "select", "approve", "suspend", "dispatch",
             "complete", "report", "finish", "advUnmark", "advApproval", "advBatch", "advMark"}

(* The shape of the fleet, of its devices and of the tasks over them. *)
TypeOK ==
    /\ spec.gen \in 1..MaxGen /\ spec.policy \in Policies
    /\ Entries(rows) \subseteq 1..MaxGen
    /\ ann.tv \in 1..MaxGen /\ ann.dep \in 0..MaxGen
    /\ ann.report \in -1..100 /\ ann.batch \in Int
    /\ ann.cond \in {"none", "active", "suspended", "waiting", "inactive"}
    /\ dev \in [Devices -> [tv : 1..MaxGen, rtv : 1..MaxGen, sel : 0..MaxGen,
                             phase : Phases, conn : BOOLEAN, late : BOOLEAN]]
    /\ tasks \subseteq {"validate", "rollout"} \cup Devices
    /\ val.pc \in {"idle", "create", "annotate"}
    /\ \A w \in Workers : wrk[w].pc \in {"idle", "latest", "list", "write", "stage"}
    /\ rec.pc \in RecSteps

(* The calls after which a failure is not made good by the next pass: once           *)
(* OnNewRollout is stored the next pass no longer sees a new rollout, and once the   *)
(* batch number is stored the next pass no longer marks the batch.  Once the marks   *)
(* are removed together with the policy, the same policy set again finds the batch    *)
(* number of a selection that is gone, unless the annotations were deleted as well.   *)
ResetPoints == {"resetUnmark", "resetReport", "resetBatch"}
Unsafe == ResetPoints \cup {"advMark", "cleanDelete"}

(* The marked devices belong to the batch in progress: they carry the version being   *)
(* deployed, and there is a batch.  A new rollout, be it of a new version or of an     *)
(* edited sequence, starts from a clean selection unless a call of Reset failed.       *)
MarksOfThisRollout ==
    (env.hit \cap ResetPoints = {} /\ rec.pc # "resetUnmark") =>
        \A d \in Marked : dev[d].sel = ann.dep /\ ann.batch >= 0

(* The stored batch number is one the policy in force has, whenever the reconciler    *)
(* goes by it: currentSelection never answers "batch number out of bounds", however   *)
(* the user shortens the sequence, unless a call of Reset failed.                     *)
BatchInBounds ==
    (rec.pc = "select" /\ env.hit \cap ResetPoints = {}) => ~OutOfBounds

(* When a rollout is reported as finished (OnFinish) every device of the fleet has    *)
(* been given its version or a later one: the implicit last batch takes whatever the  *)
(* configured ones left, failures elsewhere included.                                 *)
FinishCoversFleet ==
    (rec.pc = "finish" /\ env.hit \cap Unsafe = {}) =>
        \A d \in Devices : dev[d].tv >= rec.tv

(* Advance leaves a batch only when each of its devices runs the version, has had its *)
(* timeout, or has been given a later version meanwhile (as long as no update failed: *)
(* an error reported for an earlier version counts as well).                          *)
BatchLeftComplete ==
    [][(rec.pc = "advUnmark" /\ rec'.pc = "advApproval" /\ env.failures = 0) =>
          \A d \in Marked : \/ dev[d].rtv = rec.tv /\ (Same(d) \/ dev[d].late)
                            \/ dev[d].tv > rec.tv]_vars

(* The newest template reaches every device, or the rollout is suspended below the    *)
(* success threshold: whatever the order of passes, tasks, renderings and reports,    *)
(* and although a call may fail anywhere but at the unsafe points.                    *)
Delivered == \A d \in Devices : dev[d].tv = spec.gen /\ dev[d].rtv = spec.gen
Suspended == /\ ann.cond = "suspended" /\ ann.dep = spec.gen
             /\ ~ann.approved /\ ann.batch >= 0 /\ ann.report # NoReport
RolloutSettles == <>(env.hit \cap Unsafe # {}) \/ <>[](Delivered \/ Suspended)

(* The fleet_validate task can be processed again without harm ("exits without error.  *)
(* This is safe"): once no validation is left to do, the fleet names the version of   *)
(* its own template, which is what the reconciler rolls out.                          *)
ValidationRepeatable == ("validate" \notin tasks /\ val = NoValidate) => ann.tv = spec.gen

(* "After each batch completes, the rollout proceeds to the next batch, but only if   *)
(* the success ratio of the previous batch meets or exceeds the specified success     *)
(* threshold": no marked device is given the version of the rollout while its batch   *)
(* is not approved and the report of the batch before is below the threshold.         *)
BelowThreshold ==
    /\ ~ann.approved /\ ann.report # NoReport
    /\ ann.report < Threshold(spec.policy.seq, ann.batch)
OnlyApprovedBatches ==
    [][\A d \in Devices :
          (dev'[d].tv # dev[d].tv /\ dev[d].sel # 0 /\ dev[d].sel = ann.dep) => ~BelowThreshold]_vars

================================================================================
