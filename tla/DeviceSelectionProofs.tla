----------------------- MODULE DeviceSelectionProofs -----------------------
(***************************************************************************)
(* The rollout of a template in batches, for any fleet, any policies and    *)
(* any faults: the stored state belongs to the rollout in progress          *)
(* (MarksOfThisRollout, BatchInBounds) and every variable has its type.     *)
(* With one worker, a rollout that is finished covers the fleet             *)
(* (FinishCoversFleet) and a batch is left only when it is complete         *)
(* (BatchLeftComplete).                                                     *)
(***************************************************************************)
EXTENDS DeviceSelection, FiniteSetTheorems, TLAPS

(* The steps of a pass once the rollout is known to be the deployed one, and those    *)
(* of Reset before.                                                                   *)
LoopSteps == {"select", "approve", "suspend", "dispatch", "complete", "report", "finish",
              "advUnmark", "advApproval", "advBatch", "advMark"}
Deployed == rec.pc \in LoopSteps \cup ResetPoints
ResetDone == env.hit \cap ResetPoints = {}

(* What the proof needs of the shape of the state. *)
Shape ==
    /\ spec.policy \in Policies /\ "policy" \in DOMAIN spec
    /\ {"tv", "dep", "digest", "batch"} \subseteq DOMAIN ann
    /\ DOMAIN dev = Devices
    /\ \A d \in Devices : "sel" \in DOMAIN dev[d]
    /\ {"pc", "policy", "tv", "batch"} \subseteq DOMAIN rec
    /\ "hit" \in DOMAIN env
    /\ ann.batch \in Int /\ (ann.batch = NoBatch \/ ann.batch >= -1)

(* The pass and the annotations agree: what is deployed is what the pass works on, the *)
(* batch it works on is the stored one until the next number is stored.                *)
PassInv ==
    /\ (Deployed \/ rec.pc = "onNew") => rec.policy \in Policies \ {NoPolicy}
    /\ Deployed => (ann.dep = rec.tv /\ ann.digest = rec.policy.seq)
    /\ rec.pc \in LoopSteps \ {"select", "advMark"} => rec.batch = CurrentBatch
    /\ rec.pc = "advMark" => ann.batch = rec.batch + 1 /\ ann.batch >= 0
    /\ rec.pc \in {"advUnmark", "advApproval", "advBatch"} => rec.batch <= SeqLen

(* The marks and the batch number belong to the deployed rollout. *)
StoreInv ==
    /\ rec.pc \in {"resetReport", "resetBatch", "cleanDelete"} => Marked = {}
    /\ (ResetDone /\ rec.pc # "resetUnmark") =>
          \A d \in Marked : dev[d].sel = ann.dep /\ ann.batch >= 0
    /\ (ResetDone /\ rec.pc \notin ResetPoints) =>
          \/ ann.batch = NoBatch
          \/ ann.digest \in Seq(Batches) /\ ann.batch <= Len(ann.digest) + 1

RolloutInv == Shape /\ PassInv /\ StoreInv

(* A step of anything but the reconciler. *)
Elsewhere ==
    /\ rec' = rec
    /\ spec'.policy \in Policies /\ "policy" \in DOMAIN spec'
    /\ DOMAIN ann' = DOMAIN ann
    /\ ann'.dep = ann.dep /\ ann'.digest = ann.digest /\ ann'.batch = ann.batch
    /\ DOMAIN dev' = Devices
    /\ \A d \in Devices : "sel" \in DOMAIN dev'[d] /\ dev'[d].sel = dev[d].sel
    /\ "hit" \in DOMAIN env' /\ env.hit \subseteq env'.hit

(* Such a step keeps the invariant. *)
LEMMA ElsewhereKeeps == RolloutInv /\ Elsewhere => RolloutInv'
<1> SUFFICES ASSUME RolloutInv, Elsewhere PROVE RolloutInv'
    BY Zenon
<1>1. Marked' = Marked /\ (ResetDone' => ResetDone)
    BY Zenon DEF Elsewhere, Marked, ResetDone
<1>2. CurrentBatch' = CurrentBatch /\ SeqLen' = SeqLen /\ Deployed' = Deployed
    BY Zenon DEF Elsewhere, CurrentBatch, SeqLen, Deployed
<1>3. Shape'
    BY Zenon DEF RolloutInv, Shape, Elsewhere
<1>4. PassInv'
    BY <1>2, Zenon DEF RolloutInv, PassInv, Elsewhere
<1>5. StoreInv'
    BY <1>1, Zenon DEF RolloutInv, StoreInv, Elsewhere, Marked
<1> QED BY <1>3, <1>4, <1>5, Zenon DEF RolloutInv

(* The tasks, the devices and the user are elsewhere. *)
LEMMA ValidationElsewhere == RolloutInv /\ (Validate \/ ValidateDies) => Elsewhere
<1> USE DEF RolloutInv, Shape, Elsewhere
<1>1. RolloutInv /\ ValidateRead => Elsewhere BY Zenon DEF ValidateRead
<1>2. RolloutInv /\ ValidateCreate => Elsewhere BY Zenon DEF ValidateCreate
<1>3. RolloutInv /\ ValidateAnnotate => Elsewhere BY Zenon DEF ValidateAnnotate
<1>4. RolloutInv /\ ValidateDies => Elsewhere BY Zenon DEF ValidateDies
<1> QED BY <1>1, <1>2, <1>3, <1>4, Zenon DEF Validate

LEMMA TasksElsewhere ==
    ASSUME RolloutInv, NEW w \in Workers, Rollout(w) \/ RolloutFails(w)
    PROVE  Elsewhere
<1> USE DEF RolloutInv, Shape, Elsewhere
<1>1. CASE RolloutGetFleet(w) BY <1>1, Zenon DEF RolloutGetFleet
<1>2. CASE RolloutGetLatest(w) BY <1>2, Zenon DEF RolloutGetLatest
<1>3. CASE RolloutList(w) BY <1>3, Zenon DEF RolloutList
<1>4. CASE RolloutWrite(w)
  <2> PICK d \in wrk[w].page : dev' = [dev EXCEPT ![d].tv = wrk[w].tv]
      BY <1>4, Zenon DEF RolloutWrite
  <2> QED BY <1>4, Zenon DEF RolloutWrite
<1>5. CASE \E d \in Devices : RolloutDeviceRead(w, d) BY <1>5, Zenon DEF RolloutDeviceRead
<1>6. CASE RolloutDeviceStage(w) BY <1>6, Zenon DEF RolloutDeviceStage
<1>7. CASE RolloutFails(w) BY <1>7, Zenon DEF RolloutFails
<1> QED BY <1>1, <1>2, <1>3, <1>4, <1>5, <1>6, <1>7, Zenon DEF Rollout

LEMMA EnvironmentElsewhere ==
    ASSUME RolloutInv,
           \/ EditTemplate \/ \E p \in Policies : EditPolicy(p)
           \/ \E d \in Devices : \/ Render(d) \/ Agent(d) \/ UpdateTimesOut(d)
                                  \/ Disconnect(d) \/ Reconnect(d) \/ EditLabels(d)
    PROVE  Elsewhere
<1> USE DEF RolloutInv, Shape, Elsewhere
<1>1. CASE EditTemplate BY <1>1, Zenon DEF EditTemplate
<1>2. CASE \E p \in Policies : EditPolicy(p) BY <1>2, Zenon DEF EditPolicy
<1>3. ASSUME NEW d \in Devices, Render(d) PROVE Elsewhere BY <1>3, Zenon DEF Render
<1>4. ASSUME NEW d \in Devices, Agent(d) PROVE Elsewhere
  <2>1. CASE AgentStart(d) BY <2>1, Zenon DEF AgentStart
  <2>2. CASE AgentDone(d) BY <2>2, Zenon DEF AgentDone
  <2>3. CASE AgentFails(d) BY <2>3, Zenon DEF AgentFails
  <2> QED BY <1>4, <2>1, <2>2, <2>3, Zenon DEF Agent
<1>5. ASSUME NEW d \in Devices, UpdateTimesOut(d) PROVE Elsewhere BY <1>5, Zenon DEF UpdateTimesOut
<1>6. ASSUME NEW d \in Devices, Disconnect(d) PROVE Elsewhere BY <1>6, Zenon DEF Disconnect
<1>7. ASSUME NEW d \in Devices, Reconnect(d) PROVE Elsewhere BY <1>7, Zenon DEF Reconnect
<1>8. ASSUME NEW d \in Devices, EditLabels(d) PROVE Elsewhere BY <1>8, Zenon DEF EditLabels
<1> QED BY <1>1, <1>2, <1>3, <1>4, <1>5, <1>6, <1>7, <1>8, Zenon

(* A policy that is there has a sequence of batches. *)
LEMMA PolicyHasBatches ==
    ASSUME NEW p \in Policies \ {NoPolicy}
    PROVE  p.seq \in Seq(Batches) /\ Len(p.seq) \in Nat
BY PoliciesAssumption

(* The end of a pass, by its last step or by a failure after which the marks and the *)
(* batch number are either those of this rollout or excused.                          *)
LEMMA PassEnds ==
    ASSUME RolloutInv, rec' = IdlePass, UNCHANGED <<spec, dev>>,
           DOMAIN ann' = DOMAIN ann, ann'.dep = ann.dep,
           ann'.digest = ann.digest, ann'.batch = ann.batch,
           "hit" \in DOMAIN env',
           ResetDone' => ResetDone /\ rec.pc \notin ResetPoints
    PROVE  RolloutInv'
<1>1. Shape' BY Zenon DEF RolloutInv, Shape, IdlePass
<1>2. PassInv' BY Zenon DEF PassInv, IdlePass, Deployed, LoopSteps, ResetPoints
<1>3. StoreInv' BY Zenon DEF RolloutInv, StoreInv, IdlePass, Marked, ResetPoints
<1> QED BY <1>1, <1>2, <1>3, Zenon DEF RolloutInv

(* The steps that store a template version, a batch number or marks. *)
LEMMA StoringSteps ==
    ASSUME RolloutInv,
           \/ CleanUnmark \/ CleanDelete \/ OnNewRollout \/ ResetUnmark \/ ResetBatch
           \/ AdvanceUnmark \/ AdvanceBatch \/ AdvanceMark
    PROVE  RolloutInv'
<1> USE DEF RolloutInv, Shape, PassInv, StoreInv, Deployed, LoopSteps, ResetPoints, ResetDone,
            Goto, NoBatch
<1>1. CASE CleanUnmark BY <1>1, Zenon DEF CleanUnmark, Unmark, Marked
<1>2. CASE CleanDelete BY <1>2 DEF CleanDelete, Marked
<1>3. CASE OnNewRollout BY <1>3, Zenon DEF OnNewRollout, Marked
<1>4. CASE ResetUnmark BY <1>4, Zenon DEF ResetUnmark, Unmark, Marked
<1>5. CASE ResetBatch BY <1>5, PolicyHasBatches DEF ResetBatch, Marked
<1>6. CASE AdvanceUnmark BY <1>6, Zenon DEF AdvanceUnmark, Unmark, Marked, CurrentBatch, SeqLen
<1>7. CASE AdvanceBatch BY <1>7, PolicyHasBatches DEF AdvanceBatch, Marked, CurrentBatch, SeqLen
<1>8. CASE AdvanceMark BY <1>8 DEF AdvanceMark, Mark, Marked
<1> QED BY <1>1, <1>2, <1>3, <1>4, <1>5, <1>6, <1>7, <1>8, Zenon

(* The steps that decide, approve, report or emit. *)
LEMMA DecidingSteps ==
    ASSUME RolloutInv,
           \/ StartPass \/ CleanEmit \/ ResetReport \/ SelectBatch \/ Approve \/ OnSuspended
           \/ Dispatch \/ IsComplete \/ SetCompletionReport \/ OnFinish \/ AdvanceApproval
           \/ PassFails
    PROVE  RolloutInv'
<1>1. CASE StartPass
  <2>1. CASE rec' = IdlePass BY <1>1, <2>1, PassEnds, Zenon DEF StartPass, RolloutInv, Shape, ResetDone, ResetPoints
  <2>2. CASE rec' # IdlePass
    <3> USE <1>1, <2>2 DEF StartPass
    <3>1. Shape' BY Zenon DEF RolloutInv, Shape
    <3>2. PassInv' BY Zenon DEF RolloutInv, Shape, PassInv, Deployed, LoopSteps, ResetPoints, NewRollout
    <3>3. StoreInv' BY Zenon DEF RolloutInv, StoreInv, Marked, ResetDone, ResetPoints
    <3> QED BY <3>1, <3>2, <3>3, Zenon DEF RolloutInv
  <2> QED BY <2>1, <2>2, Zenon
<1>2. CASE CleanEmit BY <1>2, PassEnds, Zenon DEF CleanEmit, Goto, RolloutInv, Shape, ResetDone, ResetPoints
<1>3. CASE OnSuspended BY <1>3, PassEnds, Zenon DEF OnSuspended, Goto, RolloutInv, Shape, ResetDone, ResetPoints
<1>4. CASE OnFinish BY <1>4, PassEnds, Zenon DEF OnFinish, Goto, RolloutInv, Shape, ResetDone, ResetPoints
<1>5. CASE PassFails BY <1>5, PassEnds, Zenon DEF PassFails, Goto, RolloutInv, Shape, ResetDone, ResetPoints
<1>6. CASE SelectBatch
  <2>1. CASE rec' = IdlePass BY <1>6, <2>1, PassEnds, Zenon DEF SelectBatch, RolloutInv, Shape, ResetDone, ResetPoints
  <2>2. CASE rec' # IdlePass
    <3> USE <1>6, <2>2 DEF SelectBatch
    <3>1. Shape' BY Zenon DEF RolloutInv, Shape
    <3>2. PassInv' BY Zenon DEF RolloutInv, Shape, PassInv, Deployed, LoopSteps, ResetPoints, CurrentBatch
    <3>3. StoreInv' BY Zenon DEF RolloutInv, Shape, StoreInv, Marked, ResetDone, ResetPoints
    <3> QED BY <3>1, <3>2, <3>3, Zenon DEF RolloutInv
  <2> QED BY <2>1, <2>2
<1>7. CASE IsComplete
  <2>1. CASE rec' = IdlePass BY <1>7, <2>1, PassEnds, Zenon DEF IsComplete, RolloutInv, Shape, ResetDone, ResetPoints
  <2>2. CASE rec' # IdlePass
    <3> USE <1>7, <2>2 DEF IsComplete, Goto
    <3>1. Shape' BY Zenon DEF RolloutInv, Shape
    <3>2. PassInv' BY Zenon DEF RolloutInv, Shape, PassInv, Deployed, LoopSteps, ResetPoints, CurrentBatch
    <3>3. StoreInv' BY Zenon DEF RolloutInv, Shape, StoreInv, Marked, ResetDone, ResetPoints
    <3> QED BY <3>1, <3>2, <3>3, Zenon DEF RolloutInv
  <2> QED BY <2>1, <2>2
<1> USE DEF RolloutInv, Shape, PassInv, StoreInv, Deployed, LoopSteps, ResetPoints, ResetDone,
            Goto, Marked, CurrentBatch, SeqLen
<1>8. CASE ResetReport BY <1>8, Zenon DEF ResetReport
<1>9. CASE Approve BY <1>9, Zenon DEF Approve
<1>10. CASE Dispatch BY <1>10, Zenon DEF Dispatch
<1>11. CASE SetCompletionReport BY <1>11, Zenon DEF SetCompletionReport, HasMoreSelections
<1>12. CASE AdvanceApproval BY <1>12, Zenon DEF AdvanceApproval
<1> QED BY <1>1, <1>2, <1>3, <1>4, <1>5, <1>6, <1>7, <1>8, <1>9, <1>10, <1>11, <1>12, Zenon

(* RolloutInv is inductive. *)
THEOREM RolloutInvariant == Spec => []RolloutInv
<1>1. Init => RolloutInv
  <2> SUFFICES ASSUME Init PROVE RolloutInv
      BY Zenon
  <2>1. Shape
    BY PoliciesAssumption, PolicyHasBatches
    DEF Init, Shape, RolledOutAtOnce, RolledOutInBatches, IdlePass, NoBatch
  <2>2. PassInv
    BY Zenon DEF Init, PassInv, IdlePass, Deployed, LoopSteps, ResetPoints
  <2>3. StoreInv
    BY PoliciesAssumption
    DEF Init, StoreInv, IdlePass, Marked, RolledOutAtOnce, RolledOutInBatches, ResetPoints
  <2> QED BY <2>1, <2>2, <2>3, Zenon DEF RolloutInv
<1>2. RolloutInv /\ [Next]_vars => RolloutInv'
  <2> SUFFICES ASSUME RolloutInv, [Next]_vars PROVE RolloutInv'
      BY Zenon
  <2>1. CASE Reconcile \/ PassFails
    BY <2>1, StoringSteps, DecidingSteps, Zenon DEF Reconcile
  <2>2. ASSUME NEW w \in Workers, Rollout(w) \/ RolloutFails(w) PROVE RolloutInv'
    BY <2>2, TasksElsewhere, ElsewhereKeeps, Zenon
  <2>3. CASE Validate \/ ValidateDies
    BY <2>3, ValidationElsewhere, ElsewhereKeeps, Zenon
  <2>4. CASE \/ EditTemplate \/ \E p \in Policies : EditPolicy(p)
             \/ \E d \in Devices : \/ Render(d) \/ Agent(d) \/ UpdateTimesOut(d)
                                    \/ Disconnect(d) \/ Reconnect(d) \/ EditLabels(d)
    BY <2>4, EnvironmentElsewhere, ElsewhereKeeps, Zenon
  <2>5. CASE UNCHANGED vars
    BY <2>5, ElsewhereKeeps, Zenon DEF Elsewhere, vars, RolloutInv, Shape
  <2> QED BY <2>1, <2>2, <2>3, <2>4, <2>5, Zenon DEF Next
<1> QED BY <1>1, <1>2, PTL DEF Spec

(* Marked devices carry the version being deployed, in a batch: a new rollout starts  *)
(* from a clean selection unless a call of Reset failed.                              *)
THEOREM MarksBelong == Spec => []MarksOfThisRollout
<1>1. RolloutInv => MarksOfThisRollout
  BY Zenon DEF RolloutInv, StoreInv, MarksOfThisRollout, ResetDone
<1> QED BY <1>1, RolloutInvariant, PTL

(* currentSelection never answers "batch number out of bounds" unless a call of Reset *)
(* failed, however the user edits the sequence during the rollout.                    *)
THEOREM BatchBounded == Spec => []BatchInBounds
<1>1. RolloutInv => BatchInBounds
  BY PolicyHasBatches
  DEF RolloutInv, Shape, PassInv, StoreInv, BatchInBounds, OutOfBounds, CurrentBatch, SeqLen,
      ResetDone, ResetPoints, Deployed, LoopSteps, NoBatch
<1> QED BY <1>1, RolloutInvariant, PTL

--------------------------------------------------------------------------------
(* Types. *)

Gens == 1..MaxGen
Versions == 0..MaxGen

DeviceRows == [tv : Gens, rtv : Gens, sel : Versions, phase : Phases,
               conn : BOOLEAN, late : BOOLEAN]
Annotations == [tv : Gens, cond : {"none", "active", "suspended", "waiting", "inactive"},
                dep : Versions, digest : Seq(Batches) \cup {NoPolicy}, batch : Int,
                approved : BOOLEAN, method : BOOLEAN, report : -1..100]
Validations == [pc : {"idle", "create", "annotate"}, gen : Versions, immediate : BOOLEAN]
Rollouts == [pc : {"idle", "latest", "list", "write", "stage"},
             task : {"rollout"} \cup Devices, all : BOOLEAN, tv : Versions,
             page : SUBSET Devices]
Passes == [pc : RecSteps, policy : Policies \cup {NoPolicy}, tv : Versions,
           numbered : BOOLEAN, method : BOOLEAN, batch : Int]
Counters == [edits : Nat, touches : Nat, failures : Nat, losses : Nat, hit : SUBSET FaultPoints]

(* Every variable in full; a version that is about to be written is not 0. *)
Types ==
    /\ spec \in [gen : Gens, policy : Policies]
    /\ rows \in Seq(Gens) /\ rows # <<>>
    /\ ann \in Annotations
    /\ dev \in [Devices -> DeviceRows]
    /\ tasks \subseteq {"validate", "rollout"} \cup Devices
    /\ val \in Validations /\ (val.pc # "idle" => val.gen \in Gens)
    /\ wrk \in [Workers -> Rollouts]
    /\ \A w \in Workers : wrk[w].pc \in {"list", "write", "stage"} => wrk[w].tv \in Gens
    /\ rec \in Passes /\ (rec.pc # "idle" => rec.tv \in Gens)
    /\ env \in Counters

LEMMA LastRow ==
    ASSUME NEW S, NEW s \in Seq(S), s # <<>>
    PROVE  Last(s) \in S
BY DEF Last

LEMMA RowAdded ==
    ASSUME NEW S, NEW s \in Seq(S), NEW x \in S
    PROVE  Append(s, x) \in Seq(S) /\ Append(s, x) # <<>> /\ Last(Append(s, x)) = x
<1>1. Append(s, x) \in Seq(S) /\ Len(Append(s, x)) = Len(s) + 1 /\ Len(s) \in Nat
    OBVIOUS
<1>2. Append(s, x)[Len(s) + 1] = x
    OBVIOUS
<1> QED BY <1>1, <1>2 DEF Last

(* SetCompletionReport stores a percentage. *)
LEMMA PercentageBounded ==
    ASSUME NEW v, Marked # {}
    PROVE  SuccessPercentage(v) \in 0..100
<1> DEFINE S == {d \in Marked : Successful(d, v)}
<1>1. IsFiniteSet(Marked) /\ S \subseteq Marked
    BY SizesAssumption, FS_Subset, Zenon DEF Marked
<1>2. Cardinality(Marked) \in Nat /\ Cardinality(Marked) # 0
    BY <1>1, FS_CardinalityType, FS_EmptySet, Zenon
<1>3. IsFiniteSet(S) /\ Cardinality(S) <= Cardinality(Marked)
    BY <1>1, FS_Subset, Zenon
<1>4. Cardinality(S) \in Nat
    BY <1>3, FS_CardinalityType, Zenon
<1>5. \A n, m \in Nat : m # 0 /\ n <= m => (n * 100) \div m \in 0..100
  <2> SUFFICES ASSUME NEW n \in Nat, NEW m \in Nat, m # 0, n <= m
               PROVE  (n * 100) \div m \in 0..100
      BY Zenon
  <2> DEFINE q == (n * 100) \div m
  <2>1. q \in Int /\ m * q <= n * 100 /\ n * 100 < m * (q + 1)
      BY Z3
  <2> QED BY <2>1, Z3
<1> QED BY <1>2, <1>3, <1>4, <1>5, Zenon DEF SuccessPercentage

LEMMA InitTypes == Init => Types
<1> SUFFICES ASSUME Init PROVE Types
    OBVIOUS
<1> USE SizesAssumption
<1>1. 1 \in Gens /\ 1 \in Versions /\ 0 \in Versions
    BY DEF Gens, Versions
<1>2. spec \in [gen : Gens, policy : Policies]
    BY <1>1, PoliciesAssumption, Zenon DEF Init
<1>3. rows \in Seq(Gens) /\ rows # <<>>
    BY <1>1 DEF Init
<1>4. ann \in Annotations
  <2>1. CASE ann = RolledOutAtOnce
      BY <1>1, <2>1 DEF RolledOutAtOnce, Annotations, NoBatch, NoReport
  <2>2. CASE ann = RolledOutInBatches /\ FirstPolicy # NoPolicy
    <3>1. FirstPolicy.seq \in Seq(Batches) /\ Len(FirstPolicy.seq) + 1 \in Int
        BY <2>2, PoliciesAssumption
    <3> QED BY <1>1, <2>2, <3>1 DEF RolledOutInBatches, Annotations
  <2> QED BY <2>1, <2>2, Zenon DEF Init
<1>5. dev \in [Devices -> DeviceRows]
    BY <1>1, Zenon DEF Init, DeviceRows, Phases
<1>6. tasks = {} /\ val \in Validations /\ val.pc = "idle"
    BY <1>1, Zenon DEF Init, NoValidate, Validations
<1>7. wrk \in [Workers -> Rollouts] /\ \A w \in Workers : wrk[w].pc = "idle"
    BY <1>1, Zenon DEF Init, NoRollout, Rollouts
<1>8. rec \in Passes /\ rec.pc = "idle"
    BY <1>1 DEF Init, IdlePass, Passes, RecSteps, NoBatch
<1>9. env \in Counters
    BY Zenon DEF Init, Counters
<1> QED BY <1>2, <1>3, <1>4, <1>5, <1>6, <1>7, <1>8, <1>9, Zenon DEF Types

(* A device's row, or one of the environment's counters, changes. *)
LEMMA RowTypes ==
    ASSUME Types, NEW d \in Devices, NEW r \in DeviceRows, dev' = [dev EXCEPT ![d] = r]
    PROVE  dev' \in [Devices -> DeviceRows]
BY Zenon DEF Types

LEMMA CounterTypes ==
    ASSUME Types
    PROVE  /\ [env EXCEPT !.edits = @ + 1] \in Counters
           /\ [env EXCEPT !.touches = @ + 1] \in Counters
           /\ [env EXCEPT !.failures = @ + 1] \in Counters
           /\ [env EXCEPT !.losses = @ + 1] \in Counters
<1>1. \A n \in Nat : n + 1 \in Nat
    OBVIOUS
<1> QED BY <1>1, Zenon DEF Types, Counters

LEMMA DeviceTypes ==
    ASSUME Types, \/ \E d \in Devices : \/ Render(d) \/ Agent(d) \/ UpdateTimesOut(d)
                                         \/ Disconnect(d) \/ Reconnect(d) \/ EditLabels(d)
                  \/ EditTemplate \/ \E p \in Policies : EditPolicy(p)
    PROVE  Types'
<1>0. \A d \in Devices : dev[d] \in DeviceRows
    BY Zenon DEF Types
<1>t. ASSUME dev' \in [Devices -> DeviceRows], env' \in Counters,
             UNCHANGED <<spec, rows, ann, tasks, val, wrk, rec>>
      PROVE  Types'
    BY <1>t, Zenon DEF Types
<1>e. env \in Counters
    BY Zenon DEF Types
<1>1. ASSUME NEW d \in Devices, Render(d) PROVE Types'
  <2> DEFINE r == [dev[d] EXCEPT !.rtv = dev[d].tv, !.late = FALSE,
                    !.phase = IF InError(d) THEN "oldErr" ELSE "old"]
  <2>1. r \in DeviceRows
      BY <1>0, Zenon DEF DeviceRows, Phases
  <2>2. dev' = [dev EXCEPT ![d] = r]
      BY <1>1, Zenon DEF Render
  <2> HIDE DEF r
  <2>3. dev' \in [Devices -> DeviceRows]
      BY <2>1, <2>2, RowTypes, Zenon
  <2> QED BY <1>1, <1>e, <1>t, <2>3, Zenon DEF Render
<1>2. ASSUME NEW d \in Devices, AgentStart(d) PROVE Types'
  <2> DEFINE r == [dev[d] EXCEPT !.phase = "updating"]
  <2>1. r \in DeviceRows
      BY <1>0, Zenon DEF DeviceRows, Phases
  <2>2. dev' = [dev EXCEPT ![d] = r]
      BY <1>2, Zenon DEF AgentStart
  <2> HIDE DEF r
  <2>3. dev' \in [Devices -> DeviceRows]
      BY <2>1, <2>2, RowTypes
  <2> QED BY <1>2, <1>e, <1>t, <2>3, Zenon DEF AgentStart
<1>3. ASSUME NEW d \in Devices, AgentDone(d) PROVE Types'
  <2> DEFINE r == [dev[d] EXCEPT !.phase = "same"]
  <2>1. r \in DeviceRows
      BY <1>0, Zenon DEF DeviceRows, Phases
  <2>2. dev' = [dev EXCEPT ![d] = r]
      BY <1>3, Zenon DEF AgentDone
  <2> HIDE DEF r
  <2>3. dev' \in [Devices -> DeviceRows]
      BY <2>1, <2>2, RowTypes
  <2> QED BY <1>3, <1>e, <1>t, <2>3, Zenon DEF AgentDone
<1>4. ASSUME NEW d \in Devices, AgentFails(d) PROVE Types'
  <2> DEFINE r == [dev[d] EXCEPT !.phase = "failed"]
  <2>1. r \in DeviceRows
      BY <1>0, Zenon DEF DeviceRows, Phases
  <2>2. dev' = [dev EXCEPT ![d] = r]
      BY <1>4, Zenon DEF AgentFails
  <2> HIDE DEF r
  <2>3. dev' \in [Devices -> DeviceRows]
      BY <2>1, <2>2, RowTypes
  <2> QED BY <1>4, <1>e, <1>t, <2>3, CounterTypes, Zenon DEF AgentFails
<1>5. ASSUME NEW d \in Devices, UpdateTimesOut(d) PROVE Types'
  <2> DEFINE r == [dev[d] EXCEPT !.late = TRUE]
  <2>1. r \in DeviceRows
      BY <1>0, Zenon DEF DeviceRows, Phases
  <2>2. dev' = [dev EXCEPT ![d] = r]
      BY <1>5, Zenon DEF UpdateTimesOut
  <2> HIDE DEF r
  <2>3. dev' \in [Devices -> DeviceRows]
      BY <2>1, <2>2, RowTypes
  <2> QED BY <1>5, <1>e, <1>t, <2>3, Zenon DEF UpdateTimesOut
<1>6. ASSUME NEW d \in Devices, Disconnect(d) PROVE Types'
  <2> DEFINE r == [dev[d] EXCEPT !.conn = FALSE]
  <2>1. r \in DeviceRows
      BY <1>0, Zenon DEF DeviceRows, Phases
  <2>2. dev' = [dev EXCEPT ![d] = r]
      BY <1>6, Zenon DEF Disconnect
  <2> HIDE DEF r
  <2>3. dev' \in [Devices -> DeviceRows]
      BY <2>1, <2>2, RowTypes
  <2> QED BY <1>6, <1>e, <1>t, <2>3, CounterTypes, Zenon DEF Disconnect
<1>7. ASSUME NEW d \in Devices, Reconnect(d) PROVE Types'
  <2> DEFINE r == [dev[d] EXCEPT !.conn = TRUE]
  <2>1. r \in DeviceRows
      BY <1>0, Zenon DEF DeviceRows, Phases
  <2>2. dev' = [dev EXCEPT ![d] = r]
      BY <1>7, Zenon DEF Reconnect
  <2> HIDE DEF r
  <2>3. dev' \in [Devices -> DeviceRows]
      BY <2>1, <2>2, RowTypes
  <2> QED BY <1>7, <1>e, <1>t, <2>3, Zenon DEF Reconnect
<1>8. ASSUME NEW d \in Devices, EditLabels(d) PROVE Types'
  <2>1. env' \in Counters /\ tasks' \subseteq {"validate", "rollout"} \cup Devices
      BY <1>8, CounterTypes, Zenon DEF EditLabels, Types
  <2> QED BY <1>8, <2>1, Zenon DEF EditLabels, Types
<1>9. CASE EditTemplate
  <2>1. spec' \in [gen : Gens, policy : Policies]
      BY <1>9, SizesAssumption DEF EditTemplate, Gens, Types
  <2>2. tasks' \subseteq {"validate", "rollout"} \cup Devices
      BY <1>9, Zenon DEF EditTemplate, Types
  <2> QED BY <1>9, <2>1, <2>2, Zenon DEF EditTemplate, Types
<1>10. ASSUME NEW p \in Policies, EditPolicy(p) PROVE Types'
  <2>1. spec' \in [gen : Gens, policy : Policies] /\ env' \in Counters
      BY <1>10, CounterTypes, Zenon DEF EditPolicy, Types
  <2> QED BY <1>10, <2>1, Zenon DEF EditPolicy, Types
<1> QED BY <1>1, <1>2, <1>3, <1>4, <1>5, <1>6, <1>7, <1>8, <1>9, <1>10, Zenon DEF Agent

(* The tasks. *)
LEMMA TaskTypes ==
    ASSUME Types, Validate \/ ValidateDies \/ \E w \in Workers : Rollout(w) \/ RolloutFails(w)
    PROVE  Types'
<1> USE DEF Types
<1>0. /\ \A g \in Gens : g \in Versions
      /\ 0 \in Versions /\ NoValidate \in Validations /\ NoRollout \in Rollouts
    BY SizesAssumption DEF Gens, Versions, NoValidate, Validations, NoRollout, Rollouts
<1>1. CASE ValidateRead
  <2>1. val' \in Validations /\ val'.gen \in Gens
      BY <1>0, <1>1, Zenon DEF ValidateRead, Validations
  <2> QED BY <1>1, <2>1, Zenon DEF ValidateRead
<1>2. CASE ValidateCreate
  <2>1. val' \in Validations /\ (val'.pc # "idle" => val'.gen \in Gens)
      BY <1>0, <1>2, Zenon DEF ValidateCreate, Validations, NoValidate
  <2>2. rows' \in Seq(Gens) /\ rows' # <<>>
    <3>1. CASE rows' = rows BY <3>1, Zenon
    <3>2. CASE rows' = Append(rows, val.gen)
        BY <1>2, <3>2, RowAdded DEF ValidateCreate
    <3> QED BY <1>2, <3>1, <3>2, Zenon DEF ValidateCreate
  <2>3. tasks' \subseteq {"validate", "rollout"} \cup Devices
      BY <1>2, Zenon DEF ValidateCreate
  <2> QED BY <1>2, <2>1, <2>2, <2>3, Zenon DEF ValidateCreate
<1>3. CASE ValidateAnnotate
  <2>1. ann' \in Annotations
      BY <1>3, Zenon DEF ValidateAnnotate, Annotations
  <2> QED BY <1>0, <1>3, <2>1, Zenon DEF ValidateAnnotate, NoValidate
<1>4. CASE ValidateDies
  <2>1. env' \in Counters
      BY <1>4, Zenon DEF ValidateDies, Counters
  <2> QED BY <1>0, <1>4, <2>1, Zenon DEF ValidateDies, NoValidate
<1>5. ASSUME NEW w \in Workers, Rollout(w) \/ RolloutFails(w) PROVE Types'
  <2>0. ASSUME NEW r \in Rollouts, wrk' = [wrk EXCEPT ![w] = r],
               r.pc \in {"list", "write", "stage"} => r.tv \in Gens
        PROVE  /\ wrk' \in [Workers -> Rollouts]
               /\ \A u \in Workers : wrk'[u].pc \in {"list", "write", "stage"}
                                       => wrk'[u].tv \in Gens
      BY <2>0, Zenon
  <2>1. CASE RolloutGetFleet(w)
    <3> DEFINE r == [NoRollout EXCEPT !.pc = "latest", !.all = spec.policy = NoPolicy]
    <3>1. r \in Rollouts /\ r.pc = "latest" /\ wrk' = [wrk EXCEPT ![w] = r]
        BY <1>0, <2>1, Zenon DEF RolloutGetFleet, Rollouts
    <3> HIDE DEF r
    <3> QED BY <2>0, <2>1, <3>1, Zenon DEF RolloutGetFleet
  <2>2. CASE RolloutGetLatest(w)
    <3> DEFINE r == [wrk[w] EXCEPT !.pc = "list", !.tv = Last(rows)]
    <3>0. Last(rows) \in Gens /\ Last(rows) \in Versions
        BY <1>0, LastRow, Zenon
    <3>1. r \in Rollouts /\ r.tv = Last(rows) /\ wrk' = [wrk EXCEPT ![w] = r]
        BY <2>2, <3>0, Zenon DEF RolloutGetLatest, Rollouts
    <3> HIDE DEF r
    <3> QED BY <2>0, <2>2, <3>0, <3>1, Zenon DEF RolloutGetLatest
  <2>3. CASE RolloutList(w)
    <3>1. PICK page \in SUBSET Devices :
                 wrk' = [wrk EXCEPT ![w] = IF page = {} THEN NoRollout
                                           ELSE [@ EXCEPT !.pc = "write", !.page = page]]
        BY <2>3, Zenon DEF RolloutList
    <3> DEFINE r == IF page = {} THEN NoRollout
                    ELSE [wrk[w] EXCEPT !.pc = "write", !.page = page]
    <3>2. r \in Rollouts /\ (r.pc = "idle" \/ r.tv = wrk[w].tv) /\ wrk' = [wrk EXCEPT ![w] = r]
        BY <1>0, <3>1, Zenon DEF Rollouts, NoRollout
    <3> HIDE DEF r
    <3> QED BY <2>0, <2>3, <3>2, Zenon DEF RolloutList
  <2>4. CASE RolloutWrite(w)
    <3>1. PICK d \in wrk[w].page :
                 /\ dev' = [dev EXCEPT ![d].tv = wrk[w].tv]
                 /\ wrk' = [wrk EXCEPT ![w] = IF @.page = {d} THEN NoRollout
                                              ELSE [@ EXCEPT !.page = wrk[w].page \ {d}]]
        BY <2>4, Zenon DEF RolloutWrite
    <3>2. d \in Devices /\ wrk[w].tv \in Gens /\ wrk[w] \in Rollouts
        BY <2>4, Zenon DEF RolloutWrite, Rollouts
    <3>3. dev' \in [Devices -> DeviceRows]
        BY <3>1, <3>2, Zenon DEF DeviceRows
    <3> DEFINE r == IF wrk[w].page = {d} THEN NoRollout
                    ELSE [wrk[w] EXCEPT !.page = wrk[w].page \ {d}]
    <3>4. r \in Rollouts /\ (r.pc = "idle" \/ r.tv = wrk[w].tv) /\ wrk' = [wrk EXCEPT ![w] = r]
        BY <1>0, <3>1, <3>2, Zenon DEF Rollouts, NoRollout
    <3> HIDE DEF r
    <3> QED BY <2>0, <2>4, <3>2, <3>3, <3>4, Zenon DEF RolloutWrite
  <2>5. ASSUME NEW d \in Devices, RolloutDeviceRead(w, d) PROVE Types'
    <3> DEFINE r == [NoRollout EXCEPT !.pc = "stage", !.task = d, !.tv = Last(rows), !.page = {d}]
    <3>0. Last(rows) \in Gens /\ Last(rows) \in Versions
        BY <1>0, LastRow, Zenon
    <3>1. r \in Rollouts /\ r.tv = Last(rows) /\ wrk' = [wrk EXCEPT ![w] = r]
        BY <1>0, <2>5, <3>0, Zenon DEF RolloutDeviceRead, Rollouts
    <3> HIDE DEF r
    <3> QED BY <2>0, <2>5, <3>0, <3>1, Zenon DEF RolloutDeviceRead
  <2>6. CASE RolloutDeviceStage(w)
    <3> DEFINE r == IF ConfiguredBatch THEN NoRollout ELSE [wrk[w] EXCEPT !.pc = "write"]
    <3>1. r \in Rollouts /\ (r.pc = "idle" \/ r.tv = wrk[w].tv) /\ wrk' = [wrk EXCEPT ![w] = r]
        BY <1>0, <2>6, Zenon DEF RolloutDeviceStage, Rollouts, NoRollout
    <3> HIDE DEF r
    <3> QED BY <2>0, <2>6, <3>1, Zenon DEF RolloutDeviceStage
  <2>7. CASE RolloutFails(w)
    <3>1. env' \in Counters
        BY <2>7, Zenon DEF RolloutFails, Counters
    <3>2. wrk[w].task \in {"rollout"} \cup Devices
        BY Zenon DEF Rollouts
    <3> QED BY <1>0, <2>0, <2>7, <3>1, <3>2, Zenon DEF RolloutFails, NoRollout
  <2> QED BY <1>5, <2>1, <2>2, <2>3, <2>4, <2>5, <2>6, <2>7, Zenon DEF Rollout
<1> QED BY <1>1, <1>2, <1>3, <1>4, <1>5, Zenon DEF Validate

(* A pass goes on, or ends. *)
LEMMA GotoTypes ==
    ASSUME Types, rec.pc # "idle", NEW p \in RecSteps, Goto(p)
    PROVE  rec' \in Passes /\ (rec'.pc # "idle" => rec'.tv \in Gens)
<1>1. IdlePass \in Passes /\ IdlePass.pc = "idle"
    BY SizesAssumption DEF IdlePass, Passes, RecSteps, NoBatch, Versions
<1>2. CASE p = "idle" BY <1>1, <1>2, Zenon DEF Goto
<1>3. CASE p # "idle"
  <2>1. rec' = [rec EXCEPT !.pc = p] /\ rec \in Passes /\ rec.tv \in Gens
      BY <1>3, Zenon DEF Goto, Types
  <2> QED BY <2>1, Zenon DEF Passes
<1> QED BY <1>2, <1>3, Zenon

(* What a reconciler step may change, and with which types. *)
LEMMA PassTypes ==
    ASSUME Types, rec' \in Passes, rec'.pc # "idle" => rec'.tv \in Gens,
           ann' \in Annotations, dev' \in [Devices -> DeviceRows],
           tasks' \subseteq {"validate", "rollout"} \cup Devices,
           UNCHANGED <<spec, rows, val, wrk>>,
           env' \in Counters
    PROVE  Types'
BY Zenon DEF Types

LEMMA MarkTypes ==
    ASSUME Types
    PROVE  /\ Unmark \in [Devices -> DeviceRows]
           /\ \A s, v : v \in Versions => Mark(s, v) \in [Devices -> DeviceRows]
<1>1. 0 \in Versions
    BY SizesAssumption DEF Versions
<1>2. \A d \in Devices : \A v \in Versions : [dev[d] EXCEPT !.sel = v] \in DeviceRows
    BY DEF Types, DeviceRows
<1>3. \A d \in Devices : dev[d] \in DeviceRows
    BY Zenon DEF Types
<1> QED BY <1>1, <1>2, <1>3, Zenon DEF Unmark, Mark

LEMMA ReconcileTypes ==
    ASSUME Types, RolloutInv, Reconcile \/ PassFails
    PROVE  Types'
<1> DEFINE Recs == rec' \in Passes /\ (rec'.pc # "idle" => rec'.tv \in Gens)
           Anns == ann' \in Annotations
           Devs == dev' \in [Devices -> DeviceRows]
           Tsks == tasks' \subseteq {"validate", "rollout"} \cup Devices
           Envs == env' \in Counters
<1>0. /\ ann \in Annotations /\ dev \in [Devices -> DeviceRows]
      /\ tasks \subseteq {"validate", "rollout"} \cup Devices
      /\ env \in Counters
      /\ rec \in Passes /\ (rec.pc # "idle" => rec.tv \in Gens) /\ rec.pc \in RecSteps
    BY Zenon DEF Types, Passes
<1>p. IdlePass \in Passes /\ IdlePass.pc = "idle" /\ 0 \in Versions /\ Gens \subseteq Versions
    BY SizesAssumption DEF IdlePass, Passes, RecSteps, NoBatch, Versions, Gens
<1>q. /\ \A p \in RecSteps : rec.pc # "idle" /\ Goto(p) => Recs
      /\ rec' = IdlePass => Recs
    BY <1>p, GotoTypes, Zenon
<1>s. Recs /\ Anns /\ Devs /\ Tsks /\ Envs /\ UNCHANGED <<spec, rows, val, wrk>> => Types'
    BY PassTypes, Zenon
<1> HIDE DEF Recs, Anns, Devs, Tsks, Envs
<1>t. /\ UNCHANGED ann => Anns
      /\ UNCHANGED dev => Devs
      /\ UNCHANGED tasks => Tsks
      /\ UNCHANGED env => Envs
    BY <1>0, Zenon DEF Anns, Devs, Tsks, Envs
<1>n. NoBatch \in Int /\ NoReport \in -1..100 /\ -1 \in Int
    BY DEF NoBatch, NoReport
<1>1. CASE StartPass
  <2>1. Recs
    <3>1. CASE rec' = IdlePass BY <1>q, <3>1, Zenon
    <3>2. CASE rec' # IdlePass
      <4>1. /\ rec' \in Passes /\ rec'.tv \in Gens
          BY <1>0, <1>1, <1>p, <3>2 DEF StartPass, Passes, RecSteps, Types, Annotations, NoBatch
      <4> QED BY <4>1, Zenon DEF Recs
    <3> QED BY <3>1, <3>2, Zenon
  <2> QED BY <1>1, <1>s, <1>t, <2>1, Zenon DEF StartPass
<1>2. CASE CleanUnmark \/ ResetUnmark \/ AdvanceUnmark
  <2>1. Recs
      BY <1>2, <1>q, Zenon DEF CleanUnmark, ResetUnmark, AdvanceUnmark, RecSteps
  <2>2. Devs
      BY <1>2, MarkTypes, Zenon DEF CleanUnmark, ResetUnmark, AdvanceUnmark, Devs
  <2> QED BY <1>2, <1>s, <1>t, <2>1, <2>2, Zenon DEF CleanUnmark, ResetUnmark, AdvanceUnmark
<1>3. CASE CleanEmit
  <2>1. Recs
      BY <1>3, <1>q, Zenon DEF CleanEmit, RecSteps
  <2>2. Tsks
      BY <1>0, <1>3, Zenon DEF CleanEmit, Tsks
  <2> QED BY <1>3, <1>s, <1>t, <2>1, <2>2, Zenon DEF CleanEmit
<1>4. CASE CleanDelete
  <2>1. Recs
      BY <1>4, <1>q, Zenon DEF CleanDelete, RecSteps
  <2>2. Anns
      BY <1>0, <1>4, <1>n, <1>p, Zenon DEF CleanDelete, Anns, Annotations
  <2> QED BY <1>4, <1>s, <1>t, <2>1, <2>2, Zenon DEF CleanDelete
<1>5. CASE OnNewRollout
  <2>1. Recs
      BY <1>5, <1>q, Zenon DEF OnNewRollout, RecSteps
  <2>2. rec.policy.seq \in Seq(Batches) /\ rec.tv \in Versions
      BY <1>0, <1>5, <1>p, PolicyHasBatches, Zenon DEF OnNewRollout, RolloutInv, PassInv
  <2>3. Anns
      BY <1>0, <1>5, <2>2, Zenon DEF OnNewRollout, Anns, Annotations
  <2> QED BY <1>5, <1>s, <1>t, <2>1, <2>3, Zenon DEF OnNewRollout
<1>6. CASE ResetReport
  <2>1. Recs
      BY <1>6, <1>q, Zenon DEF ResetReport, RecSteps
  <2>2. (ann.method \/ ~rec.method) \in BOOLEAN
      BY Zenon
  <2>3. Anns
      BY <1>0, <1>6, <1>n, <2>2, Zenon DEF ResetReport, Anns, Annotations
  <2> QED BY <1>6, <1>s, <1>t, <2>1, <2>3, Zenon DEF ResetReport
<1>7. CASE ResetBatch
  <2>1. Recs
      BY <1>7, <1>q, Zenon DEF ResetBatch, RecSteps
  <2>2. Anns
      BY <1>0, <1>7, <1>n, Zenon DEF ResetBatch, Anns, Annotations
  <2> QED BY <1>7, <1>s, <1>t, <2>1, <2>2, Zenon DEF ResetBatch
<1>8. CASE SelectBatch
  <2>1. Recs
    <3>1. CASE rec' = IdlePass BY <1>q, <3>1
    <3>2. CASE rec' # IdlePass
      <4>1. CurrentBatch \in Int
          BY <1>0 DEF CurrentBatch, Annotations
      <4>2. PICK p \in {"dispatch", "approve", "suspend"} :
                   rec' = [rec EXCEPT !.batch = CurrentBatch, !.pc = p]
          BY <1>8, <3>2, Zenon DEF SelectBatch
      <4>3. rec' \in Passes /\ rec'.tv = rec.tv
          BY <1>0, <4>1, <4>2, Zenon DEF Passes, RecSteps
      <4> QED BY <1>0, <1>8, <4>3, Zenon DEF SelectBatch, Recs
    <3> QED BY <3>1, <3>2
  <2> QED BY <1>8, <1>s, <1>t, <2>1, Zenon DEF SelectBatch
<1>9. CASE Approve \/ AdvanceApproval
  <2>1. Recs
      BY <1>9, <1>q, Zenon DEF Approve, AdvanceApproval, RecSteps
  <2>2. Anns
    <3>1. PICK b \in BOOLEAN : ann' = [ann EXCEPT !.approved = b]
        BY <1>9, Zenon DEF Approve, AdvanceApproval
    <3> QED BY <1>0, <3>1, Zenon DEF Anns, Annotations
  <2> QED BY <1>9, <1>s, <1>t, <2>1, <2>2, Zenon DEF Approve, AdvanceApproval
<1>10. CASE OnSuspended \/ OnFinish
  <2>1. Recs
      BY <1>10, <1>q, Zenon DEF OnSuspended, OnFinish, RecSteps
  <2>2. Anns
    <3>1. PICK c \in {"suspended", "waiting", "inactive"} : ann' = [ann EXCEPT !.cond = c]
        BY <1>10, Zenon DEF OnSuspended, OnFinish
    <3> QED BY <1>0, <3>1, Zenon DEF Anns, Annotations
  <2> QED BY <1>10, <1>s, <1>t, <2>1, <2>2, Zenon DEF OnSuspended, OnFinish
<1>11. CASE Dispatch
  <2>1. Recs
      BY <1>11, <1>q, Zenon DEF Dispatch, RecSteps
  <2>2. Anns
    <3>1. CASE ann' = [ann EXCEPT !.cond = "active"]
        BY <1>0, <3>1, Zenon DEF Anns, Annotations
    <3> QED BY <1>11, <1>t, <3>1, Zenon DEF Dispatch
  <2>3. Tsks
      BY <1>0, <1>11, Zenon DEF Dispatch, Tsks, BatchDispatched
  <2> QED BY <1>11, <1>s, <1>t, <2>1, <2>2, <2>3, Zenon DEF Dispatch
<1>12. CASE IsComplete
  <2>1. Recs
      BY <1>12, <1>q, Zenon DEF IsComplete, RecSteps
  <2> QED BY <1>12, <1>s, <1>t, <2>1, Zenon DEF IsComplete
<1>13. CASE SetCompletionReport
  <2>1. Recs
      BY <1>13, <1>q, Zenon DEF SetCompletionReport, RecSteps
  <2>2. Marked # {} => SuccessPercentage(rec.tv) \in -1..100
      BY PercentageBounded
  <2>3. Anns
      BY <1>0, <1>13, <2>2, Zenon DEF SetCompletionReport, Anns, Annotations
  <2> QED BY <1>13, <1>s, <1>t, <2>1, <2>3, Zenon DEF SetCompletionReport
<1>14. CASE AdvanceBatch
  <2>1. Recs
      BY <1>14, <1>q, Zenon DEF AdvanceBatch, RecSteps
  <2>2. rec.batch + 1 \in Int
      BY <1>0 DEF Passes
  <2>3. Anns
      BY <1>0, <1>14, <2>2, Zenon DEF AdvanceBatch, Anns, Annotations
  <2> QED BY <1>14, <1>s, <1>t, <2>1, <2>3, Zenon DEF AdvanceBatch
<1>15. CASE AdvanceMark
  <2>1. Recs
      BY <1>15, <1>q, Zenon DEF AdvanceMark, RecSteps
  <2>2. rec.tv \in Versions
      BY <1>0, Zenon DEF Passes
  <2>3. Devs
      BY <1>15, <2>2, MarkTypes, Zenon DEF AdvanceMark, Devs
  <2> QED BY <1>15, <1>s, <1>t, <2>1, <2>3, Zenon DEF AdvanceMark
<1>16. CASE PassFails
  <2>1. Recs
      BY <1>16, <1>q, Zenon DEF PassFails, Goto
  <2>2. Envs
      BY <1>0, <1>16, Zenon DEF PassFails, Envs, Counters
  <2> QED BY <1>16, <1>s, <1>t, <2>1, <2>2, Zenon DEF PassFails
<1> QED BY <1>1, <1>2, <1>3, <1>4, <1>5, <1>6, <1>7, <1>8, <1>9, <1>10, <1>11, <1>12, <1>13,
           <1>14, <1>15, <1>16, Zenon DEF Reconcile

(* Types is an invariant. *)
THEOREM TypesInvariant == Spec => []Types
<1>1. RolloutInv /\ Types /\ [Next]_vars => Types'
  <2> SUFFICES ASSUME RolloutInv, Types, [Next]_vars PROVE Types'
      BY Zenon
  <2>1. CASE Reconcile \/ PassFails
      BY <2>1, ReconcileTypes, Zenon
  <2>2. CASE Validate \/ ValidateDies \/ \E w \in Workers : Rollout(w) \/ RolloutFails(w)
      BY <2>2, TaskTypes, Zenon
  <2>3. CASE \/ \E d \in Devices : \/ Render(d) \/ Agent(d) \/ UpdateTimesOut(d)
                                    \/ Disconnect(d) \/ Reconnect(d) \/ EditLabels(d)
             \/ EditTemplate \/ \E p \in Policies : EditPolicy(p)
      BY <2>3, DeviceTypes, Zenon
  <2>4. CASE UNCHANGED vars
      BY <2>4, Zenon DEF vars, Types
  <2> QED BY <2>1, <2>2, <2>3, <2>4, Zenon DEF Next
<1> QED BY <1>1, InitTypes, RolloutInvariant, PTL DEF Spec

(* The types of the stored state: template versions are those the user wrote, the       *)
(* completion report is a percentage, every task is about the fleet or a device of it.  *)
THEOREM TypeCorrect == Spec => []TypeOK
<1>1. Types => TypeOK
  <2> SUFFICES ASSUME Types PROVE TypeOK
      BY Zenon
  <2>1. Entries(rows) \subseteq 1..MaxGen
    <3>1. \A i \in DOMAIN rows : rows[i] \in Gens
        BY DEF Types
    <3> QED BY <3>1, Zenon DEF Gens, Entries
  <2>2. dev \in [Devices -> [tv : 1..MaxGen, rtv : 1..MaxGen, sel : 0..MaxGen,
                             phase : Phases, conn : BOOLEAN, late : BOOLEAN]]
      BY Zenon DEF Types, DeviceRows, Gens, Versions
  <2>3. \A w \in Workers : wrk[w].pc \in {"idle", "latest", "list", "write", "stage"}
      BY Zenon DEF Types, Rollouts
  <2>4. /\ spec.gen \in 1..MaxGen /\ spec.policy \in Policies
        /\ ann.tv \in 1..MaxGen /\ ann.dep \in 0..MaxGen
        /\ ann.report \in -1..100 /\ ann.batch \in Int
        /\ ann.cond \in {"none", "active", "suspended", "waiting", "inactive"}
        /\ tasks \subseteq {"validate", "rollout"} \cup Devices
        /\ val.pc \in {"idle", "create", "annotate"}
        /\ rec.pc \in RecSteps
      BY Zenon DEF Types, Annotations, Gens, Versions, Validations, Passes
  <2> QED BY <2>1, <2>2, <2>3, <2>4, Zenon DEF TypeOK
<1> QED BY <1>1, TypesInvariant, PTL

--------------------------------------------------------------------------------
(* With one worker template versions only grow: a rollout task in progress writes a     *)
(* version no device is past, and no version is rendered before it is given.            *)
OrderInv ==
    /\ Last(rows) <= spec.gen
    /\ val.pc = "create" => Last(rows) <= val.gen /\ val.gen <= spec.gen
    /\ \A d \in Devices : dev[d].rtv <= dev[d].tv /\ dev[d].tv <= Last(rows)
    /\ \A w \in Workers : wrk[w].pc \in {"list", "write", "stage"} =>
          wrk[w].tv <= Last(rows) /\ \A d \in Devices : dev[d].tv <= wrk[w].tv

Reached(v) == \A d \in Devices : dev[d].tv >= v
Safe == env.hit \cap Unsafe = {}

(* The last batch holds every device that is not at the version, until it is complete;  *)
(* after it no device is behind.                                                        *)
LastBatch ==
    (/\ Safe /\ ann.batch >= 0 /\ ann.batch = Len(ann.digest)
     /\ rec.pc \notin ResetPoints \cup {"advMark", "cleanDelete"}) =>
        \A d \in Devices : d \in Marked \/ dev[d].tv >= ann.dep
AfterLastBatch ==
    (Safe /\ ann.batch >= 0 /\ ann.batch > Len(ann.digest) /\ rec.pc \notin ResetPoints) =>
        Reached(ann.dep)
CoverInv ==
    /\ LastBatch /\ AfterLastBatch
    /\ (Safe /\ rec.pc \in {"advApproval", "advBatch"} /\ rec.batch = SeqLen) => Reached(rec.tv)
    /\ (Safe /\ rec.pc = "finish") => Reached(rec.tv)
    /\ rec.pc \in {"report", "advUnmark"} => \A d \in Marked : dev[d].tv >= rec.tv

Left(d, v) == \/ dev[d].rtv = v /\ (Same(d) \/ dev[d].late)
              \/ dev[d].tv > v

(* While no update has failed no device is in error, and a batch that was complete      *)
(* stays so.                                                                            *)
LeftInv ==
    env.failures = 0 =>
        /\ \A d \in Devices : ~InError(d)
        /\ rec.pc \in {"report", "advUnmark"} => \A d \in Marked : Left(d, rec.tv)

Grown == \A d \in Devices : dev'[d].tv >= dev[d].tv

LEMMA OrderTypes ==
    ASSUME Types
    PROVE  /\ Last(rows) \in Nat /\ spec.gen \in Nat /\ val.gen \in Nat /\ rec.tv \in Nat
           /\ ann.dep \in Nat
           /\ \A d \in Devices : dev[d].tv \in Nat /\ dev[d].rtv \in Nat
           /\ \A w \in Workers : wrk[w].tv \in Nat
<1>1. Gens \subseteq Nat /\ Versions \subseteq Nat
    BY SizesAssumption DEF Gens, Versions
<1>2. Last(rows) \in Gens
    BY LastRow, Zenon DEF Types
<1>3. /\ spec.gen \in Gens /\ val.gen \in Versions /\ rec.tv \in Versions /\ ann.dep \in Versions
      /\ \A d \in Devices : dev[d].tv \in Gens /\ dev[d].rtv \in Gens
      /\ \A w \in Workers : wrk[w].tv \in Versions
    BY Zenon DEF Types, Validations, Passes, Annotations, DeviceRows, Rollouts
<1> QED BY <1>1, <1>2, <1>3, Zenon

(* A step that leaves the versions alone. *)
LEMMA OrderKept ==
    ASSUME Types, OrderInv, UNCHANGED <<rows, val, wrk>>, spec'.gen = spec.gen,
           \A d \in Devices : dev'[d].tv = dev[d].tv /\ dev'[d].rtv = dev[d].rtv
    PROVE  OrderInv' /\ Grown
<1>1. Grown
    BY OrderTypes DEF Grown
<1>2. Last(rows)' = Last(rows)
    BY Zenon
<1>3. OrderInv'
    BY <1>2, Zenon DEF OrderInv
<1> QED BY <1>1, <1>3, Zenon

(* A rollout task writes the version it read, which no device is past. *)
LEMMA OrderRollout ==
    ASSUME Types, OrderInv, \A v, w \in Workers : v = w,
           NEW w \in Workers, Rollout(w) \/ RolloutFails(w)
    PROVE  OrderInv' /\ Grown
<1> USE OrderTypes
<1>0. /\ wrk \in [Workers -> Rollouts] /\ dev \in [Devices -> DeviceRows] /\ NoRollout.pc = "idle"
    BY Zenon DEF Types, NoRollout
<1>1. ASSUME NEW r, wrk' = [wrk EXCEPT ![w] = r], UNCHANGED <<spec, rows, val, dev>>,
             r.pc \in {"list", "write", "stage"} =>
                r.tv <= Last(rows) /\ \A d \in Devices : dev[d].tv <= r.tv
      PROVE  OrderInv' /\ Grown
  <2>1. Grown /\ Last(rows)' = Last(rows)
      BY <1>1 DEF Grown
  <2>2. wrk'[w] = r /\ \A u \in Workers : u # w => wrk'[u] = wrk[u]
      BY <1>0, <1>1, Zenon
  <2>3. \A u \in Workers : wrk'[u].pc \in {"list", "write", "stage"} =>
          wrk'[u].tv <= Last(rows) /\ \A d \in Devices : dev[d].tv <= wrk'[u].tv
      BY <1>1, <2>2, Zenon DEF OrderInv
  <2> QED BY <1>1, <2>1, <2>3, Zenon DEF OrderInv
<1>2. CASE RolloutGetFleet(w)
  <2> DEFINE r == [NoRollout EXCEPT !.pc = "latest", !.all = spec.policy = NoPolicy]
  <2>1. r.pc = "latest" /\ wrk' = [wrk EXCEPT ![w] = r]
      BY <1>2, Zenon DEF RolloutGetFleet, NoRollout
  <2> HIDE DEF r
  <2> QED BY <1>1, <1>2, <2>1, Zenon DEF RolloutGetFleet
<1>3. CASE RolloutGetLatest(w)
  <2> DEFINE r == [wrk[w] EXCEPT !.pc = "list", !.tv = Last(rows)]
  <2>1. r.tv = Last(rows) /\ wrk' = [wrk EXCEPT ![w] = r]
      BY <1>0, <1>3, ZenonT(30) DEF RolloutGetLatest, Rollouts
  <2> HIDE DEF r
  <2>2. r.tv <= Last(rows) /\ \A d \in Devices : dev[d].tv <= r.tv
      BY <2>1 DEF OrderInv
  <2> QED BY <1>1, <1>3, <2>1, <2>2, Zenon DEF RolloutGetLatest
<1>4. CASE RolloutList(w)
  <2>1. PICK page : wrk' = [wrk EXCEPT ![w] = IF page = {} THEN NoRollout
                                              ELSE [@ EXCEPT !.pc = "write", !.page = page]]
      BY <1>4, Zenon DEF RolloutList
  <2> DEFINE r == IF page = {} THEN NoRollout ELSE [wrk[w] EXCEPT !.pc = "write", !.page = page]
  <2>2. (r.pc = "idle" \/ r.tv = wrk[w].tv) /\ wrk' = [wrk EXCEPT ![w] = r]
      BY <1>0, <2>1, Zenon DEF Rollouts
  <2> HIDE DEF r
  <2>3. wrk[w].tv <= Last(rows) /\ \A d \in Devices : dev[d].tv <= wrk[w].tv
      BY <1>4, Zenon DEF RolloutList, OrderInv
  <2> QED BY <1>1, <1>4, <2>2, <2>3, Zenon DEF RolloutList
<1>5. CASE RolloutWrite(w)
  <2>1. PICK d \in wrk[w].page :
               /\ dev' = [dev EXCEPT ![d].tv = wrk[w].tv]
               /\ wrk' = [wrk EXCEPT ![w] = IF @.page = {d} THEN NoRollout
                                            ELSE [@ EXCEPT !.page = wrk[w].page \ {d}]]
      BY <1>5, Zenon DEF RolloutWrite
  <2>2. /\ wrk[w].tv <= Last(rows) /\ \A e \in Devices : dev[e].tv <= wrk[w].tv
        /\ wrk[w] \in Rollouts /\ UNCHANGED <<spec, rows, val>>
      BY <1>0, <1>5, Zenon DEF RolloutWrite, OrderInv
  <2>3. d \in Devices
      BY <2>2, Zenon DEF Rollouts
  <2>4. /\ dev'[d].tv = wrk[w].tv /\ dev'[d].rtv = dev[d].rtv
        /\ \A e \in Devices : e # d => dev'[e] = dev[e]
      BY <1>0, <2>1, <2>3, Zenon DEF DeviceRows
  <2>5. wrk'[w].pc = "idle" \/ wrk'[w].tv = wrk[w].tv
      BY <1>0, <2>1, <2>2, Zenon DEF Rollouts
  <2>6. \A e \in Devices : /\ dev'[e].tv >= dev[e].tv /\ dev'[e].rtv = dev[e].rtv
                           /\ dev'[e].tv <= wrk[w].tv
      BY <2>2, <2>4
  <2>7. Grown
      BY <2>6, Zenon DEF Grown
  <2>8. \A e \in Devices : dev'[e].tv \in Nat
      BY <2>4, Zenon
  <2>9. \A e \in Devices : dev'[e].rtv <= dev'[e].tv /\ dev'[e].tv <= Last(rows)
      BY <2>2, <2>6, <2>8 DEF OrderInv
  <2>10. \A u \in Workers : wrk'[u].pc \in {"list", "write", "stage"} =>
            wrk'[u].tv <= Last(rows) /\ \A e \in Devices : dev'[e].tv <= wrk'[u].tv
      BY <2>2, <2>5, <2>6, Zenon
  <2> QED BY <2>2, <2>7, <2>9, <2>10, Zenon DEF OrderInv
<1>6. ASSUME NEW d \in Devices, RolloutDeviceRead(w, d) PROVE OrderInv' /\ Grown
  <2> DEFINE r == [NoRollout EXCEPT !.pc = "stage", !.task = d, !.tv = Last(rows), !.page = {d}]
  <2>1. r.tv = Last(rows) /\ wrk' = [wrk EXCEPT ![w] = r]
      BY <1>6, Zenon DEF RolloutDeviceRead, NoRollout
  <2> HIDE DEF r
  <2>2. r.tv <= Last(rows) /\ \A e \in Devices : dev[e].tv <= r.tv
      BY <2>1 DEF OrderInv
  <2> QED BY <1>1, <1>6, <2>1, <2>2, Zenon DEF RolloutDeviceRead
<1>7. CASE RolloutDeviceStage(w)
  <2> DEFINE r == IF ConfiguredBatch THEN NoRollout ELSE [wrk[w] EXCEPT !.pc = "write"]
  <2>1. (r.pc = "idle" \/ r.tv = wrk[w].tv) /\ wrk' = [wrk EXCEPT ![w] = r]
      BY <1>0, <1>7, Zenon DEF RolloutDeviceStage, Rollouts
  <2> HIDE DEF r
  <2>2. wrk[w].tv <= Last(rows) /\ \A d \in Devices : dev[d].tv <= wrk[w].tv
      BY <1>7, Zenon DEF RolloutDeviceStage, OrderInv
  <2> QED BY <1>1, <1>7, <2>1, <2>2, Zenon DEF RolloutDeviceStage
<1>8. CASE RolloutFails(w)
    BY <1>0, <1>1, <1>8, ZenonT(30) DEF RolloutFails
<1> QED BY <1>2, <1>3, <1>4, <1>5, <1>6, <1>7, <1>8, Zenon DEF Rollout

(* A new template version is that of a later template. *)
LEMMA OrderValidate ==
    ASSUME Types, OrderInv, Validate \/ ValidateDies
    PROVE  OrderInv' /\ Grown
<1> USE OrderTypes
<1>1. CASE ValidateRead
  <2>1. val'.gen = spec.gen /\ UNCHANGED <<spec, rows, dev, wrk>> /\ Last(rows)' = Last(rows)
      BY <1>1, Zenon DEF ValidateRead
  <2> QED BY <2>1 DEF OrderInv, Grown
<1>2. CASE ValidateCreate
  <2>0. UNCHANGED <<spec, dev, wrk>> /\ val'.pc # "create"
      BY <1>2 DEF ValidateCreate, NoValidate, Types, Validations
  <2>1. CASE rows' = rows
    <3>1. Last(rows)' = Last(rows)
        BY <2>1, Zenon
    <3> QED BY <2>0, <2>1, <3>1 DEF OrderInv, Grown
  <2>2. CASE rows' = Append(rows, val.gen)
    <3>1. Last(rows)' = val.gen
        BY <1>2, <2>2, RowAdded DEF ValidateCreate, Types
    <3>2. Last(rows) <= val.gen /\ val.gen <= spec.gen
        BY <1>2, Zenon DEF ValidateCreate, OrderInv
    <3>3. \A d \in Devices : dev[d].rtv <= dev[d].tv /\ dev[d].tv <= val.gen
        BY <3>2 DEF OrderInv
    <3>4. \A w \in Workers : wrk[w].pc \in {"list", "write", "stage"} =>
             wrk[w].tv <= val.gen /\ \A d \in Devices : dev[d].tv <= wrk[w].tv
        BY <3>2 DEF OrderInv
    <3>5. Grown
        BY <2>0 DEF Grown
    <3> QED BY <2>0, <3>1, <3>2, <3>3, <3>4, <3>5, Zenon DEF OrderInv
  <2> QED BY <1>2, <2>1, <2>2, Zenon DEF ValidateCreate
<1>3. CASE ValidateAnnotate \/ ValidateDies
  <2>1. val'.pc = "idle" /\ UNCHANGED <<spec, rows, dev, wrk>> /\ Last(rows)' = Last(rows)
      BY <1>3 DEF ValidateAnnotate, ValidateDies, NoValidate
  <2> QED BY <2>1 DEF OrderInv, Grown
<1> QED BY <1>1, <1>2, <1>3, Zenon DEF Validate

(* The reconciler changes nothing of a device but its mark. *)
LEMMA ReconcileDevices ==
    ASSUME Types, Reconcile \/ PassFails
    PROVE  /\ UNCHANGED <<spec, rows, val, wrk>>
           /\ \A d \in Devices :
                /\ dev'[d].tv = dev[d].tv /\ dev'[d].rtv = dev[d].rtv
                /\ dev'[d].phase = dev[d].phase /\ dev'[d].late = dev[d].late
           /\ env'.failures = env.failures
<1>1. CASE CleanUnmark \/ ResetUnmark \/ AdvanceUnmark
    BY <1>1 DEF CleanUnmark, ResetUnmark, AdvanceUnmark, Unmark, Types, DeviceRows
<1>2. CASE AdvanceMark
  <2>1. PICK s : dev' = Mark(s, rec.tv)
      BY <1>2, Zenon DEF AdvanceMark
  <2> QED BY <1>2, <2>1 DEF AdvanceMark, Mark, Types, DeviceRows
<1>3. CASE PassFails
    BY <1>3, Zenon DEF PassFails, Types, Counters
<1>4. CASE \/ StartPass \/ CleanDelete \/ CleanEmit \/ OnNewRollout \/ ResetReport \/ ResetBatch
           \/ SelectBatch \/ Approve \/ OnSuspended
    BY <1>4, Zenon DEF StartPass, CleanDelete, CleanEmit, OnNewRollout, ResetReport, ResetBatch,
                SelectBatch, Approve, OnSuspended
<1>5. CASE \/ Dispatch \/ IsComplete \/ SetCompletionReport \/ OnFinish \/ AdvanceApproval
           \/ AdvanceBatch
    BY <1>5, Zenon DEF Dispatch, IsComplete, SetCompletionReport, OnFinish, AdvanceApproval, AdvanceBatch
<1> QED BY <1>1, <1>2, <1>3, <1>4, <1>5, Zenon DEF Reconcile

LEMMA OrderStep ==
    ASSUME Types, OrderInv, \A v, w \in Workers : v = w, [Next]_vars
    PROVE  OrderInv' /\ Grown
<1>1. CASE Reconcile \/ PassFails
    BY <1>1, ReconcileDevices, OrderKept, Zenon
<1>2. CASE Validate \/ ValidateDies
    BY <1>2, OrderValidate, Zenon
<1>3. ASSUME NEW w \in Workers, Rollout(w) \/ RolloutFails(w) PROVE OrderInv' /\ Grown
    BY <1>3, OrderRollout, Zenon
<1>4. CASE EditTemplate
  <2>1. /\ spec'.gen = spec.gen + 1 /\ UNCHANGED <<rows, dev, val, wrk>>
        /\ Last(rows)' = Last(rows)
      BY <1>4, Zenon DEF EditTemplate, Types
  <2> QED BY <2>1, OrderTypes DEF OrderInv, Grown
<1>5. ASSUME NEW p \in Policies, EditPolicy(p) PROVE OrderInv' /\ Grown
    BY <1>5, OrderKept, Zenon DEF EditPolicy, Types
<1>6. ASSUME NEW d \in Devices, Render(d) PROVE OrderInv' /\ Grown
  <2>1. /\ UNCHANGED <<spec, rows, val, wrk>> /\ Last(rows)' = Last(rows)
        /\ dev'[d].tv = dev[d].tv /\ dev'[d].rtv = dev[d].tv
        /\ \A e \in Devices : e # d => dev'[e] = dev[e]
      BY <1>6, Zenon DEF Render, Types, DeviceRows
  <2> QED BY <2>1, OrderTypes DEF OrderInv, Grown
<1>7. ASSUME NEW d \in Devices, \/ Agent(d) \/ UpdateTimesOut(d) \/ Disconnect(d) \/ Reconnect(d)
                                \/ EditLabels(d)
      PROVE  OrderInv' /\ Grown
  <2>1. /\ UNCHANGED <<spec, rows, val, wrk>>
        /\ \A e \in Devices : dev'[e].tv = dev[e].tv /\ dev'[e].rtv = dev[e].rtv
      BY <1>7 DEF Agent, AgentStart, AgentDone, AgentFails, UpdateTimesOut, Disconnect, Reconnect,
                  EditLabels, Types, DeviceRows
  <2> QED BY <2>1, OrderKept, Zenon
<1>8. CASE UNCHANGED vars
    BY <1>8, OrderKept, Zenon DEF vars
<1> QED BY <1>1, <1>2, <1>3, <1>4, <1>5, <1>6, <1>7, <1>8, Zenon DEF Next

--------------------------------------------------------------------------------
(* The last batch covers the fleet. *)

LEMMA ReachedKept ==
    ASSUME Types, Types', Grown, NEW v \in Nat, NEW d \in Devices, dev[d].tv >= v
    PROVE  dev'[d].tv >= v
<1>1. dev[d].tv \in Nat
    BY OrderTypes, Zenon
<1>2. dev'[d].tv \in Nat
    BY SizesAssumption DEF Types, DeviceRows, Gens
<1> QED BY <1>1, <1>2 DEF Grown

(* A step of anything but the reconciler. *)
LEMMA CoverElsewhere ==
    ASSUME Types, Types', Grown, Elsewhere, CoverInv
    PROVE  CoverInv'
<1>1. Marked' = Marked /\ (Safe' => Safe) /\ SeqLen' = SeqLen
    BY Zenon DEF Elsewhere, Marked, Safe, SeqLen
<1>2. /\ rec' = rec /\ ann'.dep = ann.dep /\ ann'.digest = ann.digest /\ ann'.batch = ann.batch
      /\ ann.dep \in Nat /\ rec.tv \in Nat
    BY OrderTypes, Zenon DEF Elsewhere
<1>3. LastBatch'
    BY <1>1, <1>2, ReachedKept, Zenon DEF CoverInv, LastBatch
<1>4. \A v \in Nat : Reached(v) => \A d \in Devices : dev'[d].tv >= v
    BY ReachedKept, Zenon DEF Reached
<1>5. AfterLastBatch'
    BY <1>1, <1>2, <1>4, Zenon DEF CoverInv, AfterLastBatch, Reached
<1>6. (Safe /\ rec.pc \in {"advApproval", "advBatch"} /\ rec.batch = SeqLen) =>
           \A d \in Devices : dev'[d].tv >= rec.tv
    BY <1>2, <1>4, Zenon DEF CoverInv
<1>7. (Safe /\ rec.pc = "finish") => \A d \in Devices : dev'[d].tv >= rec.tv
    BY <1>2, <1>4, Zenon DEF CoverInv
<1>8. rec.pc \in {"report", "advUnmark"} => \A d \in Marked : dev'[d].tv >= rec.tv
    BY <1>2, ReachedKept, Zenon DEF CoverInv, Marked
<1> QED BY <1>1, <1>2, <1>3, <1>5, <1>6, <1>7, <1>8, Zenon DEF CoverInv, Reached

(* A step of the reconciler that stores nothing about the rollout, outside the steps    *)
(* between which the store is incomplete.                                               *)
LEMMA CoverCarried ==
    ASSUME CoverInv, dev' = dev, Safe' => Safe,
           ann'.dep = ann.dep, ann'.digest = ann.digest, ann'.batch = ann.batch,
           Safe' => rec.pc \notin ResetPoints \cup {"advMark", "cleanDelete"},
           rec'.pc \notin {"advApproval", "advBatch", "finish", "report", "advUnmark"}
    PROVE  CoverInv'
<1>1. Marked' = Marked
    BY Zenon DEF Marked
<1>2. LastBatch'
    BY <1>1, Zenon DEF CoverInv, LastBatch
<1>3. AfterLastBatch'
    BY Zenon DEF CoverInv, AfterLastBatch, Reached
<1> QED BY <1>2, <1>3, Zenon DEF CoverInv

LEMMA CoverReconcile ==
    ASSUME Types, OrderInv, RolloutInv, CoverInv, Reconcile \/ PassFails
    PROVE  CoverInv'
<1> USE OrderTypes
<1>0. /\ rec \in Passes /\ ann \in Annotations /\ dev \in [Devices -> DeviceRows]
      /\ \A d \in Devices : dev'[d].tv = dev[d].tv
    BY ReconcileDevices, Zenon DEF Types
<1>r. rec.pc \in ResetPoints \cup LoopSteps => /\ ann.dep = rec.tv /\ ann.digest = rec.policy.seq
                                              /\ SeqLen = Len(ann.digest) /\ SeqLen \in Nat
    BY PolicyHasBatches, Zenon DEF RolloutInv, PassInv, Deployed, SeqLen
<1>b. /\ rec.pc \in LoopSteps \ {"select", "advMark"} => rec.batch = CurrentBatch
      /\ rec.pc = "advMark" => ann.batch = rec.batch + 1
      /\ rec.pc \in {"advUnmark", "advApproval", "advBatch"} => rec.batch <= SeqLen
    BY Zenon DEF RolloutInv, PassInv
<1>g. \A p : Goto(p) => rec'.pc = p
    BY <1>0 DEF Goto, IdlePass, Passes
<1>1. CASE StartPass \/ CleanEmit \/ SelectBatch \/ Approve \/ OnSuspended \/ Dispatch \/ OnFinish
  <2>1. rec.pc \notin ResetPoints \cup {"advMark", "cleanDelete"}
      BY <1>1, Zenon DEF StartPass, CleanEmit, SelectBatch, Approve, OnSuspended, Dispatch, OnFinish,
                  ResetPoints
  <2>2. rec'.pc \notin {"advApproval", "advBatch", "finish", "report", "advUnmark"}
    <3>1. CASE StartPass BY <3>1, Zenon DEF StartPass, IdlePass
    <3>2. CASE SelectBatch
      <4>1. CASE rec' = IdlePass BY <4>1, Zenon DEF IdlePass
      <4>2. CASE rec' # IdlePass
        <5>1. PICK q \in {"dispatch", "approve", "suspend"} :
                 rec' = [rec EXCEPT !.batch = CurrentBatch, !.pc = q]
            BY <3>2, <4>2, Zenon DEF SelectBatch
        <5> QED BY <1>0, <5>1, Zenon DEF Passes
      <4> QED BY <4>1, <4>2, Zenon
    <3> QED BY <1>1, <1>g, <3>1, <3>2, Zenon DEF CleanEmit, Approve, OnSuspended, Dispatch, OnFinish
  <2>3. /\ ann'.dep = ann.dep /\ ann'.digest = ann.digest /\ ann'.batch = ann.batch
        /\ dev' = dev /\ env' = env
      BY <1>0, <1>1, Zenon DEF StartPass, CleanEmit, SelectBatch, Approve, OnSuspended, Dispatch,
                        OnFinish, Annotations
  <2> QED BY <2>1, <2>2, <2>3, CoverCarried, Zenon DEF Safe
<1>2. CASE PassFails
  <2>1. /\ rec'.pc = "idle" /\ ann' = ann /\ dev' = dev
        /\ env'.hit = env.hit \cup {rec.pc}
      BY <1>2, <1>g, Zenon DEF PassFails, Types, Counters
  <2>2. Safe' => Safe /\ rec.pc \notin Unsafe
      BY <2>1, Zenon DEF Safe
  <2> QED BY <2>1, <2>2, CoverCarried, Zenon DEF Unsafe
<1>3. CASE CleanUnmark
  <2>1. /\ rec.pc \notin ResetPoints /\ rec'.pc = "cleanDelete" /\ ann' = ann /\ env' = env
      BY <1>3, <1>g, Zenon DEF CleanUnmark, ResetPoints
  <2>2. AfterLastBatch'
      BY <1>0, <2>1, Zenon DEF CoverInv, AfterLastBatch, Safe, Reached
  <2> QED BY <2>1, <2>2, Zenon DEF CoverInv, LastBatch
<1>4. CASE CleanDelete \/ ResetBatch
  <2>1. rec'.pc \in {"cleanEmit", "select"}
      BY <1>4, <1>g, Zenon DEF CleanDelete, ResetBatch
  <2>2. ann'.batch \in {NoBatch, -1}
      BY <1>0, <1>4, Zenon DEF CleanDelete, ResetBatch, Annotations
  <2>3. ~(ann'.batch >= 0)
      BY <2>2 DEF NoBatch
  <2>4. LastBatch' /\ AfterLastBatch'
      BY <2>3, Zenon DEF LastBatch, AfterLastBatch
  <2> QED BY <2>1, <2>4, Zenon DEF CoverInv
<1>5. CASE OnNewRollout \/ ResetUnmark \/ ResetReport
  <2>1. rec'.pc \in ResetPoints
      BY <1>5, <1>g, Zenon DEF OnNewRollout, ResetUnmark, ResetReport, ResetPoints
  <2> QED BY <2>1, Zenon DEF CoverInv, LastBatch, AfterLastBatch, ResetPoints
<1>6. CASE IsComplete
  <2>1. CASE rec'.pc = "idle"
    <3>1. rec.pc \notin ResetPoints \cup {"advMark", "cleanDelete"} /\ UNCHANGED <<ann, dev, env>>
        BY <1>6, Zenon DEF IsComplete, ResetPoints
    <3> QED BY <2>1, <3>1, CoverCarried, Zenon DEF Safe
  <2>2. CASE rec'.pc # "idle"
    <3>1. /\ rec'.pc = "report" /\ rec'.tv = rec.tv /\ UNCHANGED <<ann, dev, env>>
          /\ rec.pc = "complete" /\ \A d \in Marked : Complete(d, rec.tv)
        BY <1>0, <1>6, <1>g, <2>2, ZenonT(30) DEF IsComplete, Goto, Passes
    <3>2. \A d \in Marked : dev[d].tv >= rec.tv
        BY <3>1, Zenon DEF Complete, OrderInv, Marked
    <3>3. LastBatch'
        BY <3>1, Zenon DEF CoverInv, LastBatch, Safe, Marked, ResetPoints
    <3>4. AfterLastBatch'
        BY <3>1, Zenon DEF CoverInv, AfterLastBatch, Safe, Reached, ResetPoints
    <3> QED BY <3>1, <3>2, <3>3, <3>4, Zenon DEF CoverInv, Marked
  <2> QED BY <2>1, <2>2, Zenon
<1>7. CASE SetCompletionReport
  <2>1. /\ rec.pc = "report" /\ rec'.tv = rec.tv /\ rec'.pc \in {"advUnmark", "finish"}
        /\ ann'.dep = ann.dep /\ ann'.digest = ann.digest /\ ann'.batch = ann.batch
        /\ dev' = dev /\ env' = env /\ (rec'.pc = "finish" => ~HasMoreSelections)
      BY <1>0, <1>7, Zenon DEF SetCompletionReport, Goto, Passes, Annotations
  <2>2. LastBatch'
      BY <2>1, Zenon DEF CoverInv, LastBatch, Safe, Marked, ResetPoints
  <2>3. AfterLastBatch'
      BY <2>1, Zenon DEF CoverInv, AfterLastBatch, Safe, Reached, ResetPoints
  <2>4. Safe /\ rec'.pc = "finish" => Reached(rec.tv)
    <3> SUFFICES ASSUME Safe, rec'.pc = "finish" PROVE Reached(rec.tv)
        BY Zenon
    <3>1. ann.dep = rec.tv /\ SeqLen = Len(ann.digest) /\ SeqLen \in Nat
        BY <1>r, <2>1, Zenon DEF LoopSteps
    <3>2. ann.batch > Len(ann.digest) /\ ann.batch >= 0
        BY <1>0, <2>1, <3>1 DEF HasMoreSelections, CurrentBatch, NoBatch, Annotations
    <3> QED BY <2>1, <3>1, <3>2, Zenon DEF CoverInv, AfterLastBatch, ResetPoints
  <2>5. \A d \in Marked : dev[d].tv >= rec.tv
      BY <2>1, Zenon DEF CoverInv
  <2> QED BY <2>1, <2>2, <2>3, <2>4, <2>5, Zenon DEF CoverInv, Marked, Reached, Safe
<1>8. CASE AdvanceUnmark
  <2>1. /\ rec.pc = "advUnmark" /\ rec'.pc = "advApproval" /\ rec'.tv = rec.tv
        /\ rec'.batch = rec.batch /\ rec'.policy = rec.policy
        /\ ann' = ann /\ env' = env
      BY <1>0, <1>8, Zenon DEF AdvanceUnmark, Goto, Passes
  <2>2. /\ ann.dep = rec.tv /\ SeqLen = Len(ann.digest) /\ SeqLen \in Nat
        /\ rec.batch = CurrentBatch /\ SeqLen' = SeqLen
      BY <1>r, <1>b, <2>1, Zenon DEF LoopSteps, SeqLen
  <2>3. Safe /\ ann.batch >= 0 /\ ann.batch = Len(ann.digest) => Reached(rec.tv)
      BY <2>1, <2>2, Zenon DEF CoverInv, LastBatch, Reached, ResetPoints
  <2>4. rec.batch = SeqLen => ann.batch >= 0 /\ ann.batch = Len(ann.digest)
      BY <1>0, <2>2 DEF CurrentBatch, NoBatch, Annotations
  <2>5. LastBatch'
      BY <1>0, <2>1, <2>2, <2>3, Zenon DEF LastBatch, Reached, Safe
  <2>6. AfterLastBatch'
      BY <1>0, <2>1, Zenon DEF CoverInv, AfterLastBatch, Reached, Safe, ResetPoints
  <2> QED BY <1>0, <2>1, <2>2, <2>3, <2>4, <2>5, <2>6, Zenon DEF CoverInv, Reached, Safe
<1>9. CASE AdvanceApproval
  <2>1. /\ rec.pc = "advApproval" /\ rec'.pc = "advBatch" /\ rec'.tv = rec.tv
        /\ rec'.batch = rec.batch /\ rec'.policy = rec.policy
        /\ ann'.dep = ann.dep /\ ann'.digest = ann.digest /\ ann'.batch = ann.batch
        /\ dev' = dev /\ env' = env
      BY <1>0, <1>9, Zenon DEF AdvanceApproval, Goto, Passes, Annotations
  <2>2. LastBatch'
      BY <2>1, Zenon DEF CoverInv, LastBatch, Safe, Marked, ResetPoints
  <2>3. AfterLastBatch'
      BY <2>1, Zenon DEF CoverInv, AfterLastBatch, Safe, Reached, ResetPoints
  <2> QED BY <2>1, <2>2, <2>3, Zenon DEF CoverInv, Reached, Safe, SeqLen
<1>10. CASE AdvanceBatch
  <2>1. /\ rec.pc = "advBatch" /\ rec'.pc = "advMark"
        /\ ann'.dep = ann.dep /\ ann'.digest = ann.digest /\ ann'.batch = rec.batch + 1
        /\ dev' = dev /\ env' = env
      BY <1>0, <1>10, <1>g, Zenon DEF AdvanceBatch, Annotations
  <2>2. /\ ann.dep = rec.tv /\ SeqLen = Len(ann.digest) /\ SeqLen \in Nat
        /\ rec.batch <= SeqLen /\ rec.batch \in Int
      BY <1>0, <1>r, <1>b, <2>1, Zenon DEF LoopSteps, Passes
  <2>3. AfterLastBatch'
    <3> SUFFICES ASSUME Safe, rec.batch + 1 > SeqLen PROVE Reached(rec.tv)
        BY <2>1, <2>2, ZenonT(30) DEF AfterLastBatch, Safe, Reached
    <3> QED BY <2>1, <2>2 DEF CoverInv
  <2> QED BY <2>1, <2>3, Zenon DEF CoverInv, LastBatch
<1>11. CASE AdvanceMark
  <2>1. /\ rec.pc = "advMark" /\ rec'.pc = "select" /\ UNCHANGED <<ann, env>>
      BY <1>11, <1>g, Zenon DEF AdvanceMark
  <2>a. rec.pc \in LoopSteps /\ rec.pc # "idle"
      BY <2>1, Zenon DEF LoopSteps
  <2>b. rec.tv # 0
      BY <2>a DEF Types, Gens
  <2>2. /\ ann.dep = rec.tv /\ SeqLen = Len(ann.digest) /\ SeqLen \in Nat
        /\ ann.batch = rec.batch + 1 /\ rec.tv # 0
      BY <1>r, <1>b, <2>1, <2>a, <2>b, Zenon
  <2>3. PICK s \in Selections(rec.batch + 1, rec.tv) : dev' = Mark(s, rec.tv)
      BY <1>11, Zenon DEF AdvanceMark
  <2>4. LastBatch'
    <3> SUFFICES ASSUME ann.batch = SeqLen, NEW d \in Devices, dev[d].tv # rec.tv
                 PROVE  d \in Marked'
      <4>1. ann' = ann /\ \A e \in Devices : dev'[e].tv = dev[e].tv /\ dev[e].tv \in Nat
          BY <1>0, <2>1, Zenon
      <4>2. ann.batch = SeqLen => \A e \in Devices : e \in Marked' \/ dev[e].tv = rec.tv
          BY Zenon
      <4>3. ann.batch = SeqLen => \A e \in Devices : e \in Marked' \/ dev'[e].tv >= ann.dep
          BY <2>2, <4>1, <4>2
      <4> QED BY <2>2, <4>1, <4>3, Zenon DEF LastBatch
    <3>1. s = {e \in Devices : dev[e].tv # rec.tv}
        BY <2>2, <2>3 DEF Selections, IsBatch
    <3>2. dev'[d] = [dev[d] EXCEPT !.sel = rec.tv]
        BY <2>3, <3>1, Zenon DEF Mark
    <3> QED BY <1>0, <2>2, <3>2 DEF Marked, DeviceRows
  <2>5. AfterLastBatch'
      BY <1>0, <2>1, Zenon DEF CoverInv, AfterLastBatch, Safe, Reached, ResetPoints
  <2> QED BY <2>1, <2>4, <2>5, Zenon DEF CoverInv
<1> QED BY <1>1, <1>2, <1>3, <1>4, <1>5, <1>6, <1>7, <1>8, <1>9, <1>10, <1>11, Zenon DEF Reconcile

(* Versions only grow with one worker: no device has a version that is not made yet, nor *)
(* one above the version that the rollout task at work writes.                           *)
THEOREM OrderInvariant ==
    ASSUME \A v, w \in Workers : v = w
    PROVE  Spec => []OrderInv
<1>1. Init => OrderInv
  <2> SUFFICES ASSUME Init PROVE OrderInv
      BY Zenon
  <2>1. Last(rows) = 1
      BY Zenon DEF Init, Last
  <2> QED BY <2>1 DEF Init, OrderInv, NoValidate, NoRollout
<1>2. Types /\ OrderInv /\ [Next]_vars => OrderInv'
    BY OrderStep, Zenon
<1> QED BY <1>1, <1>2, TypesInvariant, PTL DEF Spec

(* When a rollout is reported as finished every device of the fleet has been given its   *)
(* version or a later one, with one worker, unless a call failed at an unsafe point: the *)
(* implicit last batch takes whatever the configured ones left.                          *)
THEOREM FleetCovered ==
    ASSUME \A v, w \in Workers : v = w
    PROVE  Spec => []FinishCoversFleet
<1>1. Init => CoverInv
  <2> SUFFICES ASSUME Init PROVE CoverInv
      OBVIOUS
  <2>3. rec.pc = "idle" /\ \A d \in Devices : dev[d].tv >= 1
      BY DEF Init, IdlePass
  <2>4. ann.dep \in {0, 1}
      BY DEF Init, RolledOutAtOnce, RolledOutInBatches
  <2>5. \A d \in Devices : dev[d].tv >= ann.dep
      BY <2>3, <2>4 DEF Init
  <2> QED BY <2>3, <2>5, Zenon DEF CoverInv, LastBatch, AfterLastBatch, Reached
<1>2. Types /\ Types' /\ RolloutInv /\ OrderInv /\ CoverInv /\ [Next]_vars => CoverInv'
  <2> SUFFICES ASSUME Types, Types', RolloutInv, OrderInv, CoverInv, [Next]_vars
               PROVE  CoverInv'
      BY Zenon
  <2>1. Grown
      BY OrderStep, Zenon
  <2>2. CASE Reconcile \/ PassFails
      BY <2>2, CoverReconcile, Zenon
  <2>3. CASE Validate \/ ValidateDies
      BY <2>1, <2>3, ValidationElsewhere, CoverElsewhere, Zenon
  <2>4. ASSUME NEW w \in Workers, Rollout(w) \/ RolloutFails(w) PROVE CoverInv'
      BY <2>1, <2>4, TasksElsewhere, CoverElsewhere, Zenon
  <2>5. CASE \/ EditTemplate \/ \E p \in Policies : EditPolicy(p)
             \/ \E d \in Devices : \/ Render(d) \/ Agent(d) \/ UpdateTimesOut(d)
                                    \/ Disconnect(d) \/ Reconnect(d) \/ EditLabels(d)
      BY <2>1, <2>5, EnvironmentElsewhere, CoverElsewhere, Zenon
  <2>6. CASE UNCHANGED vars
    <3>1. Elsewhere
        BY <2>6, Zenon DEF Elsewhere, vars, RolloutInv, Shape
    <3> QED BY <2>1, <3>1, CoverElsewhere, Zenon
  <2> QED BY <2>2, <2>3, <2>4, <2>5, <2>6, Zenon DEF Next
<1>3. CoverInv => FinishCoversFleet
    BY Zenon DEF CoverInv, FinishCoversFleet, Safe, Reached
<1> QED BY <1>1, <1>2, <1>3, OrderInvariant, TypesInvariant, RolloutInvariant, PTL DEF Spec

--------------------------------------------------------------------------------
(* A batch is left complete. *)

LEMMA LeftKept ==
    ASSUME LeftInv, rec' = rec, Marked' = Marked,
           env'.failures = 0 => env.failures = 0,
           env'.failures = 0 => \A d \in Devices : ~InError(d) => ~(InError(d)'),
           \A d \in Devices : Left(d, rec.tv) => Left(d, rec.tv)'
    PROVE  LeftInv'
BY Zenon DEF LeftInv, Marked

(* A step that leaves the devices alone, their template versions and selections aside. *)
LEMMA LeftSame ==
    ASSUME Types, Types', Grown, LeftInv, rec' = rec, Marked' = Marked, env'.failures = env.failures,
           \A d \in Devices : /\ dev'[d].rtv = dev[d].rtv /\ dev'[d].phase = dev[d].phase
                              /\ dev'[d].late = dev[d].late
    PROVE  LeftInv'
<1>1. rec.tv \in Nat /\ \A d \in Devices : dev[d].tv \in Nat /\ dev'[d].tv \in Nat
    BY OrderTypes, SizesAssumption DEF Types, DeviceRows, Gens
<1>2. \A d \in Devices : dev[d].tv > rec.tv => dev'[d].tv > rec.tv
    BY <1>1 DEF Grown
<1>3. \A d \in Devices : Left(d, rec.tv) => Left(d, rec.tv)'
    BY <1>2, Zenon DEF Left, Same
<1>4. \A d \in Devices : ~InError(d) => ~(InError(d)')
    BY Zenon DEF InError
<1> QED BY <1>3, <1>4, LeftKept, Zenon

(* A step of one device: a rendering is of a later version than the batch's, unless the *)
(* device was not given that version yet.                                               *)
LEMMA LeftDevice ==
    ASSUME Types, OrderInv, LeftInv, NEW d \in Devices, rec' = rec,
           Render(d) \/ Agent(d) \/ UpdateTimesOut(d)
    PROVE  LeftInv'
<1>0. /\ dev \in [Devices -> DeviceRows] /\ env \in Counters /\ rec.tv \in Nat
      /\ dev[d].tv \in Nat /\ dev[d].rtv \in Nat /\ dev[d].rtv <= dev[d].tv
    BY OrderTypes, Zenon DEF Types, OrderInv
<1>1. SUFFICES ASSUME \A e \in Devices \ {d} : dev'[e] = dev[e],
                      dev'[d].sel = dev[d].sel,
                      env'.failures = 0 => env.failures = 0,
                      env'.failures = 0 => (~InError(d) => ~(InError(d)')),
                      Left(d, rec.tv) => Left(d, rec.tv)'
               PROVE  LeftInv'
  <2>1. CASE Render(d)
    <3>1. PICK q \in Phases : /\ dev' = [dev EXCEPT ![d].rtv = dev[d].tv, ![d].late = FALSE, ![d].phase = q]
                              /\ ~InError(d) => q = "old"
        BY <2>1, Zenon DEF Render, Phases
    <3>2. /\ \A e \in Devices \ {d} : dev'[e] = dev[e]
          /\ dev'[d].sel = dev[d].sel /\ dev'[d].tv = dev[d].tv /\ dev'[d].phase = q
        BY <1>0, <3>1, Zenon DEF DeviceRows
    <3>3. Left(d, rec.tv) => Left(d, rec.tv)'
        BY <1>0, <2>1, <3>2 DEF Left, Render
    <3>4. env' = env
        BY <2>1, Zenon DEF Render
    <3>5. ~InError(d) => ~(InError(d)')
        BY <3>1, <3>2, Zenon DEF InError
    <3> QED BY <3>2, <3>3, <3>4, <3>5, Zenon
  <2>2. CASE AgentStart(d) \/ AgentDone(d) \/ AgentFails(d)
    <3>1. PICK q \in Phases : dev' = [dev EXCEPT ![d].phase = q]
        BY <2>2, Zenon DEF AgentStart, AgentDone, AgentFails, Phases
    <3>2. /\ \A e \in Devices \ {d} : dev'[e] = dev[e]
          /\ dev'[d].sel = dev[d].sel /\ dev'[d].tv = dev[d].tv /\ dev'[d].phase = q
          /\ dev'[d].rtv = dev[d].rtv /\ dev'[d].late = dev[d].late
        BY <1>0, <3>1, Zenon DEF DeviceRows
    <3>3. Left(d, rec.tv) => Left(d, rec.tv)'
        BY <2>2, <3>2, Zenon DEF Left, Same, AgentStart, AgentDone, AgentFails
    <3>4. CASE AgentFails(d)
      <4>1. env'.failures # 0
          BY <1>0, <3>4 DEF AgentFails, Counters
      <4> QED BY <3>2, <3>3, <4>1, Zenon
    <3>5. CASE AgentStart(d) \/ AgentDone(d)
      <4>1. env' = env /\ dev'[d].phase \in {"updating", "same"}
          BY <1>0, <3>5 DEF AgentStart, AgentDone, DeviceRows
      <4>2. ~(InError(d)')
          BY <4>1, Zenon DEF InError
      <4> QED BY <3>2, <3>3, <4>1, <4>2, Zenon
    <3> QED BY <2>2, <3>4, <3>5, Zenon
  <2>3. CASE UpdateTimesOut(d)
    <3>1. dev' = [dev EXCEPT ![d].late = TRUE] /\ env' = env
        BY <2>3, Zenon DEF UpdateTimesOut
    <3>2. /\ \A e \in Devices \ {d} : dev'[e] = dev[e]
          /\ dev'[d].sel = dev[d].sel /\ dev'[d].tv = dev[d].tv /\ dev'[d].phase = dev[d].phase
          /\ dev'[d].rtv = dev[d].rtv /\ dev'[d].late
        BY <1>0, <3>1, Zenon DEF DeviceRows
    <3>3. Left(d, rec.tv) => Left(d, rec.tv)'
        BY <3>2, Zenon DEF Left
    <3>4. ~InError(d) => ~(InError(d)')
        BY <3>2, ZenonT(30) DEF InError
    <3> QED BY <3>1, <3>2, <3>3, <3>4, Zenon
  <2> QED BY <2>1, <2>2, <2>3, Zenon DEF Agent
<1>2. Marked' = Marked
    BY <1>1, Zenon DEF Marked
<1>3. \A e \in Devices : Left(e, rec.tv) => Left(e, rec.tv)'
  <2> SUFFICES ASSUME NEW e \in Devices \ {d}, Left(e, rec.tv)
               PROVE  Left(e, rec.tv)'
      BY <1>1, Zenon
  <2>1. dev'[e] = dev[e]
      BY <1>1, Zenon
  <2> QED BY <2>1 DEF Left, Same
<1>4. env'.failures = 0 => \A e \in Devices : ~InError(e) => ~(InError(e)')
    BY <1>1, Zenon DEF InError
<1> QED BY <1>1, <1>2, <1>3, <1>4, LeftKept, Zenon

LEMMA LeftReconcile ==
    ASSUME Types, LeftInv, Reconcile \/ PassFails
    PROVE  LeftInv'
<1>0. /\ rec \in Passes /\ env'.failures = env.failures
      /\ \A d \in Devices : /\ dev'[d].tv = dev[d].tv /\ dev'[d].rtv = dev[d].rtv
                            /\ dev'[d].phase = dev[d].phase /\ dev'[d].late = dev[d].late
    BY ReconcileDevices, Zenon DEF Types
<1>1. env.failures = 0 => \A d \in Devices : ~(InError(d)')
    BY <1>0, Zenon DEF LeftInv, InError
<1>g. \A p : Goto(p) => rec'.pc = p
    BY <1>0 DEF Goto, IdlePass, Passes
<1>2. CASE IsComplete
  <2> SUFFICES ASSUME env.failures = 0, rec'.pc # "idle",
                      NEW d \in Marked'
               PROVE  Left(d, rec.tv)'
      BY <1>0, <1>1, <1>2, <1>g, Zenon DEF LeftInv, IsComplete
  <2>1. dev' = dev /\ rec'.tv = rec.tv /\ Complete(d, rec.tv) /\ d \in Devices
      BY <1>0, <1>2, <1>g, Zenon DEF IsComplete, Goto, Passes, Marked
  <2>2. ~InError(d)
      BY <2>1, Zenon DEF LeftInv
  <2> QED BY <2>1, <2>2, Zenon DEF Left, Complete, Same
<1>3. CASE SetCompletionReport
  <2>1. rec.pc = "report" /\ rec'.tv = rec.tv /\ dev' = dev
      BY <1>0, <1>3, Zenon DEF SetCompletionReport, Goto, Passes
  <2> QED BY <1>0, <1>1, <2>1, Zenon DEF LeftInv, Marked, Left, Same
<1>4. CASE ~(IsComplete \/ SetCompletionReport)
  <2>1. rec'.pc \notin {"report", "advUnmark"}
    <3>1. CASE StartPass BY <3>1, Zenon DEF StartPass, IdlePass
    <3>2. CASE SelectBatch
      <4>1. CASE rec' = IdlePass BY <4>1, Zenon DEF IdlePass
      <4>2. CASE rec' # IdlePass
        <5>1. PICK q \in {"dispatch", "approve", "suspend"} :
                 rec' = [rec EXCEPT !.batch = CurrentBatch, !.pc = q]
            BY <3>2, <4>2, Zenon DEF SelectBatch
        <5> QED BY <1>0, <5>1, Zenon DEF Passes
      <4> QED BY <4>1, <4>2, Zenon
    <3>3. CASE CleanUnmark \/ CleanDelete \/ CleanEmit \/ OnNewRollout \/ ResetUnmark \/ ResetReport
               \/ ResetBatch
        BY <3>3, <1>g, Zenon DEF CleanUnmark, CleanDelete, CleanEmit, OnNewRollout, ResetUnmark,
                          ResetReport, ResetBatch
    <3>4. CASE Approve \/ OnSuspended \/ Dispatch \/ OnFinish \/ AdvanceUnmark \/ AdvanceApproval
               \/ AdvanceBatch \/ AdvanceMark \/ PassFails
        BY <3>4, <1>g, Zenon DEF Approve, OnSuspended, Dispatch, OnFinish, AdvanceUnmark,
                          AdvanceApproval, AdvanceBatch, AdvanceMark, PassFails
    <3> QED BY <1>4, <3>1, <3>2, <3>3, <3>4, Zenon DEF Reconcile
  <2> QED BY <1>0, <1>1, <2>1, Zenon DEF LeftInv
<1> QED BY <1>2, <1>3, <1>4, Zenon

LEMMA LeftStep ==
    ASSUME Types, Types', OrderInv, Grown, LeftInv, RolloutInv, [Next]_vars
    PROVE  LeftInv'
<1>0. /\ dev \in [Devices -> DeviceRows] /\ env \in Counters /\ wrk \in [Workers -> Rollouts]
    BY Zenon DEF Types
<1>1. CASE Reconcile \/ PassFails
    BY <1>1, LeftReconcile, Zenon
<1>2. ASSUME NEW d \in Devices, Render(d) \/ Agent(d) \/ UpdateTimesOut(d) PROVE LeftInv'
  <2>1. rec' = rec
      BY <1>2, Zenon DEF Render, Agent, AgentStart, AgentDone, AgentFails, UpdateTimesOut
  <2> QED BY <1>2, <2>1, LeftDevice, Zenon
<1>3. CASE Validate \/ ValidateDies \/ EditTemplate \/ (\E p \in Policies : EditPolicy(p))
           \/ UNCHANGED vars
  <2>1. dev' = dev /\ rec' = rec
      BY <1>3, Zenon DEF Validate, ValidateRead, ValidateCreate, ValidateAnnotate, ValidateDies,
                  EditTemplate, EditPolicy, vars
  <2>2. env'.failures = env.failures
      BY <1>0, <1>3, Zenon DEF Validate, ValidateRead, ValidateCreate, ValidateAnnotate, ValidateDies,
                  EditTemplate, EditPolicy, vars, Counters
  <2>3. Marked' = Marked
      BY <2>1, Zenon DEF Marked
  <2> QED BY <2>1, <2>2, <2>3, LeftSame, Zenon
<1>4. ASSUME NEW d \in Devices, Disconnect(d) \/ Reconnect(d) \/ EditLabels(d) PROVE LeftInv'
  <2>1. rec' = rec /\ env'.failures = env.failures
      BY <1>0, <1>4, Zenon DEF Disconnect, Reconnect, EditLabels, Counters
  <2>2. \A e \in Devices : /\ dev'[e].rtv = dev[e].rtv /\ dev'[e].phase = dev[e].phase
                           /\ dev'[e].late = dev[e].late /\ dev'[e].sel = dev[e].sel
      BY <1>0, <1>4 DEF Disconnect, Reconnect, EditLabels, DeviceRows
  <2>3. Marked' = Marked
      BY <2>2, Zenon DEF Marked
  <2> QED BY <2>1, <2>2, <2>3, LeftSame, Zenon
<1>5. ASSUME NEW w \in Workers, Rollout(w) \/ RolloutFails(w) PROVE LeftInv'
  <2>1. Elsewhere
      BY <1>5, TasksElsewhere, Zenon
  <2>2. rec' = rec /\ Marked' = Marked
      BY <2>1, Zenon DEF Elsewhere, Marked
  <2>3. env'.failures = env.failures
      BY <1>0, <1>5, ZenonT(30) DEF Rollout, RolloutGetFleet, RolloutGetLatest, RolloutList, RolloutWrite,
            RolloutDeviceRead, RolloutDeviceStage, RolloutFails, Counters
  <2>4. dev' = dev \/ \E d \in Devices : \E v \in Versions : dev' = [dev EXCEPT ![d].tv = v]
      BY <1>0, <1>5, Zenon DEF Rollout, RolloutGetFleet, RolloutGetLatest, RolloutList, RolloutWrite,
            RolloutDeviceRead, RolloutDeviceStage, RolloutFails, Rollouts
  <2>5. \A e \in Devices : /\ dev'[e].rtv = dev[e].rtv /\ dev'[e].phase = dev[e].phase
                           /\ dev'[e].late = dev[e].late
      BY <1>0, <2>4 DEF DeviceRows
  <2> QED BY <2>2, <2>3, <2>5, LeftSame, Zenon
<1> QED BY <1>1, <1>2, <1>3, <1>4, <1>5, Zenon DEF Next

(* Advance leaves a batch only when each of its devices runs the version, has had its    *)
(* timeout, or has been given a later version meanwhile, with one worker and as long as  *)
(* no update failed: what IsComplete saw still holds two calls later.                    *)
THEOREM LeftComplete ==
    ASSUME \A v, w \in Workers : v = w
    PROVE  Spec => BatchLeftComplete
<1>1. Init => LeftInv
    BY DEF Init, LeftInv, InError, IdlePass
<1>2. Types /\ Types' /\ RolloutInv /\ OrderInv /\ LeftInv /\ [Next]_vars => LeftInv'
    BY OrderStep, LeftStep, Zenon
<1>3. LeftInv =>
        ((rec.pc = "advUnmark" /\ rec'.pc = "advApproval" /\ env.failures = 0) =>
          \A d \in Marked : \/ dev[d].rtv = rec.tv /\ (Same(d) \/ dev[d].late)
                            \/ dev[d].tv > rec.tv)
    BY Zenon DEF LeftInv, Left
<1> QED BY <1>1, <1>2, <1>3, OrderInvariant, TypesInvariant, RolloutInvariant, PTL
        DEF Spec, BatchLeftComplete

=============================================================================
