----------------------------- MODULE AgentSpec ------------------------------
(***************************************************************************)
(* The device agent's handling of rendered device specs: the publisher that *)
(* polls the management service, the spec manager with its three files      *)
(* (current, desired, rollback), its priority queue of one entry and its    *)
(* memory of failed specs, the serial reconciliation loop of the agent, and *)
(* the bootstrap that runs whenever the process starts.                     *)
(*                                                                         *)
(* The files and the boot order of the operating system survive a restart,  *)
(* everything else is memory of the process.  The process can die and the   *)
(* device can lose power between any two writes.                            *)
(*                                                                         *)
(* Source: internal/agent/device/spec/{manager,queue,publisher,spec}.go,    *)
(* internal/agent/device/{device,bootstrap}.go, internal/agent/device/os.   *)
(***************************************************************************)
EXTENDS Integers, Sequences

CONSTANTS Contents,     \* what a spec may say; equal contents have equal hashes
          Empty,        \* the spec of version 0: no OS image and no hash
          Image,        \* the OS image a content asks for
          NoImage,
          BootImage,    \* the image the device is installed with
          Plan,         \* Plan[v]: the contents the service may render as version v
          PolicyOutcomes, \* what the policy manager may answer to IsReady
          CrashPoints,  \* where the process may die
          MaxFaults     \* how often each kind of fault may happen

Versions == 0 .. Len(Plan)

FaultKinds == {"retry", "fatal", "prefetch", "crash", "power", "health", "drop"}

ASSUME ConstantsAssumption ==
  /\ Empty \notin Contents
  /\ Image \in [Contents -> STRING] /\ BootImage # NoImage
  /\ Plan \in Seq(SUBSET Contents)
  /\ PolicyOutcomes \subseteq [download : BOOLEAN, update : BOOLEAN]
  /\ MaxFaults \in [FaultKinds -> Nat]

\* A rendered device: its version and its content.  The hash of a spec is its
\* content; the empty spec has none.
Device == [version : Versions, content : Contents \union {Empty}]

Zero == [version |-> 0, content |-> Empty]

NoDevice == [version |-> -1, content |-> Empty]

\* A spec file that is not there, and one that was truncated and not yet filled.
Missing == NoDevice
Truncated == [version |-> -2, content |-> Empty]

\* rollback.json: the image to go back to, and the version and hash that were being
\* applied.  Version 0 stands for "no annotation".
RollbackFile == [image : {Image[c] : c \in Contents} \union {NoImage, BootImage},
                 version : Versions \union {-1}, content : Contents \union {Empty}]

Cleared == [image |-> NoImage, version |-> 0, content |-> Empty]

NoRollbackFile == [image |-> NoImage, version |-> -1, content |-> Empty]

OsImage(d) == IF d.content = Empty THEN NoImage ELSE Image[d.content]

\* requeueState: a version the queue does not know has the initial one.
Requeue == [tried : BOOLEAN, delay : {"none", "waiting", "elapsed"},
            download : BOOLEAN, update : BOOLEAN]

FreshRequeue == [tried |-> FALSE, delay |-> "none", download |-> FALSE, update |-> FALSE]

EmptyQueue == [item |-> NoDevice, versions |-> {}, contents |-> {},
               requeue |-> [v \in Versions |-> FreshRequeue]]

VARIABLES
  server,        \* the device the management service renders
  disk,          \* the spec files
  os,            \* booted, staged and previous image; whether the boot is approved
  applied,       \* the content the device's configuration and applications are in
  pc,            \* where the process is; "off" when it does not run
  fatal,         \* the sync error being handled is not retryable
  next,          \* what follows specManager.Rollback
  cache,         \* the spec manager's copy of current and desired
  queue,         \* queueManager: the queued item, the failed specs, the requeue states
  lastConsumed,  \* the spec manager's last consumed device
  publisher,     \* last known version and the watcher's ring buffer
  faults         \* how many faults of each kind there were

memory == <<fatal, next, cache, queue, lastConsumed, publisher>>
vars == <<server, disk, os, applied, pc, memory, faults>>

-----------------------------------------------------------------------------
Booting == {"resetCurrent", "resetDesired", "resetRollback", "load", "bootOS"}

Syncing == {"prepare", "apply", "after", "staged", "reboot", "done", "clear"}

RollingBack == {"failing", "osRollback", "truncate", "copy", "resync"}

\* The process as it is before NewManager: it holds nothing.
Stop ==
  /\ pc' = "off" /\ fatal' = FALSE /\ next' = "idle"
  /\ cache' = [current |-> Zero, desired |-> Zero] /\ queue' = EmptyQueue
  /\ lastConsumed' = NoDevice /\ publisher' = [known |-> 0, buffer |-> <<>>]

Fault(kind) ==
  /\ faults[kind] < MaxFaults[kind]
  /\ faults' = [faults EXCEPT ![kind] = @ + 1]

Init ==
  /\ server = Zero
  /\ disk = [current |-> Missing, desired |-> Missing, rollback |-> NoRollbackFile]
  /\ os = [booted |-> BootImage, staged |-> NoImage, previous |-> NoImage, ok |-> TRUE]
  /\ applied = Empty
  /\ pc = "off" /\ fatal = FALSE /\ next = "idle"
  /\ cache = [current |-> Zero, desired |-> Zero] /\ queue = EmptyQueue
  /\ lastConsumed = NoDevice /\ publisher = [known |-> 0, buffer |-> <<>>]
  /\ faults = [k \in FaultKinds |-> 0]

IsUpgrading == cache.current.version # cache.desired.version

ShouldApplyOSImageUpdate == OsImage(cache.current) # OsImage(cache.desired)

\* CheckOsReconciliation reads the desired spec from disk.
OsReconciled == OsImage(disk.desired) # NoImage /\ os.booted = OsImage(disk.desired)

\* IsFailed: the version or the content has failed.
IsFailed(q, d) == d.version \in q.versions \/ (d.content # Empty /\ d.content \in q.contents)

\* getOrCreateRequeueState: a satisfied policy stays satisfied.
Refresh(q, v, ready) ==
  [q EXCEPT !.requeue[v].download = @ \/ ready.download,
            !.requeue[v].update = @ \/ ready.update]

\* A faulty variant: failed specs are let in again.
RefusesOlder(q, d, current) == d.version < current.version

\* A faulty variant: the current version counts as too old.
RefusesCurrent(q, d, current) == IsFailed(q, d) \/ d.version <= current.version

\* Add skips a failed spec and one that is older than the current one.
Refuses(q, d, current) == IsFailed(q, d) \/ d.version < current.version

\* queueManager.Add: a version that was tried before has to wait.  The queue holds one
\* item; another version evicts it, whichever of the two is newer.
Add(q, d, ready, current) ==
  IF Refuses(q, d, current) THEN q
  ELSE LET r == Refresh(q, d.version, ready) IN
       [r EXCEPT !.requeue[d.version].delay =
                     IF r.requeue[d.version].tried /\ @ = "none" THEN "waiting" ELSE @,
                 !.item = IF @.version = d.version THEN @ ELSE d]

\* Everything the watcher's ring buffer holds, at most three devices, in order.
AddAll(q, devices, ready, current) ==
  LET first == IF Len(devices) < 1 THEN q ELSE Add(q, devices[1], ready, current)
      second == IF Len(devices) < 2 THEN first ELSE Add(first, devices[2], ready, current)
  IN IF Len(devices) < 3 THEN second ELSE Add(second, devices[3], ready, current)

\* queueManager.setFailed.
SetFailed(q, v, content) ==
  [q EXCEPT !.versions = @ \union {v}, !.contents = @ \union ({content} \ {Empty}),
            !.requeue[v] = FreshRequeue,
            !.item = IF @.version = v THEN NoDevice ELSE @]

\* SetUpgradeFailed of the desired version.
MarkDesiredFailed(q) == SetFailed(q, cache.desired.version, cache.desired.content)

-----------------------------------------------------------------------------
(* The management service and the publisher.                               *)

\* The service renders the next version of the device.
Publish(c) ==
  /\ server.version < Len(Plan)
  /\ c \in Plan[server.version + 1]
  /\ server' = [version |-> server.version + 1, content |-> c]
  /\ UNCHANGED <<disk, os, applied, pc, memory, faults>>

\* pollAndPublish: the service answers when its version is not the known one.  A full
\* ring buffer loses its oldest entry.
Poll ==
  /\ pc \notin Booting \union {"off"}
  /\ server.version # publisher.known
  /\ publisher' =
       [known |-> IF server.version > publisher.known THEN server.version
                                                      ELSE publisher.known,
        buffer |-> Append(IF Len(publisher.buffer) = 3 THEN Tail(publisher.buffer)
                                                       ELSE publisher.buffer, server)]
  /\ UNCHANGED <<server, disk, os, applied, pc, fatal, next, cache, queue,
                 lastConsumed, faults>>

\* The backoff of a requeued version ends.
BackoffElapses(v) ==
  /\ queue.requeue[v].delay = "waiting"
  /\ queue' = [queue EXCEPT !.requeue[v].delay = "elapsed"]
  /\ UNCHANGED <<server, disk, os, applied, pc, fatal, next, cache, lastConsumed,
                 publisher, faults>>

-----------------------------------------------------------------------------
(* Start of the process: NewManager, Ensure and the bootstrap's OS check.   *)

MissingFiles ==
  {f \in {"current", "desired"} : disk[f] = Missing}
    \union {f \in {"rollback"} : disk[f] = NoRollbackFile}

\* NewManager takes the last known version from the desired file; Ensure resets it to 0
\* together with the files when any of them is missing.
Start ==
  /\ pc = "off"
  /\ pc' = IF MissingFiles = {} THEN "load" ELSE "resetCurrent"
  /\ publisher' = [publisher EXCEPT !.known =
        IF MissingFiles = {} /\ disk.desired # Truncated THEN disk.desired.version ELSE 0]
  /\ UNCHANGED <<server, disk, os, applied, fatal, next, cache, queue, lastConsumed, faults>>

\* Ensure writes the three files anew, one after the other.
ResetFile(at, file, empty, then) ==
  /\ pc = at
  /\ disk' = [disk EXCEPT ![file] = empty]
  /\ pc' = then
  /\ UNCHANGED <<server, os, applied, memory, faults>>

\* A faulty variant: the desired file is written first.
EnsureResetsDesiredFirst ==
  \/ ResetFile("resetCurrent", "desired", Zero, "resetDesired")
  \/ ResetFile("resetDesired", "current", Zero, "resetRollback")
  \/ ResetFile("resetRollback", "rollback", Cleared, "load")

\* A faulty variant: only the current file is written.
EnsureResetsCurrent == ResetFile("resetCurrent", "current", Zero, "load")

EnsureResets ==
  \/ ResetFile("resetCurrent", "current", Zero, "resetDesired")
  \/ ResetFile("resetDesired", "desired", Zero, "resetRollback")
  \/ ResetFile("resetRollback", "rollback", Cleared, "load")

\* The rest of Ensure: load the cache, queue the desired spec.
Load(ready) ==
  /\ pc = "load" /\ disk.desired # Truncated
  /\ cache' = [current |-> disk.current, desired |-> disk.desired]
  /\ queue' = Add(queue, disk.desired, ready, disk.current)
  /\ pc' = "bootOS"
  /\ UNCHANGED <<server, disk, os, applied, fatal, next, lastConsumed, publisher, faults>>

\* A file that is there and cannot be unmarshalled fails the bootstrap.
LoadFails ==
  /\ pc = "load" /\ disk.desired = Truncated
  /\ Stop
  /\ UNCHANGED <<server, disk, os, applied, faults>>

\* A faulty variant: a staged image is not looked at.
IsRollingBackStaged ==
  /\ OsImage(disk.desired) # NoImage /\ disk.rollback.image # NoImage
  /\ os.booted = disk.rollback.image /\ os.booted # OsImage(disk.desired)

\* IsRollingBack.
IsRollingBack ==
  /\ OsImage(disk.desired) # NoImage /\ disk.rollback.image # NoImage
  /\ os.staged = NoImage
  /\ os.booted = disk.rollback.image /\ os.booted # OsImage(disk.desired)

\* A faulty variant: the rollback file is not looked at.
RollbackForgotten == FALSE

\* No update is in progress, and rollback.json names the version that was rolled back.
RolledBackBefore ==
  ~ShouldApplyOSImageUpdate /\ ~IsUpgrading /\ disk.rollback.version > 0

\* ensureBootedOS and checkRollback.
BootOS ==
  /\ pc = "bootOS"
  /\ LET rollback == ShouldApplyOSImageUpdate /\ ~OsReconciled /\ IsRollingBack IN
     /\ queue' = IF rollback THEN MarkDesiredFailed(queue)
                 ELSE IF RolledBackBefore
                 THEN SetFailed(queue, disk.rollback.version, disk.rollback.content)
                 ELSE queue
     /\ pc' = IF rollback THEN "truncate" ELSE "idle"
     /\ next' = IF rollback THEN "boot" ELSE next
  /\ UNCHANGED <<server, disk, os, applied, fatal, cache, lastConsumed, publisher, faults>>

-----------------------------------------------------------------------------
(* One round of syncDeviceSpec.                                             *)

\* A faulty variant: what was consumed is never offered again.
ConsumeNever == FALSE

\* consumeLatest finds nothing polled but the last consumed device still to apply:
\* getRenderedVersion is the desired version if that failed, else the current one.
ConsumeAgain ==
  /\ publisher.buffer = <<>> /\ lastConsumed # NoDevice
  /\ lastConsumed.version # (IF IsFailed(queue, cache.desired) THEN cache.desired.version
                                                              ELSE cache.current.version)
  /\ ~IsFailed(queue, lastConsumed)

\* GetDesired finds no desired file.
DesiredMissing == disk.desired = Missing

ReadsDesired == publisher.buffer = <<>> /\ ~ConsumeAgain

\* consumeLatest, and the desired spec from disk when it consumed nothing.
Consume(ready) ==
  /\ pc = "idle"
  /\ ReadsDesired => ~DesiredMissing
  /\ queue' = AddAll(queue,
                     IF publisher.buffer # <<>> THEN publisher.buffer
                     ELSE IF ConsumeAgain THEN <<lastConsumed>> ELSE <<disk.desired>>,
                     ready, cache.current)
  /\ lastConsumed' = IF publisher.buffer # <<>> THEN publisher.buffer[Len(publisher.buffer)]
                     ELSE IF lastConsumed = NoDevice THEN disk.desired ELSE lastConsumed
  /\ publisher' = [publisher EXCEPT !.buffer = <<>>]
  /\ cache' = IF ReadsDesired THEN [cache EXCEPT !.desired = disk.desired] ELSE cache
  /\ pc' = "next"
  /\ UNCHANGED <<server, disk, os, applied, fatal, next, faults>>

\* getDeviceFromQueue and queueManager.Next: the item is kept while it is in backoff or
\* no policy is satisfied; else it is taken, refused if it is older than the desired
\* version, and written to disk if it is newer.
TakeNext(ready) ==
  /\ pc = "next"
  /\ LET d == queue.item
         q == Refresh(queue, d.version, ready)
         r == q.requeue[d.version]
         taken == [q EXCEPT !.item = NoDevice, !.requeue[d.version].tried = TRUE,
                            !.requeue[d.version].delay = "none"]
     IN
     \/ /\ d = NoDevice
        /\ pc' = "idle"
        /\ UNCHANGED <<queue, disk, cache>>
     \/ /\ d # NoDevice
        /\ r.delay = "waiting" \/ ~(r.download \/ r.update)
        /\ queue' = q /\ pc' = "idle"
        /\ UNCHANGED <<disk, cache>>
     \/ /\ d # NoDevice
        /\ r.delay # "waiting" /\ (r.download \/ r.update)
        /\ queue' = taken
        /\ pc' = IF d.version < cache.desired.version THEN "idle" ELSE "prepare"
        /\ IF d.version > cache.desired.version
           THEN disk' = [disk EXCEPT !.desired = d] /\ cache' = [cache EXCEPT !.desired = d]
           ELSE UNCHANGED <<disk, cache>>
  /\ UNCHANGED <<server, os, applied, fatal, next, lastConsumed, publisher, faults>>

\* handleMissingSpec: the process exits when the file it reads is gone.
MissingSpec ==
  /\ \/ pc = "idle" /\ ReadsDesired /\ DesiredMissing
     \/ pc = "prepare" /\ disk.current = Missing
  /\ Stop
  /\ UNCHANGED <<server, disk, os, applied, faults>>

\* The error path of syncDeviceSpec: nothing in the steady state; in an upgrade a
\* non-retryable error marks the version failed, and every error rolls back.
Fail(isFatal) ==
  IF ~IsUpgrading THEN pc' = "idle" /\ UNCHANGED <<queue, fatal>>
  ELSE /\ queue' = IF isFatal THEN MarkDesiredFailed(queue) ELSE queue
       /\ fatal' = isFatal
       /\ pc' = "failing"

\* A phase of sync reports a retryable or a fatal error.
PhaseFails(kind) ==
  /\ pc \in {"prepare", "apply", "after", "staged", "reboot"}
  /\ pc = "prepare" => disk.current # Missing
  /\ Fault(kind)
  /\ Fail(kind = "fatal")
  /\ applied' = IF pc = "apply" THEN "mixed" ELSE applied
  /\ UNCHANGED <<server, disk, os, next, cache, lastConsumed, publisher>>

\* CheckOsReconciliation cannot read the desired spec: not a retryable error.
DesiredUnreadable ==
  /\ disk.desired = Missing
  /\ pc = "after" \/ (pc = "prepare" /\ disk.current # Missing /\ ShouldApplyOSImageUpdate)
  /\ Fail(TRUE)
  /\ UNCHANGED <<server, disk, os, applied, next, cache, lastConsumed, publisher, faults>>

PoliciesSatisfied ==
  LET r == queue.requeue[cache.desired.version] IN r.download /\ r.update

\* beforeUpdate: both policies have to be satisfied.
BeforeUpdate ==
  /\ pc = "prepare" /\ disk.current # Missing
  /\ disk.desired = Missing => ~ShouldApplyOSImageUpdate
  /\ IF PoliciesSatisfied THEN pc' = "apply" /\ UNCHANGED <<queue, fatal>> ELSE Fail(FALSE)
  /\ UNCHANGED <<server, disk, os, applied, next, cache, lastConsumed, publisher, faults>>

\* ErrPrefetchNotReady: handlePrefetchNotReady rolls the spec back and leaves it there.
PrefetchNotReady ==
  /\ pc = "prepare" /\ disk.current # Missing
  /\ Fault("prefetch")
  /\ pc' = IF IsUpgrading THEN "truncate" ELSE "idle"
  /\ next' = "idle"
  /\ UNCHANGED <<server, disk, os, applied, fatal, cache, queue, lastConsumed, publisher>>

SyncDevice ==
  /\ pc = "apply"
  /\ applied' = cache.desired.content
  /\ pc' = "after"
  /\ UNCHANGED <<server, disk, os, memory, faults>>

\* afterUpdate, and of afterUpdateOS the staging of the image.
AfterUpdate ==
  /\ pc = "after" /\ disk.desired # Missing
  /\ IF ~OsReconciled /\ ShouldApplyOSImageUpdate /\ OsImage(cache.desired) # NoImage
     THEN os' = [os EXCEPT !.staged = OsImage(cache.desired)] /\ pc' = "staged"
     ELSE pc' = "done" /\ UNCHANGED os
  /\ UNCHANGED <<server, disk, applied, memory, faults>>

\* A faulty variant: the booted image is not looked up.
CurrentImage == OsImage(disk.current)

\* The image to go back to: the one of the current spec, or the booted one.
RollbackImage == IF OsImage(disk.current) = NoImage THEN os.booted ELSE OsImage(disk.current)

\* CreateRollback, after the BeforeRebooting hook.
CreateRollback ==
  /\ pc = "staged"
  /\ disk' = [disk EXCEPT !.rollback =
        [image |-> RollbackImage,
         version |-> cache.desired.version, content |-> cache.desired.content]]
  /\ pc' = "reboot"
  /\ UNCHANGED <<server, os, applied, memory, faults>>

\* A boot takes the staged image if there is one; the new image is on trial.
Boot(o) ==
  IF o.staged = NoImage THEN o
  ELSE [booted |-> o.staged, staged |-> NoImage, previous |-> o.booted, ok |-> FALSE]

\* The order of the two images is swapped and the device boots the other one.
BootPrevious(o) == [booted |-> o.previous, staged |-> NoImage, previous |-> o.booted, ok |-> TRUE]

\* osManager.Reboot.
Reboot ==
  /\ pc = "reboot"
  /\ os' = Boot(os)
  /\ Stop
  /\ UNCHANGED <<server, disk, applied, faults>>

\* A faulty variant: a new image is committed at once.
NoWait == FALSE

\* A new OS image has to be approved before it is committed.
AwaitsGreenboot == ShouldApplyOSImageUpdate /\ ~os.ok

\* The sync succeeded: nothing more in the steady state; a new OS image waits for
\* greenboot; else Upgrade writes the current spec.
Upgrade ==
  /\ pc = "done"
  /\ IF ~IsUpgrading \/ AwaitsGreenboot
     THEN pc' = "idle" /\ UNCHANGED <<disk, cache>>
     ELSE /\ disk' = [disk EXCEPT !.current = disk.desired]
          /\ cache' = [cache EXCEPT !.current = disk.desired]
          /\ pc' = "clear"
  /\ UNCHANGED <<server, os, applied, fatal, next, queue, lastConsumed, publisher, faults>>

\* A faulty variant: the rollback file stays.
RollbackKept == disk.rollback

\* ClearRollback writes a rollback spec without version and image.
RollbackCleared == Cleared

\* Upgrade goes on with ClearRollback and takes the version off the queue.
ClearRollback ==
  /\ pc = "clear"
  /\ disk' = [disk EXCEPT !.rollback = RollbackCleared]
  /\ queue' = [queue EXCEPT !.item = IF @.version = cache.desired.version THEN NoDevice ELSE @]
  /\ pc' = "idle"
  /\ UNCHANGED <<server, os, applied, fatal, next, cache, lastConsumed, publisher, faults>>

-----------------------------------------------------------------------------
(* rollbackDevice and specManager.Rollback.                                 *)

\* The OS is rolled back if the failed version came with the booted image.  The
\* configuration is put back first; that may fail and is not repeated.
RollbackDevice ==
  /\ pc = "failing"
  /\ \/ /\ fatal /\ ShouldApplyOSImageUpdate /\ OsReconciled
        /\ \/ applied' = cache.current.content /\ UNCHANGED faults
           \/ applied' = "mixed" /\ Fault("retry")
        /\ pc' = "osRollback" /\ UNCHANGED next
     \/ /\ ~(fatal /\ ShouldApplyOSImageUpdate /\ OsReconciled)
        /\ pc' = "truncate" /\ next' = "resync" /\ UNCHANGED <<applied, faults>>
  /\ UNCHANGED <<server, disk, os, fatal, cache, queue, lastConsumed, publisher>>

\* rebootIntoRollbackOS dereferences the image of the rollback spec, and
\* osManager.Rollback compares it with the image bootc would go back to.
RebootIntoRollbackOS ==
  /\ pc = "osRollback"
  /\ \/ /\ disk.rollback # NoRollbackFile /\ disk.rollback.image = NoImage
        /\ Stop /\ UNCHANGED os
     \/ /\ disk.rollback.image # NoImage /\ os.previous = disk.rollback.image
        /\ os' = BootPrevious(os) /\ Stop
     \/ /\ \/ disk.rollback = NoRollbackFile
           \/ disk.rollback.image # NoImage /\ os.previous # disk.rollback.image
        /\ pc' = "idle" /\ UNCHANGED <<os, memory>>
  /\ UNCHANGED <<server, disk, applied, faults>>

\* The BeforeRebooting hook fails: the error is logged.
RollbackHookFails ==
  /\ pc = "osRollback" /\ disk.rollback # NoRollbackFile
  /\ Fault("fatal")
  /\ pc' = "idle"
  /\ UNCHANGED <<server, disk, os, applied, memory>>

\* A faulty variant: source and target of the copy are swapped.
TruncateCurrent ==
  /\ pc = "truncate" /\ disk.current # Missing
  /\ disk' = [disk EXCEPT !.current = Truncated]
  /\ pc' = "copy"
  /\ UNCHANGED <<server, os, applied, memory, faults>>

\* Rollback copies current over desired in place: CopyFile truncates the target first.
TruncateDesired ==
  /\ pc = "truncate" /\ disk.current # Missing
  /\ disk' = [disk EXCEPT !.desired = Truncated]
  /\ pc' = "copy"
  /\ UNCHANGED <<server, os, applied, memory, faults>>

\* A faulty variant: the desired spec stays what it was.
CopyDesired(ready) ==
  /\ pc = "copy"
  /\ disk' = [disk EXCEPT !.desired = cache.desired]
  /\ queue' = Add(queue, disk.current, ready, cache.current)
  /\ pc' = IF next = "resync" THEN "resync" ELSE "idle"
  /\ next' = "idle"
  /\ UNCHANGED <<server, os, applied, fatal, cache, lastConsumed, publisher, faults>>

\* Rollback fills the file, queues the current spec again and updates the cache.
CopyCurrent(ready) ==
  /\ pc = "copy"
  /\ disk' = [disk EXCEPT !.desired = disk.current]
  /\ queue' = Add(queue, disk.current, ready, cache.current)
  /\ cache' = [cache EXCEPT !.desired = disk.current]
  /\ pc' = IF next = "resync" THEN "resync" ELSE "idle"
  /\ next' = "idle"
  /\ UNCHANGED <<server, os, applied, fatal, lastConsumed, publisher, faults>>

\* syncFn(desired, current) puts the previous configuration back, or fails half way.
Resync ==
  /\ pc = "resync"
  /\ \/ applied' = cache.current.content /\ UNCHANGED faults
     \/ applied' = "mixed" /\ Fault("retry")
  /\ pc' = "idle"
  /\ UNCHANGED <<server, disk, os, memory>>

-----------------------------------------------------------------------------
(* What happens to the process and to the device.                           *)

\* The process dies or is stopped; systemd starts it again.
Crash ==
  /\ pc \in CrashPoints
  /\ Fault("crash")
  /\ Stop
  /\ UNCHANGED <<server, disk, os, applied>>

\* The device restarts; a staged image is booted.
PowerCycle ==
  /\ pc \in CrashPoints
  /\ Fault("power")
  /\ os' = Boot(os)
  /\ Stop
  /\ UNCHANGED <<server, disk, applied>>

\* greenboot approves the boot,
BootSucceeds ==
  /\ ~os.ok
  /\ os' = [os EXCEPT !.ok = TRUE]
  /\ UNCHANGED <<server, disk, applied, pc, memory, faults>>

\* or gives up on it and boots the previous image.
BootFails ==
  /\ ~os.ok /\ pc \in CrashPoints
  /\ Fault("health")
  /\ os' = BootPrevious(os)
  /\ Stop
  /\ UNCHANGED <<server, disk, applied>>

\* A spec file is removed while the process does not work on it.
DropFile(f) ==
  /\ pc \in {"off", "idle"}
  /\ Fault("drop")
  /\ disk' = [disk EXCEPT ![f] = IF f = "rollback" THEN NoRollbackFile ELSE Missing]
  /\ UNCHANGED <<server, os, applied, pc, memory>>

\* The steps the process takes by itself.
AgentStep ==
  \/ Start \/ EnsureResets \/ LoadFails \/ BootOS \/ MissingSpec
  \/ \E ready \in PolicyOutcomes : Load(ready) \/ Consume(ready) \/ TakeNext(ready)
                                   \/ CopyCurrent(ready)
  \/ DesiredUnreadable \/ BeforeUpdate \/ SyncDevice \/ AfterUpdate \/ CreateRollback
  \/ Reboot \/ Upgrade \/ ClearRollback
  \/ RollbackDevice \/ RebootIntoRollbackOS \/ TruncateDesired \/ Resync

Faults ==
  \/ \E kind \in {"retry", "fatal"} : PhaseFails(kind)
  \/ PrefetchNotReady \/ RollbackHookFails
  \/ Crash \/ PowerCycle \/ BootFails
  \/ \E f \in {"current", "desired", "rollback"} : DropFile(f)

Next ==
  \/ \E c \in Contents : Publish(c)
  \/ Poll \/ BootSucceeds
  \/ \E v \in Versions : BackoffElapses(v)
  \/ AgentStep \/ Faults

Spec == Init /\ [][Next]_vars

\* The engine calls syncDeviceSpec on every tick and systemd restarts the process, so
\* the process goes on; the publisher keeps polling; a backoff ends; greenboot decides.
FairSpec ==
  /\ Spec
  /\ WF_vars(AgentStep) /\ WF_vars(Poll) /\ WF_vars(BootSucceeds)
  /\ \A v \in Versions : WF_vars(BackoffElapses(v))

-----------------------------------------------------------------------------
(* Properties.                                                              *)

Images == {Image[c] : c \in Contents} \union {NoImage, BootImage}

\* Types of the variables.
TypeOK ==
  /\ server \in Device
  /\ disk \in [current : Device \union {Missing}, desired : Device \union {Missing, Truncated},
              rollback : RollbackFile]
  /\ os \in [booted : Images, staged : Images, previous : Images, ok : BOOLEAN]
  /\ applied \in Contents \union {Empty, "mixed"}
  /\ pc \in {"off", "idle", "next"} \union Booting \union Syncing \union RollingBack
  /\ fatal \in BOOLEAN /\ next \in {"idle", "resync", "boot"}
  /\ cache \in [current : Device, desired : Device]
  /\ queue \in [item : Device \union {NoDevice}, versions : SUBSET Versions,
               contents : SUBSET Contents, requeue : [Versions -> Requeue]]
  /\ lastConsumed \in Device \union {NoDevice}
  /\ publisher \in [known : Versions, buffer : Seq(Device)] /\ Len(publisher.buffer) <= 3
  /\ faults \in [FaultKinds -> Nat]

\* The current spec goes back only when Ensure resets all files: whatever was polled,
\* queued, rolled back or retried, Upgrade never commits an older version than the one
\* that runs ("this should never happen", the audit check of write).
CurrentForward ==
  [][\/ disk'.current.version >= disk.current.version
     \/ disk'.current = Missing
     \/ pc = "resetCurrent"]_vars

\* The queue never offers an older version than the one being applied: the guard of
\* getDeviceFromQueue against older versions is never needed.
QueueNotOlder == pc = "next" => queue.item = NoDevice \/ queue.item.version >= cache.desired.version

\* A version with a new OS image becomes the current one only in a boot of that image
\* that greenboot approved: syncDeviceSpec waits for it across reboots and restarts.
CommittedImageBooted ==
  [][pc = "done" /\ disk'.current # disk.current
       /\ OsImage(disk'.current) \notin {NoImage, OsImage(disk.current)}
     => os.booted = OsImage(disk'.current) /\ os.ok]_vars

\* No phase of an update works on a version or a content that was marked as failed: Add,
\* setFailed and consumeLatest keep them out of every way into the queue.
FailedNotApplied == pc \in Syncing /\ IsUpgrading => ~IsFailed(queue, cache.desired)

\* An image that was booted and rolled back is not installed a second time for the same
\* version: rollback.json carries the verdict over reboots and restarts, unless a spec
\* file is lost and Ensure resets them all.
RejectedNotRetried ==
  faults["drop"] = 0 /\ pc \in Syncing /\ IsUpgrading
    /\ os.staged = NoImage /\ os.booted = disk.rollback.image
    => cache.desired.version # disk.rollback.version

\* The desired file is never older than the current one, so a restart in the middle of
\* a rollback, a reset or an upgrade resumes forward.
DesiredNotOlder ==
  disk.current # Missing /\ disk.desired \notin {Missing, Truncated}
    => disk.desired.version >= disk.current.version

\* The content that runs is not marked as failed, so that it is queued "to ensure future
\* resync".
CurrentCanResync == pc \notin Booting \union {"off"} => ~IsFailed(queue, cache.current)

\* rebootIntoRollbackOS finds the image to go back to in rollback.json, which
\* CreateRollback wrote before the reboot; only a power loss boots a staged image without.
\* Every version asks for an image of its own here: one that names the image that runs
\* already needs no reboot, and finds no image to go back to (MCAgentSpec_installed).
RollbackImageKnown ==
  pc = "osRollback" /\ faults["power"] = 0 => disk.rollback.image # NoImage

\* When the process starts with no update in progress, the booted image is the one of
\* the current spec: an update that was given up leaves nothing behind that boots.
SteadyImageBooted ==
  pc = "bootOS" /\ ~IsUpgrading /\ OsImage(cache.current) # NoImage
    => os.booted = OsImage(cache.current)

\* The device ends up with the version the service renders, unless that failed.
Converges == <>[](disk.current = server \/ IsFailed(queue, server))

\* Without a non-retryable error and with approved boots the rendered version is
\* eventually the current one: retryable errors are retried without limit, and an
\* interrupted update is resumed.  Only both together may end it: a restart takes a
\* rollback.json that a retry left behind for the verdict on the version.
Adopted ==
  <>[](\/ disk.current = server
       \/ faults["fatal"] + faults["health"] > 0
       \/ faults["retry"] + faults["prefetch"] > 0 /\ faults["crash"] + faults["power"] > 0)

\* The process always gets past its bootstrap again.
Restarts == []<>(pc = "idle")

\* What is applied is in the end what the current spec says.
Reconciled == <>[](applied = disk.current.content)
=============================================================================
