----------------------------- MODULE TaskQueue -----------------------------
(***************************************************************************)
(* The durable task queue of the Flight Control service: the Redis stream  *)
(* with its consumer group, failed set, in-flight set and checkpoint       *)
(* (pkg/queues/redis_provider.go), the producers that store an event and   *)
(* then enqueue it (internal/service/events, internal/worker_client), the  *)
(* worker threads (internal/tasks/consumer.go) and the periodic            *)
(* maintenance task (internal/tasks/queue_maintenance.go).                 *)
(*                                                                         *)
(* One step is one Redis command, one Lua script or one database call.     *)
(* Message bodies are the events they carry.  Backoff delays and idle      *)
(* times are abstracted: at any scan any part of the failed set may be due *)
(* and any part of the pending list may have timed out.                    *)
(***************************************************************************)
EXTENDS Integers, FiniteSets

CONSTANTS
  Events,       \* events whose reason is one the workers handle
  NoEvent,      \* the body of no message
  Workers,      \* consumer threads
  Maintainers,  \* processes that run the queue maintenance task
  MaxRetries,   \* RetryConfig.MaxRetries
  MaxFaults,    \* how often each kind of fault may happen
  MaxFaultSum,  \* how many faults of all kinds may happen
  Fresh         \* TRUE: no maintenance has run yet on this installation

FaultKinds == {"handler", "worker", "slow", "emit", "maint", "loss"}

ASSUME NoEventAssumption == NoEvent \notin Events
ASSUME MaxRetriesAssumption == MaxRetries \in Nat
ASSUME MaxFaultsAssumption == MaxFaults \in [FaultKinds -> Nat]
ASSUME FreshAssumption == Fresh \in BOOLEAN

VARIABLES
  now,          \* the clock, in microseconds of no fixed length
  nextId,       \* the next entry ID Redis will assign
  created,      \* created_at of every event in the database, 0: not stored
  unsent,       \* events stored by a request that has not enqueued them yet
  stream,       \* entries of the Redis stream
  lastRead,     \* last-delivered ID of the consumer group
  pending,      \* IDs in the group's pending entries list
  failed,       \* the failed_messages sorted set
  inFlight,     \* the in_flight_tasks sorted set
  checkpoint,   \* the global_checkpoint key
  dbCheckpoint, \* the checkpoint row of the task queue in the database
  worker,       \* what each consumer thread holds
  maint,        \* what each maintenance run holds
  log,          \* every entry ever added to the stream (observation)
  resolved,     \* events handled, or given up on with an event (observation)
  replayFrom,   \* the saved checkpoint the last recovery used (observation)
  faults        \* how often each kind of fault has happened

redisVars == <<nextId, stream, lastRead, pending, failed, inFlight, checkpoint>>
dbVars == <<created, dbCheckpoint, replayFrom>>
vars == <<now, nextId, created, unsent, stream, lastRead, pending, failed,
          inFlight, checkpoint, dbCheckpoint, worker, maint, log, resolved,
          replayFrom, faults>>

-----------------------------------------------------------------------------
(* Data *)

Missing == -1   \* the checkpoint key, or the checkpoint row, does not exist

Bodies == Events \union {NoEvent}

\* An entry of the stream.  orig = 0: the originalEntryID field is absent.
Entry == [id: Nat, ev: Bodies, ts: Nat, retry: Nat, orig: Nat]
NoEntry == [id |-> 0, ev |-> NoEvent, ts |-> 0, retry |-> 0, orig |-> 0]

\* A member of the failed set; by is the processID that wrote it.
FailedMember == [id: Nat, ev: Bodies, retry: Nat, by: {"worker"} \union Maintainers]
NoMember == [id |-> 0, ev |-> NoEvent, retry |-> 0, by |-> "worker"]

\* A member of the in-flight set; done is the ":completed" suffix.
Task == [id: Nat, done: BOOLEAN, score: Nat]

WorkerState ==
  [pc: {"idle", "track", "run", "readRetry", "addFailed", "readMessage",
        "ack", "del", "mark"},
   msg: Entry, err: BOOLEAN, retry: Nat, track: Nat, ts: Nat]
IdleWorker == [pc |-> "idle", msg |-> NoEntry, err |-> FALSE, retry |-> 0,
               track |-> 0, ts |-> 0]

MaintState ==
  [pc: {"idle", "timedOut", "addFailed", "ackMissing", "ack", "del",
        "scanFailed", "retry", "markFailed", "requeue", "restore", "advance",
        "recover", "republish", "resetCheckpoint", "advanceAgain",
        "readCheckpoint", "saveCheckpoint"},
   ids: SUBSET Nat, due: SUBSET FailedMember, evs: SUBSET Events,
   msg: Entry, member: FailedMember, time: Nat, value: Nat]
IdleMaint == [pc |-> "idle", ids |-> {}, due |-> {}, evs |-> {},
              msg |-> NoEntry, member |-> NoMember, time |-> 0, value |-> 0]

\* XRANGE name id id
XRange(id) == {e \in stream : e.id = id}

\* XADD: the entry gets the next ID and goes to the end of the stream.
XAdd(ev, ts, retry, orig) ==
  LET e == [id |-> nextId, ev |-> ev, ts |-> ts, retry |-> retry, orig |-> orig] IN
  /\ stream' = stream \union {e}
  /\ log' = log \union {e}
  /\ nextId' = nextId + 1

\* ZADD in_flight_tasks: a member that is there already gets the new score.
ZAdd(id, done, score) ==
  {t \in inFlight : ~(t.id = id /\ t.done = done)}
    \union {[id |-> id, done |-> done, score |-> score]}

FaultSum ==
  faults["handler"] + faults["worker"] + faults["slow"] + faults["emit"]
    + faults["maint"] + faults["loss"]

Fault(kind) ==
  /\ faults[kind] < MaxFaults[kind] /\ FaultSum < MaxFaultSum
  /\ faults' = [faults EXCEPT ![kind] = @ + 1]

\* Types of the variables.
TypeOK ==
  /\ now \in Nat
  /\ nextId \in Nat \ {0}
  /\ created \in [Events -> Nat]
  /\ unsent \subseteq Events
  /\ stream \subseteq Entry
  /\ lastRead \in Nat
  /\ pending \subseteq Nat
  /\ failed \subseteq FailedMember
  /\ inFlight \subseteq Task
  /\ checkpoint \in Nat \union {Missing}
  /\ dbCheckpoint \in Nat \union {Missing}
  /\ replayFrom \in Nat \union {Missing}
  /\ worker \in [Workers -> WorkerState]
  /\ maint \in [Maintainers -> MaintState]
  /\ log \subseteq Entry
  /\ resolved \subseteq Bodies
  /\ faults \in [FaultKinds -> Nat]

\* Either a new installation, or one whose first maintenance run is over: that
\* run creates the checkpoint key as "0" and saves it.
Init ==
  /\ now = 1
  /\ nextId = 1
  /\ created = [e \in Events |-> 0]
  /\ unsent = {}
  /\ stream = {}
  /\ lastRead = 0
  /\ pending = {}
  /\ failed = {}
  /\ inFlight = {}
  /\ checkpoint = IF Fresh THEN Missing ELSE 0
  /\ dbCheckpoint = IF Fresh THEN Missing ELSE 0
  /\ replayFrom = Missing
  /\ worker = [w \in Workers |-> IdleWorker]
  /\ maint = [m \in Maintainers |-> IdleMaint]
  /\ log = {}
  /\ resolved = {}
  /\ faults = [k \in FaultKinds |-> 0]

-----------------------------------------------------------------------------
(* Producers *)

\* CreateEvent stores the event; the database sets created_at.
CreateEvent(e) ==
  /\ created[e] = 0
  /\ \E t \in {now, now + 1} :
       /\ now' = t
       /\ created' = [created EXCEPT ![e] = t]
  /\ unsent' = unsent \union {e}
  /\ UNCHANGED <<redisVars, dbCheckpoint, replayFrom, worker, maint, log,
                 resolved, faults>>

\* EmitEvent enqueues the event just stored.  The request's copy of the event
\* carries no creation timestamp, so the message gets the current time.
EmitEvent(e) ==
  /\ e \in unsent
  /\ \E t \in {now, now + 1} :
       /\ now' = t
       /\ XAdd(e, t, 0, 0)
  /\ unsent' = unsent \ {e}
  /\ UNCHANGED <<dbVars, lastRead, pending, failed, inFlight, checkpoint,
                 worker, maint, resolved, faults>>

\* The enqueue fails (the error is only logged), or the process dies first.
EmitEventFails(e) ==
  /\ e \in unsent
  /\ Fault("emit")
  /\ unsent' = unsent \ {e}
  /\ UNCHANGED <<now, redisVars, dbVars, worker, maint, log, resolved>>

-----------------------------------------------------------------------------
(* Worker threads: consumeOnce, dispatchTasks and Complete *)

\* XREADGROUP ">": the first entry after the last one the group delivered.
ReadGroup(w) ==
  /\ worker[w].pc = "idle"
  /\ \E e \in stream :
       /\ e.id > lastRead
       /\ \A f \in stream : f.id > lastRead => e.id <= f.id
       /\ lastRead' = e.id
       /\ pending' = pending \union {e.id}
       /\ worker' = [worker EXCEPT ![w] =
                       [IdleWorker EXCEPT !.pc = "track", !.msg = e]]
  /\ UNCHANGED <<now, dbVars, unsent, nextId, stream, failed, inFlight,
                 checkpoint, maint, log, resolved, faults>>

\* addToInFlightTasks: a retry is tracked under the entry ID it names, with
\* the timestamp of the retry.
AddToInFlight(w) ==
  LET e == worker[w].msg IN
  /\ worker[w].pc = "track"
  /\ inFlight' = ZAdd(IF e.orig # 0 THEN e.orig ELSE e.id, FALSE, e.ts)
  /\ worker' = [worker EXCEPT ![w].pc = "run"]
  /\ UNCHANGED <<now, dbVars, unsent, nextId, stream, lastRead, pending, failed,
                 checkpoint, maint, log, resolved, faults>>

\* An error of addToInFlightTasks is logged and the handler runs all the same.
AddToInFlightFails(w) ==
  /\ worker[w].pc = "track"
  /\ Fault("worker")
  /\ worker' = [worker EXCEPT ![w].pc = "run"]
  /\ UNCHANGED <<now, redisVars, dbVars, unsent, maint, log, resolved>>

\* The tasks of the event run and all succeed (or the body is unreadable, which
\* counts as handled); Complete starts with a nil error.
HandlerSucceeds(w) ==
  /\ worker[w].pc = "run"
  /\ resolved' = resolved \union {worker[w].msg.ev}
  /\ worker' = [worker EXCEPT ![w].pc = "readMessage"]
  /\ UNCHANGED <<now, redisVars, dbVars, unsent, maint, log, faults>>

\* A faulty variant of HandlerFails: Complete does not put the message into the failed set.
HandlerFailsUnrecorded(w) ==
  /\ worker[w].pc = "run"
  /\ Fault("handler")
  /\ worker' = [worker EXCEPT ![w].pc = "readMessage", ![w].err = TRUE]
  /\ UNCHANGED <<now, redisVars, dbVars, unsent, maint, log, resolved>>

\* A task fails, or the processing context times out.
HandlerFails(w) ==
  /\ worker[w].pc = "run"
  /\ Fault("handler")
  /\ worker' = [worker EXCEPT ![w].pc = "readRetry", ![w].err = TRUE]
  /\ UNCHANGED <<now, redisVars, dbVars, unsent, maint, log, resolved>>

\* What XRANGE tells Complete about an entry: the fields are absent when the
\* message is gone.
Message(id) == IF XRange(id) = {} THEN {NoEntry} ELSE XRange(id)

\* Complete with an error: the retry count of the message, 0 if it is gone.
CompleteReadRetry(w) ==
  /\ worker[w].pc = "readRetry"
  /\ \E e \in Message(worker[w].msg.id) :
       worker' = [worker EXCEPT ![w] =
                    [@ EXCEPT !.pc = "addFailed", !.retry = e.retry + 1]]
  /\ UNCHANGED <<now, redisVars, dbVars, unsent, maint, log, resolved, faults>>

\* ZADD failed_messages: the member names the entry just read.
CompleteAddFailed(w) ==
  /\ worker[w].pc = "addFailed"
  /\ failed' = failed \union
       {[id |-> worker[w].msg.id, ev |-> worker[w].msg.ev,
         retry |-> worker[w].retry, by |-> "worker"]}
  /\ worker' = [worker EXCEPT ![w].pc = "readMessage"]
  /\ UNCHANGED <<now, dbVars, unsent, nextId, stream, lastRead, pending,
                 inFlight, checkpoint, maint, log, resolved, faults>>

\* A faulty variant of Tracked: the timestamp of a message that is gone is not set.
TrackedUnset(s, e) ==
  [s EXCEPT !.pc = "ack", !.ts = IF e = NoEntry THEN Missing ELSE e.ts,
            !.track = IF e.orig # 0 THEN e.orig ELSE s.msg.id]

\* s after Complete has read message e: originalEntryID, or else the entry's own
\* ID, and the timestamp.
Tracked(s, e) ==
  [s EXCEPT !.pc = "ack", !.ts = e.ts,
            !.track = IF e.orig # 0 THEN e.orig ELSE s.msg.id]

CompleteReadMessage(w) ==
  /\ worker[w].pc = "readMessage"
  /\ \E e \in Message(worker[w].msg.id) :
       worker' = [worker EXCEPT ![w] = Tracked(@, e)]
  /\ UNCHANGED <<now, redisVars, dbVars, unsent, maint, log, resolved, faults>>

\* An XRANGE of Complete fails: it goes on as if the message were gone.
CompleteReadFails(w) ==
  /\ Fault("worker")
  /\ \/ /\ worker[w].pc = "readRetry"
        /\ worker' = [worker EXCEPT ![w] = [@ EXCEPT !.pc = "addFailed", !.retry = 1]]
     \/ /\ worker[w].pc = "readMessage"
        /\ worker' = [worker EXCEPT ![w] = Tracked(@, NoEntry)]
  /\ UNCHANGED <<now, redisVars, dbVars, unsent, maint, log, resolved>>

\* XACK
CompleteAck(w) ==
  /\ worker[w].pc = "ack"
  /\ pending' = pending \ {worker[w].msg.id}
  /\ worker' = [worker EXCEPT ![w].pc = "del"]
  /\ UNCHANGED <<now, dbVars, unsent, nextId, stream, lastRead, failed,
                 inFlight, checkpoint, maint, log, resolved, faults>>

\* A faulty variant of CompleteDel: a failed task is marked complete as well.
CompleteDelMarksFailed(w) ==
  /\ worker[w].pc = "del"
  /\ stream' = stream \ XRange(worker[w].msg.id)
  /\ worker' = [worker EXCEPT ![w].pc = "mark"]
  /\ UNCHANGED <<now, dbVars, unsent, nextId, lastRead, pending, failed,
                 inFlight, checkpoint, maint, log, resolved, faults>>

\* XDEL; after a failure this is the end of Complete.
CompleteDel(w) ==
  /\ worker[w].pc = "del"
  /\ stream' = stream \ XRange(worker[w].msg.id)
  /\ worker' = [worker EXCEPT ![w] = IF @.err THEN IdleWorker
                                     ELSE [@ EXCEPT !.pc = "mark"]]
  /\ UNCHANGED <<now, dbVars, unsent, nextId, lastRead, pending, failed,
                 inFlight, checkpoint, maint, log, resolved, faults>>

\* The script that replaces the member of a task by its completed member.
MarkComplete(id, ts) ==
  inFlight' = {t \in ZAdd(id, TRUE, ts) : ~(t.id = id /\ ~t.done)}

CompleteMark(w) ==
  /\ worker[w].pc = "mark"
  /\ MarkComplete(worker[w].track, worker[w].ts)
  /\ worker' = [worker EXCEPT ![w] = IdleWorker]
  /\ UNCHANGED <<now, dbVars, unsent, nextId, stream, lastRead, pending, failed,
                 checkpoint, maint, log, resolved, faults>>

\* The thread dies, or a command of Complete that writes fails: the error ends
\* Complete (the failure to mark a task is only logged), and the thread goes
\* on to the next message.
WorkerFault(w) ==
  /\ worker[w].pc # "idle"
  /\ Fault("worker")
  /\ worker' = [worker EXCEPT ![w] = IdleWorker]
  /\ UNCHANGED <<now, redisVars, dbVars, unsent, maint, log, resolved>>

-----------------------------------------------------------------------------
(* Queue maintenance: Execute calls processTimedOutMessages,               *)
(* retryFailedMessages, advanceCheckpoint and syncCheckpointToDatabase.    *)

\* Entries a live thread is still working on.
Held == {worker[w].msg.id : w \in {v \in Workers : worker[v].pc # "idle"}}

\* XPENDING: the entries idle for longer than the processing timeout.  That
\* includes one a thread still holds only if the thread is slow.
StartMaintenance(m, ids) ==
  /\ maint[m].pc = "idle"
  /\ ids \subseteq pending
  /\ \/ ids \intersect Held = {} /\ UNCHANGED faults
     \/ \E id \in Held : ids \intersect Held = {id} /\ Fault("slow")
  /\ maint' = [maint EXCEPT ![m] =
                 [IdleMaint EXCEPT !.pc = IF ids = {} THEN "scanFailed" ELSE "timedOut",
                                   !.ids = ids]]
  /\ UNCHANGED <<now, redisVars, dbVars, unsent, worker, log, resolved>>

\* The loop over the timed out entries goes on with the others.
NextTimedOut(s) ==
  [s EXCEPT !.pc = IF s.ids = {} THEN "scanFailed" ELSE "timedOut", !.msg = NoEntry]

\* XRANGE of the next timed out entry, in ID order.
TimedOutRead(m) ==
  /\ maint[m].pc = "timedOut"
  /\ \E id \in maint[m].ids :
       /\ \A j \in maint[m].ids : id <= j
       /\ \/ /\ XRange(id) = {}
             /\ maint' = [maint EXCEPT ![m].pc = "ackMissing",
                            ![m].ids = @ \ {id}, ![m].msg = [NoEntry EXCEPT !.id = id]]
          \/ \E e \in XRange(id) :
               maint' = [maint EXCEPT ![m].pc = "addFailed",
                           ![m].ids = @ \ {id}, ![m].msg = e]
  /\ UNCHANGED <<now, redisVars, dbVars, unsent, worker, log, resolved, faults>>

\* The entry is gone from the stream: acknowledge it.
TimedOutAckMissing(m) ==
  /\ maint[m].pc = "ackMissing"
  /\ pending' = pending \ {maint[m].msg.id}
  /\ maint' = [maint EXCEPT ![m] = NextTimedOut(@)]
  /\ UNCHANGED <<now, dbVars, unsent, nextId, stream, lastRead, failed,
                 inFlight, checkpoint, worker, log, resolved, faults>>

\* A faulty variant of TimedOutAddFailed: the entry is deleted and never acknowledged.
TimedOutWithoutAck(m) ==
  /\ maint[m].pc = "addFailed"
  /\ failed' = failed \union
       {[id |-> maint[m].msg.id, ev |-> maint[m].msg.ev,
         retry |-> maint[m].msg.retry + 1, by |-> m]}
  /\ maint' = [maint EXCEPT ![m].pc = "del"]
  /\ UNCHANGED <<now, dbVars, unsent, nextId, stream, lastRead, pending,
                 inFlight, checkpoint, worker, log, resolved, faults>>

\* ZADD failed_messages for the timed out entry.
TimedOutAddFailed(m) ==
  /\ maint[m].pc = "addFailed"
  /\ failed' = failed \union
       {[id |-> maint[m].msg.id, ev |-> maint[m].msg.ev,
         retry |-> maint[m].msg.retry + 1, by |-> m]}
  /\ maint' = [maint EXCEPT ![m].pc = "ack"]
  /\ UNCHANGED <<now, dbVars, unsent, nextId, stream, lastRead, pending,
                 inFlight, checkpoint, worker, log, resolved, faults>>

TimedOutAck(m) ==
  /\ maint[m].pc = "ack"
  /\ pending' = pending \ {maint[m].msg.id}
  /\ maint' = [maint EXCEPT ![m].pc = "del"]
  /\ UNCHANGED <<now, dbVars, unsent, nextId, stream, lastRead, failed,
                 inFlight, checkpoint, worker, log, resolved, faults>>

TimedOutDel(m) ==
  /\ maint[m].pc = "del"
  /\ stream' = stream \ XRange(maint[m].msg.id)
  /\ maint' = [maint EXCEPT ![m] = NextTimedOut(@)]
  /\ UNCHANGED <<now, dbVars, unsent, nextId, lastRead, pending, failed,
                 inFlight, checkpoint, worker, log, resolved, faults>>

\* RetryFailedMessages reads the members whose backoff has elapsed, and the
\* Redis time that the retried messages will carry.
ScanFailed(m, due) ==
  /\ maint[m].pc = "scanFailed"
  /\ due \subseteq failed
  /\ now' = IF due = {} THEN now ELSE now + 1
  /\ maint' = [maint EXCEPT ![m] =
                 [IdleMaint EXCEPT !.pc = IF due = {} THEN "advance" ELSE "retry",
                                   !.due = due, !.time = now']]
  /\ UNCHANGED <<redisVars, dbVars, unsent, worker, log, resolved, faults>>

\* The loop over the failed members goes on with those in due.
NextRetry(s, due) ==
  [s EXCEPT !.pc = IF due = {} THEN "advance" ELSE "retry", !.due = due,
            !.member = NoMember]

\* Out of retries: the handler reports a permanent failure, ZREM drops the
\* member whether or not another process has dropped it first.
GiveUp(m) ==
  /\ maint[m].pc = "retry"
  /\ \E f \in maint[m].due :
       /\ f.retry >= MaxRetries
       /\ failed' = failed \ {f}
       /\ resolved' = resolved \union {f.ev}
       /\ maint' = [maint EXCEPT ![m].pc = "markFailed", ![m].due = @ \ {f},
                                 ![m].member = f]
  /\ UNCHANGED <<now, dbVars, unsent, nextId, stream, lastRead, pending,
                 inFlight, checkpoint, worker, log, faults>>

\* The ZREM fails: the task is marked complete and the member stays.
GiveUpRemoveFails(m) ==
  /\ maint[m].pc = "retry"
  /\ Fault("maint")
  /\ \E f \in maint[m].due :
       /\ f.retry >= MaxRetries
       /\ resolved' = resolved \union {f.ev}
       /\ maint' = [maint EXCEPT ![m].pc = "markFailed", ![m].due = @ \ {f},
                                 ![m].member = f]
  /\ UNCHANGED <<now, redisVars, dbVars, unsent, worker, log>>

\* The task it was tracked under is marked complete with the current time.
GiveUpMark(m) ==
  /\ maint[m].pc = "markFailed"
  /\ now' = now + 1
  /\ MarkComplete(maint[m].member.id, now')
  /\ maint' = [maint EXCEPT ![m] = NextRetry(@, @.due)]
  /\ UNCHANGED <<dbVars, unsent, nextId, stream, lastRead, pending, failed,
                 checkpoint, worker, log, resolved, faults>>

\* ZREM claims the member; 0 removed means another process has claimed it.
Claim(m) ==
  /\ maint[m].pc = "retry"
  /\ \E f \in maint[m].due :
       /\ f.retry < MaxRetries
       /\ failed' = failed \ {f}
       /\ \/ /\ f \in failed
             /\ maint' = [maint EXCEPT ![m].pc = "requeue", ![m].due = @ \ {f},
                                       ![m].member = f]
          \/ /\ f \notin failed
             /\ maint' = [maint EXCEPT ![m] = NextRetry(@, @.due \ {f})]
  /\ UNCHANGED <<now, dbVars, unsent, nextId, stream, lastRead, pending,
                 inFlight, checkpoint, worker, log, resolved, faults>>

\* XADD of the retry, which names the entry ID of the failed member.
Requeue(m) ==
  LET f == maint[m].member IN
  /\ maint[m].pc = "requeue"
  /\ XAdd(f.ev, maint[m].time, f.retry, f.id)
  /\ maint' = [maint EXCEPT ![m] = NextRetry(@, @.due)]
  /\ UNCHANGED <<now, dbVars, unsent, lastRead, pending, failed, inFlight,
                 checkpoint, worker, resolved, faults>>

\* The XADD failed: put the member back.
Restore(m) ==
  /\ maint[m].pc = "restore"
  /\ failed' = failed \union {maint[m].member}
  /\ maint' = [maint EXCEPT ![m] = NextRetry(@, @.due)]
  /\ UNCHANGED <<now, dbVars, unsent, nextId, stream, lastRead, pending,
                 inFlight, checkpoint, worker, log, resolved, faults>>

\* ZRANGE order: by score, then by member; "x" comes before "x:completed".
Precedes(s, t) ==
  \/ s.score < t.score
  \/ s.score = t.score /\ s.id < t.id
  \/ s.score = t.score /\ s.id = t.id /\ ~s.done /\ t.done

\* A faulty variant of SafeTimestamps: the script does not stop at an incomplete task.
CompletedTimestamps == {t.score : t \in {c \in inFlight : c.done}}

\* Scores of the completed tasks that the script meets before an incomplete one.
SafeTimestamps ==
  {t.score : t \in {c \in inFlight :
     c.done /\ \A b \in inFlight : ~b.done => Precedes(c, b)}}

\* AdvanceCheckpointAndCleanup: the last safe timestamp, if it is newer, becomes
\* the checkpoint and the completed tasks up to it are removed.
AdvanceScript ==
  \/ /\ \E safe \in SafeTimestamps :
          /\ \A t \in SafeTimestamps : t <= safe
          /\ safe > checkpoint
          /\ checkpoint' = safe
          /\ inFlight' = {t \in inFlight : ~(t.done /\ t.score <= safe)}
  \/ /\ \A t \in SafeTimestamps : t <= checkpoint
     /\ UNCHANGED <<checkpoint, inFlight>>

AdvanceCheckpoint(m) ==
  /\ maint[m].pc \in {"advance", "advanceAgain"}
  /\ checkpoint # Missing
  /\ AdvanceScript
  /\ maint' = [maint EXCEPT ![m] = [IdleMaint EXCEPT !.pc = "readCheckpoint"]]
  /\ UNCHANGED <<now, dbVars, unsent, nextId, stream, lastRead, pending, failed,
                 worker, log, resolved, faults>>

\* The key is missing: recover first, but only once in a run.
CheckpointMissing(m) ==
  /\ maint[m].pc \in {"advance", "advanceAgain"}
  /\ checkpoint = Missing
  /\ maint' = [maint EXCEPT ![m] = [IdleMaint EXCEPT
                 !.pc = IF maint[m].pc = "advance" THEN "recover" ELSE "readCheckpoint"]]
  /\ UNCHANGED <<now, redisVars, dbVars, unsent, worker, log, resolved, faults>>

\* A faulty variant of EventsSince: the selector is metadata.creationTimestamp>since.
EventsAfter(since) == {e \in Events : created[e] # 0 /\ created[e] > since}

\* ListEvents with the selector metadata.creationTimestamp>=since
EventsSince(since) == {e \in Events : created[e] # 0 /\ created[e] >= since}

\* A faulty variant of Replayed: a checkpoint saved as zero counts as none.
ReplayedUnlessZero ==
  IF dbCheckpoint \in {Missing, 0} THEN {} ELSE EventsSince(dbCheckpoint)

\* The events to republish; none when no checkpoint was ever saved.
Replayed == IF dbCheckpoint = Missing THEN {} ELSE EventsSince(dbCheckpoint)

\* recoverFromMissingCheckpoint
Recover(m) ==
  /\ maint[m].pc = "recover"
  /\ replayFrom' = dbCheckpoint
  /\ maint' = [maint EXCEPT ![m].evs = Replayed,
                 ![m].pc = IF Replayed = {} THEN "resetCheckpoint" ELSE "republish"]
  /\ UNCHANGED <<now, redisVars, created, dbCheckpoint, unsent, worker, log,
                 resolved, faults>>

NextRepublish(s, e) ==
  [s EXCEPT !.evs = @ \ {e},
            !.pc = IF s.evs = {e} THEN "resetCheckpoint" ELSE "republish"]

Oldest(evs) == {e \in evs : \A f \in evs : created[e] <= created[f]}

\* republishSingleEvent, oldest first; the message carries created_at.
Republish(m) ==
  /\ maint[m].pc = "republish"
  /\ \E e \in Oldest(maint[m].evs) :
       /\ XAdd(e, created[e], 0, 0)
       /\ maint' = [maint EXCEPT ![m] = NextRepublish(@, e)]
  /\ UNCHANGED <<now, dbVars, unsent, lastRead, pending, failed, inFlight,
                 checkpoint, worker, resolved, faults>>

\* SetCheckpointTimestamp(zero time)
ResetCheckpoint(m) ==
  /\ maint[m].pc = "resetCheckpoint"
  /\ checkpoint' = 0
  /\ maint' = [maint EXCEPT ![m].pc = "advanceAgain"]
  /\ UNCHANGED <<now, dbVars, unsent, nextId, stream, lastRead, pending, failed,
                 inFlight, worker, log, resolved, faults>>

\* GetLatestProcessedTimestamp: time.UnixMicro(0) is not the zero time, so a
\* checkpoint of "0" is saved like any other.
ReadCheckpoint(m) ==
  /\ maint[m].pc = "readCheckpoint"
  /\ maint' = [maint EXCEPT ![m] =
                 IF checkpoint = Missing THEN IdleMaint
                 ELSE [@ EXCEPT !.pc = "saveCheckpoint", !.value = checkpoint]]
  /\ UNCHANGED <<now, redisVars, dbVars, unsent, worker, log, resolved, faults>>

SaveCheckpoint(m) ==
  /\ maint[m].pc = "saveCheckpoint"
  /\ dbCheckpoint' = maint[m].value
  /\ maint' = [maint EXCEPT ![m] = IdleMaint]
  /\ UNCHANGED <<now, redisVars, created, replayFrom, unsent, worker, log,
                 resolved, faults>>

\* The command a maintenance run is at fails: most errors are logged and the
\* loop goes on.  A failed XRANGE acknowledges the entry; when the events of an
\* organization cannot be listed, its replay ends there.
MaintCallFails(m) ==
  LET s == maint[m]
      GoOnAs(t) == maint' = [maint EXCEPT ![m] = t]
  IN
  /\ Fault("maint")
  /\ \/ s.pc \in {"ackMissing", "addFailed", "ack", "del"} /\ GoOnAs(NextTimedOut(s))
     \/ /\ s.pc = "timedOut"
        /\ \E id \in s.ids :
             /\ \A j \in s.ids : id <= j
             /\ GoOnAs([s EXCEPT !.pc = "ackMissing", !.ids = s.ids \ {id},
                                 !.msg = [NoEntry EXCEPT !.id = id]])
     \/ s.pc = "scanFailed" /\ GoOnAs([IdleMaint EXCEPT !.pc = "advance"])
     \/ /\ s.pc = "retry"
        /\ \E f \in s.due :
             f.retry < MaxRetries /\ GoOnAs(NextRetry(s, s.due \ {f}))
     \/ s.pc = "requeue" /\ GoOnAs([s EXCEPT !.pc = "restore"])
     \/ s.pc \in {"restore", "markFailed"} /\ GoOnAs(NextRetry(s, s.due))
     \/ /\ s.pc \in {"advance", "recover", "resetCheckpoint", "advanceAgain"}
        /\ GoOnAs([IdleMaint EXCEPT !.pc = "readCheckpoint"])
     \/ s.pc = "republish" /\ \E e \in Oldest(s.evs) : GoOnAs(NextRepublish(s, e))
     \/ /\ s.pc \in {"recover", "republish"}
        /\ GoOnAs([IdleMaint EXCEPT !.pc = "resetCheckpoint"])
     \/ s.pc \in {"readCheckpoint", "saveCheckpoint"} /\ GoOnAs(IdleMaint)
  /\ UNCHANGED <<now, redisVars, dbVars, unsent, worker, log, resolved>>

MaintCrash(m) ==
  /\ maint[m].pc # "idle"
  /\ Fault("maint")
  /\ maint' = [maint EXCEPT ![m] = IdleMaint]
  /\ UNCHANGED <<now, redisVars, dbVars, unsent, worker, log, resolved>>

\* Redis loses its data.  The next read or maintenance run recreates the
\* stream and the group; IDs come from the clock and are never reused.
RedisLoss ==
  /\ Fault("loss")
  /\ stream' = {}
  /\ lastRead' = 0
  /\ pending' = {}
  /\ failed' = {}
  /\ inFlight' = {}
  /\ checkpoint' = Missing
  /\ UNCHANGED <<now, nextId, dbVars, unsent, worker, maint, log, resolved>>

-----------------------------------------------------------------------------

Producer(e) == CreateEvent(e) \/ EmitEvent(e) \/ EmitEventFails(e)

WorkerStep(w) ==
  \/ ReadGroup(w) \/ AddToInFlight(w) \/ HandlerSucceeds(w)
  \/ CompleteReadRetry(w) \/ CompleteAddFailed(w) \/ CompleteReadMessage(w)
  \/ CompleteAck(w) \/ CompleteDel(w) \/ CompleteMark(w)

MaintStep(m) ==
  \/ TimedOutRead(m) \/ TimedOutAckMissing(m) \/ TimedOutAddFailed(m)
  \/ TimedOutAck(m) \/ TimedOutDel(m)
  \/ GiveUp(m) \/ GiveUpMark(m) \/ Claim(m) \/ Requeue(m) \/ Restore(m)
  \/ AdvanceCheckpoint(m) \/ CheckpointMissing(m) \/ Recover(m)
  \/ Republish(m) \/ ResetCheckpoint(m) \/ ReadCheckpoint(m) \/ SaveCheckpoint(m)

Next ==
  \/ \E e \in Events : Producer(e)
  \/ \E w \in Workers :
       \/ WorkerStep(w) \/ AddToInFlightFails(w) \/ HandlerFails(w)
       \/ CompleteReadFails(w) \/ WorkerFault(w)
  \/ \E m \in Maintainers :
       \/ \E ids \in SUBSET pending : StartMaintenance(m, ids)
       \/ \E due \in SUBSET failed : ScanFailed(m, due)
       \/ MaintStep(m) \/ GiveUpRemoveFails(m) \/ MaintCallFails(m) \/ MaintCrash(m)
  \/ RedisLoss

Spec == Init /\ [][Next]_vars

\* Threads and maintenance runs keep running.  A pending entry that no thread
\* holds goes over the idle limit, and every backoff elapses, by the time of
\* some later scan.
Fairness ==
  /\ \A e \in Events : WF_vars(EmitEvent(e))
  /\ \A w \in Workers : WF_vars(WorkerStep(w))
  /\ \A m \in Maintainers :
       /\ WF_vars(MaintStep(m))
       /\ WF_vars(\E ids \in SUBSET pending : StartMaintenance(m, ids))
       /\ WF_vars(\E due \in SUBSET failed : ScanFailed(m, due))
       /\ SF_vars(StartMaintenance(m, pending \ Held))
       /\ SF_vars(ScanFailed(m, failed))

FairSpec == Spec /\ Fairness

-----------------------------------------------------------------------------
(* Properties *)

\* The group has not delivered entry x yet, or waits for its acknowledgement.
Live(x) == x.id > lastRead \/ x.id \in pending

\* The queue would still deliver event e: an entry of the stream, a member of the
\* failed set, or a member that a maintenance run has claimed and not yet put back.
InQueue(e) ==
  \/ \E x \in stream : x.ev = e /\ Live(x)
  \/ \E f \in failed : f.ev = e
  \/ \E m \in Maintainers :
       maint[m].pc \in {"requeue", "restore"} /\ maint[m].member.ev = e

\* Events that reached the stream.
Sent == {x.ev : x \in log}

\* Redis has kept its data and no command of a maintenance run has failed.
Quiet == faults["loss"] = 0 /\ faults["maint"] = 0

\* At-least-once delivery ("Failed messages preserved in sorted set for retry",
\* "Pending messages automatically tracked"): as long as Redis keeps its data and
\* no command of a maintenance run fails, an event that reached the stream is
\* handled, given up on, or still somewhere in the queue, whatever worker threads
\* die at whatever command and whatever messages time out under a live thread.
NothingLost ==
  Quiet => \A e \in Sent : e \in resolved \/ InQueue(e)

\* Why nothing is lost: a message of event e other than the entry with ID i takes
\* over from it.  What replaces an entry is a failed member that names it or a later
\* entry, so the chain of replacements cannot close into a circle.
Cover(e, i) ==
  \/ e \in resolved
  \/ \E x \in stream : x.ev = e /\ x.id > i /\ Live(x)
  \/ \E f \in failed : f.ev = e /\ f.id >= i
  \/ \E m \in Maintainers : /\ maint[m].pc \in {"requeue", "restore"}
                            /\ maint[m].member.ev = e
                            /\ maint[m].member.id >= i

\* Entry IDs are unique and grow, and what threads and maintenance runs hold are
\* entries that the group has delivered.
EntriesConsistent ==
  /\ \A x \in log : 0 < x.id /\ x.id < nextId
  /\ \A x, y \in log : x.id = y.id => x = y
  /\ stream \subseteq log
  /\ \A i \in pending : i <= lastRead
  /\ lastRead < nextId
  /\ \A w \in Workers : worker[w].pc # "idle" => worker[w].msg \in log
  /\ \A m \in Maintainers :
       /\ \A i \in maint[m].ids : i < nextId
       /\ maint[m].pc = "ackMissing" => maint[m].msg.id < nextId
       /\ maint[m].pc \in {"addFailed", "ack", "del"} => maint[m].msg \in log

\* Failed members name entries that were in the stream.
MembersConsistent ==
  /\ \A f \in failed : f.id < nextId
  /\ \A m \in Maintainers : /\ \A f \in maint[m].due : f.id < nextId
                            /\ maint[m].member.id < nextId

\* The steps that acknowledge an entry come after the one that makes it dispensable,
\* and its deletion after the acknowledgement.
Handover ==
  /\ \A x \in log : (x \in stream /\ Live(x)) \/ Cover(x.ev, x.id)
  /\ \A w \in Workers :
       /\ worker[w].pc # "idle" => worker[w].msg.id <= lastRead
       /\ worker[w].pc \in {"readMessage", "ack"} /\ worker[w].msg.id \in pending
            => Cover(worker[w].msg.ev, worker[w].msg.id)
       /\ worker[w].pc = "del" => worker[w].msg.id \notin pending
  /\ \A m \in Maintainers :
       /\ \A i \in maint[m].ids : i <= lastRead
       /\ maint[m].pc \in {"ackMissing", "addFailed", "ack", "del"} =>
            maint[m].msg.id <= lastRead
       /\ maint[m].pc = "ackMissing" => XRange(maint[m].msg.id) = {}
       /\ maint[m].pc = "ack" /\ maint[m].msg.id \in pending
            => Cover(maint[m].msg.ev, maint[m].msg.id)
       /\ maint[m].pc = "del" => maint[m].msg.id \notin pending

\* Complete and ProcessTimedOutMessages write the failed member before they
\* acknowledge an entry and acknowledge before they delete, in every interleaving of
\* threads that die or lag and of maintenance runs: the inductive invariant behind
\* NothingLost.
DeliveryInv == EntriesConsistent /\ MembersConsistent /\ (Quiet => Handover)

\* The same promise when a command of a maintenance run may fail, or the run may
\* die, between two commands.
FailedMessagesPreserved ==
  faults["loss"] = 0 => \A e \in Sent : e \in resolved \/ InQueue(e)

\* recoverFromMissingCheckpoint: once the checkpoint key is back after Redis lost
\* its data, every event that had reached the stream, is not dealt with and is not
\* older than the saved checkpoint it replayed from is in the queue again.
ReplayComplete ==
  faults["maint"] = 0 /\ checkpoint # Missing =>
    \A e \in Sent : \/ e \in resolved
                    \/ created[e] < replayFrom
                    \/ InQueue(e)

\* "Failed tasks remain unmarked to act as checkpoint barriers": while no thread
\* dies or lags, an event waiting in the failed set has a task in the in-flight
\* set that is not marked complete, through every retry.
FailedTaskIsBarrier ==
  faults["worker"] + faults["slow"] + faults["maint"] + faults["loss"] = 0 =>
    \A f \in failed : \E t \in inFlight :
      ~t.done /\ \E x \in log : x.id = t.id /\ x.ev = f.ev

\* AdvanceCheckpointAndCleanup: the checkpoint only moves forward (losing the key
\* apart), never past an incomplete task of the in-flight set, and the clean-up
\* removes no incomplete task.
CheckpointAdvances ==
  [][checkpoint' # checkpoint /\ checkpoint' # Missing =>
       /\ checkpoint' > checkpoint
       /\ checkpoint # Missing =>
            \A t \in inFlight : ~t.done => t \in inFlight' /\ t.score >= checkpoint'
    ]_vars

\* "Represents latest timestamp where all prior tasks are completed": a message of
\* an event that is not dealt with is never older than the checkpoint.
CheckpointBehindTasks ==
  \A x \in log : x.orig = 0 /\ x.ev \notin resolved => checkpoint <= x.ts

\* "Global checkpoint ensures no message loss during failures": a replay from the
\* checkpoint would include every event that is not dealt with.
CheckpointBehindEvents ==
  \A e \in Events : created[e] # 0 /\ e \notin resolved => checkpoint <= created[e]

\* "If permanently failed (max retries): mark as completed to allow progress": when
\* an event is dealt with, nothing of it is left in the queue and nobody is working
\* on it, no incomplete task of it holds the checkpoint back.
BarrierReleased ==
  \A t \in inFlight : \A x \in log :
    /\ ~t.done /\ x.id = t.id /\ x.ev \in resolved /\ ~InQueue(x.ev)
    /\ \A w \in Workers : worker[w].msg.ev # x.ev
    /\ \A m \in Maintainers : maint[m].member.ev # x.ev
    => faults["worker"] + faults["maint"] + faults["loss"] > 0

\* Every stored event is dealt with in the end: the workers, the retries and, after
\* Redis has lost its data, the replay see to it, as long as no maintenance run dies
\* or has a command fail (FailedMessagesPreserved is about those).
EventuallyResolved ==
  \A e \in Events : (created[e] # 0) ~> (e \in resolved \/ faults["maint"] > 0)

-----------------------------------------------------------------------------
(* What the queue promises its users, seen without streams, sets and runs. *)

Delivery == INSTANCE EventDelivery
              WITH sent <- Sent, queued <- {e \in Events : InQueue(e)},
                   done <- resolved, up <- Quiet

\* The queue implements at-least-once delivery: in every interleaving of threads,
\* maintenance runs and faults an event leaves the stream and the failed set only
\* once it is handled or given up on, as long as Redis keeps its data and no
\* command of a maintenance run fails.
DeliversEvents == Delivery!Spec
=============================================================================
