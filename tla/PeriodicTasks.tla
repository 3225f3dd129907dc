----------------------------- MODULE PeriodicTasks -----------------------------
(***************************************************************************)
(* The periodic checker (internal/periodic_checker): the publisher's        *)
(* scheduling loop and organization sync, which share the heap of scheduled  *)
(* tasks and the organizations under one mutex, the buffered channel, and    *)
(* the consumers.  A step is one critical section, or one channel operation. *)
(* One task type per organization stands for all: types share nothing but    *)
(* the heap.  NextRun is kept as the time left, and stops at 0: among overdue *)
(* tasks the order of the sequence is the order of their NextRun.            *)
(***************************************************************************)
EXTENDS Integers, FiniteSets, Sequences, SequencesExt

CONSTANTS Orgs,          \* organizations there may be
          SystemTasks,   \* system-wide tasks, scheduled under the nil organization
          NoTask,
          Interval,      \* of every task
          Backoffs,      \* what calculateBackoffDelay may answer
          BufferSize,    \* of the task channel
          Consumers,
          MaxChanges     \* changes of the list of organizations

ASSUME PeriodicAssumption ==
    /\ Interval \in Nat \ {0} /\ Backoffs \subseteq Nat \ {0} /\ BufferSize \in Nat \ {0}
    /\ Orgs \cap SystemTasks = {} /\ NoTask \notin Orgs \cup SystemTasks

VARIABLES listed,    \* organizations of the service, external
          organizations,
          taskHeap,  \* scheduled tasks [task, left], by NextRun
          wakeup,    \* the wakeup channel, of capacity 1, holds a signal
          loop,      \* the scheduling loop
          sync,      \* the organization sync
          channel,   \* task references published and not yet taken
          consumer,  \* the task each consumer executes
          env        \* changes made; organizations removed while their task was out
vars == <<listed, organizations, taskHeap, wakeup, loop, sync, channel, consumer, env>>

Tasks == Orgs \cup SystemTasks

(* A faulty variant: the task is put first, and not moved to its place. *)
PushedFirst(h, e) == {<<e>> \o h}

(* heap.Push: where NextRun belongs; tasks due at the same time in any order. *)
Pushed(h, e) ==
    {InsertAt(h, k, e) : k \in {i \in 1..(Len(h) + 1) :
        /\ \A j \in 1..(i - 1) : h[j].left <= e.left
        /\ \A j \in i..Len(h) : h[j].left >= e.left /\ h[j].left > 0}}

--------------------------------------------------------------------------------
(* Time. *)
Left(n) == IF n > 0 THEN n - 1 ELSE 0
Tick ==
    /\ loop.timer > 0 \/ \E i \in DOMAIN taskHeap : taskHeap[i].left > 0
    /\ taskHeap' = [i \in DOMAIN taskHeap |-> [taskHeap[i] EXCEPT !.left = Left(@)]]
    /\ loop' = [loop EXCEPT !.timer = Left(@)]
    /\ UNCHANGED <<listed, organizations, wakeup, sync, channel, consumer, env>>

--------------------------------------------------------------------------------
(* schedulingLoop. *)
AtPeek == [pc |-> "peek", task |-> NoTask, timer |-> 0, next |-> 0]

(* The first task decides: none, wait for a wakeup; ready, publish; else a timer. *)
Peek ==
    /\ loop.pc = "peek"
    /\ loop' = IF taskHeap = <<>> THEN [AtPeek EXCEPT !.pc = "wait"]
               ELSE IF Head(taskHeap).left = 0 THEN [AtPeek EXCEPT !.pc = "pop"]
               ELSE [AtPeek EXCEPT !.pc = "timer", !.timer = Head(taskHeap).left]
    /\ UNCHANGED <<listed, organizations, taskHeap, wakeup, sync, channel, consumer, env>>

(* waitForWakeup, waitForTaskReadyOrWakeup. *)
WokenUp ==
    /\ loop.pc \in {"wait", "timer"} /\ wakeup
    /\ wakeup' = FALSE
    /\ loop' = [AtPeek EXCEPT !.pc = "pop"]
    /\ UNCHANGED <<listed, organizations, taskHeap, sync, channel, consumer, env>>

TimerFires ==
    /\ loop.pc = "timer" /\ loop.timer = 0
    /\ loop' = [AtPeek EXCEPT !.pc = "pop"]
    /\ UNCHANGED <<listed, organizations, taskHeap, wakeup, sync, channel, consumer, env>>

(* publishReadyTasks: getNextReadyTask, isOrgRegistered, publishTask, and           *)
(* rescheduleTask or rescheduleTaskRetry, until no task is ready.                   *)
GetNextReadyTask ==
    /\ loop.pc = "pop"
    /\ IF taskHeap = <<>> \/ Head(taskHeap).left > 0
       THEN loop' = AtPeek /\ UNCHANGED taskHeap
       ELSE /\ loop' = [AtPeek EXCEPT !.pc = "check", !.task = Head(taskHeap).task]
            /\ taskHeap' = Tail(taskHeap)
    /\ UNCHANGED <<listed, organizations, wakeup, sync, channel, consumer, env>>

IsOrgRegistered ==
    /\ loop.pc = "check"
    /\ loop' = IF loop.task \in SystemTasks \cup organizations
               THEN [loop EXCEPT !.pc = "publish"] ELSE [AtPeek EXCEPT !.pc = "pop"]
    /\ UNCHANGED <<listed, organizations, taskHeap, wakeup, sync, channel, consumer, env>>

(* ChannelManager.PublishTask fails at once when the channel is full. *)
PublishTask ==
    /\ loop.pc = "publish"
    /\ IF Len(channel) < BufferSize
       THEN /\ channel' = Append(channel, loop.task)
            /\ loop' = [loop EXCEPT !.pc = "push", !.next = Interval]
       ELSE /\ UNCHANGED channel
            /\ \E b \in Backoffs : loop' = [loop EXCEPT !.pc = "push", !.next = b]
    /\ UNCHANGED <<listed, organizations, taskHeap, wakeup, sync, consumer, env>>

(* A faulty variant: only a task that was published is scheduled again. *)
ReschedulePublished ==
    /\ loop.pc = "push"
    /\ IF loop.next = Interval
       THEN taskHeap' \in Pushed(taskHeap, [task |-> loop.task, left |-> loop.next])
       ELSE UNCHANGED taskHeap
    /\ loop' = [AtPeek EXCEPT !.pc = "pop"]
    /\ UNCHANGED <<listed, organizations, wakeup, sync, channel, consumer, env>>

Reschedule ==
    /\ loop.pc = "push"
    /\ taskHeap' \in Pushed(taskHeap, [task |-> loop.task, left |-> loop.next])
    /\ loop' = [AtPeek EXCEPT !.pc = "pop"]
    /\ UNCHANGED <<listed, organizations, wakeup, sync, channel, consumer, env>>

--------------------------------------------------------------------------------
(* organizationSyncLoop. *)
AtRest == [pc |-> "rest", toAdd |-> {}, toRemove |-> {}]
Stagger == 0..(Interval \div 2)

ChangeOrgs(o) ==
    /\ env.changes < MaxChanges
    /\ listed' = IF o \in listed THEN listed \ {o} ELSE listed \cup {o}
    /\ env' = [env EXCEPT !.changes = @ + 1]
    /\ UNCHANGED <<organizations, taskHeap, wakeup, loop, sync, channel, consumer>>

(* syncOrganizations: a list that fails changes nothing; diffOrganizations takes the *)
(* new organizations over before their tasks are there.                              *)
DiffOrganizations ==
    /\ sync.pc = "rest" /\ listed # organizations
    /\ organizations' = listed
    /\ sync' = [pc |-> "apply", toAdd |-> listed \ organizations,
                toRemove |-> organizations \ listed]
    /\ UNCHANGED <<listed, taskHeap, wakeup, loop, channel, consumer, env>>

AddOrganizationTasks(o) ==
    /\ o \in sync.toAdd
    /\ \E n \in Stagger : taskHeap' \in Pushed(taskHeap, [task |-> o, left |-> n])
    /\ wakeup' = TRUE
    /\ sync' = IF sync.toAdd = {o} /\ sync.toRemove = {} THEN AtRest
               ELSE [sync EXCEPT !.toAdd = @ \ {o}]
    /\ UNCHANGED <<listed, organizations, loop, channel, consumer, env>>

(* A faulty variant: the tasks of removed organizations are left to isOrgRegistered. *)
RemoveOrganizationTasksLater ==
    /\ sync.pc = "apply" /\ sync.toAdd = {} /\ sync.toRemove # {}
    /\ wakeup' = TRUE
    /\ sync' = AtRest
    /\ UNCHANGED <<listed, organizations, taskHeap, loop, channel, consumer, env>>

RemoveOrganizationTasks ==
    /\ sync.pc = "apply" /\ sync.toAdd = {} /\ sync.toRemove # {}
    /\ taskHeap' = SelectSeq(taskHeap, LAMBDA e : e.task \notin sync.toRemove)
    /\ wakeup' = TRUE
    /\ sync' = AtRest
    /\ env' = [env EXCEPT !.raced = @ \cup (sync.toRemove \cap {loop.task})]
    /\ UNCHANGED <<listed, organizations, loop, channel, consumer>>

--------------------------------------------------------------------------------
(* runConsumer, processTask: an execution ends, by a panic at the worst. *)
TakeTask(c) ==
    /\ consumer[c] = NoTask /\ channel # <<>>
    /\ consumer' = [consumer EXCEPT ![c] = Head(channel)]
    /\ channel' = Tail(channel)
    /\ UNCHANGED <<listed, organizations, taskHeap, wakeup, loop, sync, env>>

FinishTask(c) ==
    /\ consumer[c] # NoTask
    /\ consumer' = [consumer EXCEPT ![c] = NoTask]
    /\ UNCHANGED <<listed, organizations, taskHeap, wakeup, loop, sync, channel, env>>

--------------------------------------------------------------------------------
(* Run, after addSystemWideTasks, which pushes every system-wide task and signals. *)
Init ==
    /\ listed \in SUBSET Orgs
    /\ organizations = {}
    /\ \E order \in {q \in [1..Cardinality(SystemTasks) -> SystemTasks] : IsInjective(q)} :
         \E left \in [DOMAIN order -> Stagger] :
            /\ \A i, j \in DOMAIN order : i < j => left[i] <= left[j]
            /\ taskHeap = [i \in DOMAIN order |-> [task |-> order[i], left |-> left[i]]]
    /\ wakeup = (SystemTasks # {})
    /\ loop = AtPeek
    /\ sync = AtRest
    /\ channel = <<>>
    /\ consumer = [c \in Consumers |-> NoTask]
    /\ env = [changes |-> 0, raced |-> {}]

Loop ==
    \/ Peek \/ WokenUp \/ TimerFires
    \/ GetNextReadyTask \/ IsOrgRegistered \/ PublishTask \/ Reschedule
Sync == DiffOrganizations \/ RemoveOrganizationTasks \/ \E o \in Orgs : AddOrganizationTasks(o)
Consume(c) == TakeTask(c) \/ FinishTask(c)
Next == \/ Tick \/ Loop \/ Sync \/ (\E o \in Orgs : ChangeOrgs(o))
        \/ \E c \in Consumers : Consume(c)

(* Time passes, and every goroutine that can run does. *)
Fairness == /\ WF_vars(Tick) /\ WF_vars(Loop) /\ WF_vars(Sync)
            /\ \A c \in Consumers : WF_vars(Consume(c))
Spec == Init /\ [][Next]_vars
FairSpec == Spec /\ Fairness

--------------------------------------------------------------------------------
(* Properties. *)

(* How often a task is scheduled: in the heap, or out of it to be published. *)
Copies(t) == Cardinality({i \in DOMAIN taskHeap : taskHeap[i].task = t})
                + (IF loop.task = t THEN 1 ELSE 0)

(* No task is ever dropped: every registered organization is scheduled, or about to be, *)
(* and so is every system-wide task, although a full channel refuses tasks and          *)
(* organizations come and go between the steps of publishReadyTasks.                    *)
NeverUnscheduled ==
    \A t \in SystemTasks \cup organizations : Copies(t) > 0 \/ t \in sync.toAdd

(* A task runs once per interval: it is scheduled at most once.  But an organization    *)
(* removed while its task was out of the heap, and registered again before the task was *)
(* dropped, is scheduled twice from then on.                                            *)
ScheduledOnce == \A t \in Tasks \ env.raced : Copies(t) <= 1

(* The same, whatever organizations do. *)
NeverTwice == \A t \in Tasks : Copies(t) <= 1

(* Every task is taken up again and again while its organization is registered: no      *)
(* wakeup is lost between a Peek and the wait that follows it, and nothing waits for a  *)
(* timer that no longer stands for the first task.                                      *)
TakenUp ==
    /\ \A t \in SystemTasks : []<>(loop.task = t)
    /\ \A o \in Orgs : <>[](o \in organizations) => []<>(loop.task = o)

================================================================================
