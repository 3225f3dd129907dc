--------------------------- MODULE EventDelivery ---------------------------
(***************************************************************************)
(* What the task queue promises the code that emits events and the tasks   *)
(* that handle them: an event that was sent is in the queue until it is    *)
(* done, and may come back after that.  Only an outage loses events.       *)
(***************************************************************************)
CONSTANT Events

VARIABLES
  sent,     \* events handed to the queue
  queued,   \* events the queue will deliver
  done,     \* events handled, or reported as failed for good
  up        \* there has been no outage
vars == <<sent, queued, done, up>>

Init == sent = {} /\ queued = {} /\ done = {} /\ up = TRUE

\* An event is put into the queue, for the first time or again.
Send(e) ==
  /\ sent' = sent \union {e}
  /\ queued' = queued \union {e}
  /\ UNCHANGED <<done, up>>

\* Events are handled; events leave the queue, but no event that is not done;
\* events that were sent before come back.
Work(handled, retired, returned) ==
  /\ done' = done \union handled
  /\ retired \subseteq done'
  /\ queued' = (queued \ retired) \union returned
  /\ UNCHANGED <<sent, up>>

\* In an outage, and ever after, the queue may lose any event.
Outage(new, handled, kept) ==
  /\ sent' = sent \union new
  /\ done' = done \union handled
  /\ queued' = kept
  /\ up' = FALSE

Next ==
  \/ \E e \in Events : Send(e)
  \/ \E handled, returned \in SUBSET sent, retired \in SUBSET queued :
       Work(handled, retired, returned)
  \/ \E new, handled, kept \in SUBSET Events :
       handled \union kept \subseteq sent \union new /\ Outage(new, handled, kept)

Spec == Init /\ [][Next]_vars
=============================================================================
