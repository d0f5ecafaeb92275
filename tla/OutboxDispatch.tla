--------------------------- MODULE OutboxDispatch ---------------------------
(***************************************************************************)
(* Delivery of outbox events: Outbox and OutboxDispatcher (src/cmdboss/    *)
(* outbox.py) and the in-memory bus they feed (src/cmdboss/events.py).     *)
(*                                                                         *)
(* Every member of Worker is a Gunicorn worker process: it runs one        *)
(* dispatcher and one bus, whose bounded queue dies with the process.  The *)
(* rows are shared, and no dispatcher claims the rows it has fetched.      *)
(*                                                                         *)
(* Time is abstract: "line" holds the rows whose next_attempt_at has come, *)
(* earliest first, which is the order fetch_pending returns them in; a row *)
(* that backs off rejoins it when its delay is over.                       *)
(***************************************************************************)
EXTENDS Naturals, SequencesExt

CONSTANTS Ev,           \* events
          Worker,       \* worker processes
          Raising,      \* the events bus.publish may refuse (a remote backend)
          Batch,        \* outbox_batch_size
          MaxAttempts,  \* outbox_max_attempts
          QueueSize,    \* event_bus_max_queue
          MaxFaults     \* bound on replays, MongoDB errors and crashes together

ASSUME DispatchAssumption ==
  /\ Raising \subseteq Ev
  /\ Batch \in Nat \ {0} /\ MaxAttempts \in Nat \ {0} /\ QueueSize \in Nat \ {0}
  /\ MaxFaults \in Nat

VARIABLES
  row,        \* row[e]: status and attempts in the _outbox collection
  line,       \* the pending rows that are due, in order of next_attempt_at
  pc,         \* pc[w]: what dispatch_once does next
  batch,      \* batch[w]: the fetched documents not yet handled, attempts included
  queue,      \* queue[w]: the bus of w
  delivered,  \* the events some bus has taken from its queue to handle
  failures,   \* failures[e]: the attempts on e that failed, counted up to MaxAttempts
  faults      \* how many replays, errors and crashes there have been

vars == <<row, line, pc, batch, queue, delivered, failures, faults>>

Rows == [status : {"none", "pending", "sent", "dead"}, attempts : 0..MaxAttempts]
Fetched == [ev : Ev, attempts : 0..MaxAttempts]

Init ==
  /\ row = [e \in Ev |-> [status |-> "none", attempts |-> 0]]
  /\ line = <<>>
  /\ pc = [w \in Worker |-> "poll"]
  /\ batch = [w \in Worker |-> <<>>]
  /\ queue = [w \in Worker |-> <<>>]
  /\ delivered = {}
  /\ failures = [e \in Ev |-> 0]
  /\ faults = 0

(* The workers that have a copy of e in their batch.                       *)
Holders(e) == {w \in Worker : \E i \in DOMAIN batch[w] : batch[w][i].ev = e}

(* The attempt on e failed; or e starts anew, unless a worker still goes   *)
(* by a copy of e as it was.                                               *)
CountFailure(e) ==
  failures' = [failures EXCEPT ![e] = IF @ < MaxAttempts THEN @ + 1 ELSE @]
ForgetFailures(e) ==
  failures' = [failures EXCEPT ![e] = IF Holders(e) = {} THEN 0 ELSE @]

Goto(w, step) == pc' = [pc EXCEPT ![w] = step]
Fault == faults < MaxFaults /\ faults' = faults + 1

(* The document being handled, and the steps that end its handling.        *)
Current(w) == Head(batch[w])
Advance(w) ==
  /\ batch' = [batch EXCEPT ![w] = Tail(@)]
  /\ Goto(w, IF Len(batch[w]) = 1 THEN "poll" ELSE "publish")

Shared == <<row, line>>
Bus == <<queue, delivered>>

(***************************************************************************)
(* The rows.                                                               *)
(***************************************************************************)
(* Outbox.add, at the commit of the write.                                 *)
Add(e) ==
  /\ row[e].status = "none"
  /\ row' = [row EXCEPT ![e].status = "pending"]
  /\ line' = Append(line, e)
  /\ UNCHANGED <<pc, batch, Bus, faults, failures>>

(* The backoff of a pending row is over.                                   *)
BecomeDue(e) ==
  /\ row[e].status = "pending" /\ ~Contains(line, e)
  /\ line' = Append(line, e)
  /\ UNCHANGED <<row, pc, batch, Bus, faults, failures>>

(* Fault: replay does not reset the attempts.                              *)
ReplayKeepsAttempts(e) ==
  /\ row[e].status = "dead" /\ Fault
  /\ row' = [row EXCEPT ![e].status = "pending"]
  /\ line' = Append(line, e)
  /\ ForgetFailures(e)
  /\ UNCHANGED <<pc, batch, Bus>>

(* An operator replays a dead event.                                       *)
Replay(e) ==
  /\ row[e].status = "dead" /\ Fault
  /\ row' = [row EXCEPT ![e] = [status |-> "pending", attempts |-> 0]]
  /\ line' = Append(line, e)
  /\ ForgetFailures(e)
  /\ UNCHANGED <<pc, batch, Bus>>

(***************************************************************************)
(* dispatch_once.                                                          *)
(***************************************************************************)
(* Fault: rows are fetched whatever their status.                          *)
FetchAny(w) ==
  /\ pc[w] = "poll"
  /\ \E e \in Ev : /\ row[e].status # "none"
                   /\ batch' = [batch EXCEPT ![w] = <<[ev |-> e, attempts |-> row[e].attempts]>>]
  /\ Goto(w, "publish")
  /\ UNCHANGED <<Shared, Bus, faults, failures>>

(* fetch_pending; the rows that are not due come last and are skipped.     *)
Fetch(w) ==
  /\ pc[w] = "poll" /\ line # <<>>
  /\ LET n == IF Len(line) < Batch THEN Len(line) ELSE Batch
     IN  batch' = [batch EXCEPT ![w] =
           [i \in 1..n |-> [ev |-> line[i], attempts |-> row[line[i]].attempts]]]
  /\ Goto(w, "publish")
  /\ UNCHANGED <<Shared, Bus, faults, failures>>

(* Nothing is due.                                                         *)
Idle(w) == pc[w] = "poll" /\ line = <<>> /\ UNCHANGED vars

(* bus.publish: put_nowait.  A full queue drops the event without an error. *)
Publish(w) ==
  /\ pc[w] = "publish"
  /\ queue' = [queue EXCEPT ![w] =
       IF Len(@) < QueueSize THEN Append(@, Current(w).ev) ELSE @]
  /\ Goto(w, "mark")
  /\ UNCHANGED <<Shared, batch, delivered, faults, failures>>

PublishRaises(w) ==
  /\ pc[w] = "publish" /\ Current(w).ev \in Raising
  /\ Goto(w, "failed") /\ CountFailure(Current(w).ev)
  /\ UNCHANGED <<Shared, batch, Bus, faults>>

(* mark_sent, by _id alone.                                                *)
MarkRow(w) ==
  LET e == Current(w).ev IN
    /\ row' = [row EXCEPT ![e].status = "sent"]
    /\ line' = RemoveFirst(line, e)

MarkSent(w) ==
  /\ pc[w] = "mark"
  /\ MarkRow(w)
  /\ Advance(w)
  /\ UNCHANGED <<Bus, faults, failures>>

(* The update fails, or is applied and only its acknowledgement is lost.   *)
MarkRaises(w) ==
  /\ pc[w] = "mark" /\ Fault
  /\ MarkRow(w) \/ UNCHANGED Shared
  /\ Goto(w, "failed") /\ CountFailure(Current(w).ev)
  /\ UNCHANGED <<batch, Bus>>

GivesUp(w) == Current(w).attempts + 1 >= MaxAttempts

(* Fault: attempts are written back as they were fetched.                  *)
RescheduleUncounted(w) ==
  /\ pc[w] = "failed" /\ ~GivesUp(w)
  /\ line' = RemoveFirst(line, Current(w).ev)
  /\ Advance(w)
  /\ UNCHANGED <<row, Bus, faults, failures>>

(* reschedule sets attempts and next_attempt_at, whatever the status;      *)
(* mark_dead goes by _id alone.                                            *)
FailRow(w) ==
  LET d == Current(w) IN
    /\ row' = [row EXCEPT ![d.ev] =
         [status |-> IF GivesUp(w) THEN "dead" ELSE @.status, attempts |-> d.attempts + 1]]
    /\ line' = RemoveFirst(line, d.ev)

Reschedule(w) ==
  /\ pc[w] = "failed" /\ ~GivesUp(w)
  /\ FailRow(w)
  /\ Advance(w)
  /\ UNCHANGED <<Bus, faults, failures>>

MarkDead(w) ==
  /\ pc[w] = "failed" /\ GivesUp(w)
  /\ FailRow(w)
  /\ Advance(w)
  /\ UNCHANGED <<Bus, faults, failures>>

(* An exception of the exception handler itself, whose update failed or    *)
(* was applied: the batch is abandoned.                                    *)
AbandonBatch(w) ==
  /\ pc[w] = "failed" /\ Fault
  /\ FailRow(w) \/ UNCHANGED Shared
  /\ batch' = [batch EXCEPT ![w] = <<>>]
  /\ Goto(w, "poll")
  /\ UNCHANGED <<Bus, failures>>

(***************************************************************************)
(* The bus, and the process.                                               *)
(***************************************************************************)
(* InMemoryEventBus._run takes an event; what becomes of it is in EventBus.*)
Deliver(w) ==
  /\ queue[w] # <<>>
  /\ queue' = [queue EXCEPT ![w] = Tail(@)]
  /\ delivered' = delivered \cup {Head(queue[w])}
  /\ UNCHANGED <<Shared, pc, batch, faults, failures>>

(* The process stops (aclose cancels what it waited for in vain, too) and  *)
(* another takes its place.                                                *)
Crash(w) ==
  /\ Fault
  /\ Goto(w, "poll")
  /\ batch' = [batch EXCEPT ![w] = <<>>]
  /\ queue' = [queue EXCEPT ![w] = <<>>]
  /\ UNCHANGED <<Shared, delivered, failures>>

Dispatch(w) ==
  \/ Fetch(w) \/ Publish(w) \/ PublishRaises(w) \/ MarkSent(w) \/ MarkRaises(w)
  \/ Reschedule(w) \/ MarkDead(w) \/ AbandonBatch(w)

Next ==
  \/ \E e \in Ev : Add(e) \/ BecomeDue(e) \/ Replay(e)
  \/ \E w \in Worker : Dispatch(w) \/ Deliver(w) \/ Crash(w) \/ Idle(w)

Spec == Init /\ [][Next]_vars

(* Backoffs end, and the dispatcher's loop goes on whatever is raised in it.*)
FairSpec ==
  /\ Spec
  /\ \A e \in Ev : WF_vars(BecomeDue(e))
  /\ \A w \in Worker : WF_vars(Dispatch(w))

(***************************************************************************)
(* Properties.                                                             *)
(***************************************************************************)
TypeOK ==
  /\ row \in [Ev -> Rows]
  /\ line \in Seq(Ev)
  /\ pc \in [Worker -> {"poll", "publish", "mark", "failed"}]
  /\ batch \in [Worker -> Seq(Fetched)]
  /\ queue \in [Worker -> Seq(Ev)]
  /\ delivered \subseteq Ev
  /\ failures \in [Ev -> 0..MaxAttempts]
  /\ faults \in 0..MaxFaults

(* No event is lost: one whose row says "sent", so that no dispatcher will *)
(* ever fetch it again, has reached a consumer or waits in some queue.     *)
Queued(e) == \E w \in Worker : Contains(queue[w], e)
SentIsNotLost == \A e \in Ev : row[e].status = "sent" => e \in delivered \/ Queued(e)

(* The two ways out of it: to publish into a full queue, and to stop with  *)
(* a queue that is not empty.                                              *)
NothingDropped ==
  \A w \in Worker :
    /\ Publish(w) => Len(queue[w]) < QueueSize
    /\ Crash(w) => queue[w] = <<>>

(* An event is given up only after MaxAttempts failed attempts, counted    *)
(* anew after a replay (of a row that no worker was still working on).     *)
DeadAfterMaxAttempts ==
  \A e \in Ev : row[e].status = "dead" => failures[e] >= MaxAttempts

(* No poison event loops for ever.                                         *)
Settles == \A e \in Ev : row[e].status = "pending" ~> row[e].status # "pending"

(***************************************************************************)
(* Refinement: a row lives as OutboxRow says.                              *)
(***************************************************************************)
Life == INSTANCE OutboxRow
  WITH status <- [e \in Ev |-> row[e].status], holders <- [e \in Ev |-> Holders(e)]

(* A row is settled only by a worker that fetched it while it was pending, *)
(* and leaves "dead" only by an operator's replay or such a worker.        *)
RowLife == Life!Spec
=============================================================================
