------------------------------ MODULE EventBus ------------------------------
(***************************************************************************)
(* One worker process, from its outbox dispatcher to the webhooks: the     *)
(* bounded queue and its only consumer (InMemoryEventBus, src/cmdboss/     *)
(* events.py), the delivery of an event to the registered endpoints        *)
(* (WebhookSubscriber, src/cmdboss/webhooks.py), and the teardown of the   *)
(* process (lifespan in src/cmdboss/app.py, aclose of the dispatcher).     *)
(*                                                                         *)
(* The attempts and backoffs of a row are in OutboxDispatch; here a row    *)
(* whose mark failed simply stays pending and is published again.  Events  *)
(* go by their position in "accepted", since an event may be accepted more *)
(* than once.  Each HTTP request is one step; the sleeps between attempts  *)
(* are the freedom of other steps to come in between.                      *)
(***************************************************************************)
EXTENDS Naturals, SequencesExt

CONSTANTS Ev,           \* events
          Hook,         \* webhooks that may be registered
          Wants,        \* Wants[h]: the events whose type h asks for
          QueueSize,    \* event_bus_max_queue
          MaxAttempts,  \* webhook_max_attempts
          MaxErrors     \* bound on MongoDB errors

ASSUME BusAssumption ==
  /\ Wants \in [Hook -> SUBSET Ev]
  /\ QueueSize \in Nat \ {0} /\ MaxAttempts \in Nat \ {0} /\ MaxErrors \in Nat

VARIABLES
  row,       \* row[e]: the status of e in _outbox
  known,     \* known[e]: the webhooks registered when e was written
  hooks,     \* the webhooks in the _webhooks collection
  app,       \* "up"; the aclose that lifespan awaits; how the process ended
  pc,        \* the dispatcher: what dispatch_once does next
  batch,     \* the fetched rows not yet handled
  queue,     \* the bus's queue, of positions
  stage,     \* the consumer: "get", "lookup" or "send"
  current,   \* the position it has taken, or 0
  todo,      \* the webhooks still to be served
  attempt,   \* the attempts made on the first of them
  accepted,  \* every event the queue has accepted
  fate,      \* fate[p]: what became of the event at position p
  dropped,   \* the events that met a full queue
  calls,     \* calls[h]: the requests sent to h: position and outcome
  errors     \* how many MongoDB errors there have been

vars == <<row, known, hooks, app, pc, batch, queue, stage, current, todo, attempt,
          accepted, fate, dropped, calls, errors>>

Init ==
  /\ row = [e \in Ev |-> "none"] /\ known = [e \in Ev |-> {}]
  /\ hooks = {}
  /\ app = "up"
  /\ pc = "poll" /\ batch = <<>>
  /\ queue = <<>> /\ stage = "get" /\ current = 0 /\ todo = <<>> /\ attempt = 0
  /\ accepted = <<>> /\ fate = <<>> /\ dropped = {}
  /\ calls = [h \in Hook |-> <<>>]
  /\ errors = 0

Ended == app \in {"drained", "cancelled", "killed"}
Error == errors < MaxErrors /\ errors' = errors + 1

Rows == <<row, known, hooks>>
Dispatcher == <<pc, batch>>
Consumer == <<stage, current, todo, attempt>>
History == <<accepted, fate, dropped, calls>>

(***************************************************************************)
(* Requests, of this worker or another, while this process lives.          *)
(***************************************************************************)
(* Outbox.add, at the commit of a write.                                   *)
Write(e) ==
  /\ ~Ended /\ row[e] = "none"
  /\ row' = [row EXCEPT ![e] = "pending"]
  /\ known' = [known EXCEPT ![e] = hooks]
  /\ UNCHANGED <<hooks, app, Dispatcher, queue, Consumer, History, errors>>

(* WebhookRegistry.register: active, and nothing ever deactivates it.      *)
Register(h) ==
  /\ ~Ended /\ h \notin hooks
  /\ hooks' = hooks \cup {h}
  /\ UNCHANGED <<row, known, app, Dispatcher, queue, Consumer, History, errors>>

(***************************************************************************)
(* The dispatcher.                                                         *)
(***************************************************************************)
(* The batches that may be due, in the order they became so.               *)
Pending == {e \in Ev : row[e] = "pending"}
Batches == {s \in UNION {[1..n -> Pending] : n \in 1..Cardinality(Pending)} : IsInjective(s)}

(* _run tests the stop event between two rounds only.                      *)
Fetch ==
  /\ app = "up" /\ pc = "poll"
  /\ \E s \in Batches : batch' = s
  /\ pc' = "publish"
  /\ UNCHANGED <<Rows, app, queue, Consumer, History, errors>>

StopSeen ==
  /\ app = "dispatcher" /\ pc = "poll"
  /\ pc' = "ended"
  /\ UNCHANGED <<Rows, app, batch, queue, Consumer, History, errors>>

(* bus.publish: an event that finds the queue full is dropped.             *)
Publish ==
  /\ ~Ended /\ pc = "publish"
  /\ \/ /\ Len(queue) < QueueSize
        /\ accepted' = Append(accepted, Head(batch))
        /\ fate' = Append(fate, "waiting")
        /\ queue' = Append(queue, Len(accepted) + 1)
        /\ UNCHANGED dropped
     \/ /\ Len(queue) = QueueSize
        /\ dropped' = dropped \cup {Head(batch)}
        /\ UNCHANGED <<accepted, fate, queue>>
  /\ pc' = "mark"
  /\ UNCHANGED <<Rows, app, batch, Consumer, calls, errors>>

Advance ==
  /\ batch' = Tail(batch)
  /\ pc' = IF Len(batch) = 1 THEN "poll" ELSE "publish"

(* mark_sent, or an error of MongoDB: then the row is due again later.     *)
Mark ==
  /\ ~Ended /\ pc = "mark"
  /\ \/ row' = [row EXCEPT ![Head(batch)] = "sent"] /\ UNCHANGED errors
     \/ Error /\ UNCHANGED row
  /\ Advance
  /\ UNCHANGED <<known, hooks, app, queue, Consumer, History>>

(***************************************************************************)
(* The consumer: one event at a time, one webhook at a time.               *)
(***************************************************************************)
Get ==
  /\ ~Ended /\ stage = "get" /\ queue # <<>>
  /\ current' = Head(queue) /\ queue' = Tail(queue)
  /\ stage' = "lookup"
  /\ UNCHANGED <<Rows, app, Dispatcher, todo, attempt, History, errors>>

(* gather returns: task_done, and the next event.                          *)
Done(outcome) ==
  /\ fate' = [fate EXCEPT ![current] = outcome]
  /\ stage' = "get" /\ current' = 0 /\ todo' = <<>> /\ attempt' = 0

(* active_for; the order of a find without a sort is MongoDB's.            *)
Wanting == {h \in hooks : accepted[current] \in Wants[h]}

Lookup ==
  /\ ~Ended /\ stage = "lookup"
  /\ \/ Wanting = {} /\ Done("handled")
     \/ /\ Wanting # {}
        /\ todo' \in Bijection(1..Cardinality(Wanting), Wanting) /\ stage' = "send"
        /\ UNCHANGED <<fate, current, attempt>>
  /\ UNCHANGED <<Rows, app, Dispatcher, queue, accepted, dropped, calls, errors>>

(* Fault: the exception of a handler ends the consumer's task.             *)
LookupEndsConsumer ==
  /\ ~Ended /\ stage = "lookup" /\ Error
  /\ fate' = fate
  /\ stage' = "ended" /\ current' = current /\ todo' = <<>> /\ attempt' = 0
  /\ UNCHANGED <<Rows, app, Dispatcher, queue, accepted, dropped, calls>>

(* The query fails: gather collects the exception, and it is logged.       *)
LookupRaises ==
  /\ ~Ended /\ stage = "lookup" /\ Error
  /\ Done("unread")
  /\ UNCHANGED <<Rows, app, Dispatcher, queue, accepted, dropped, calls>>

(* Fault: one attempt too many.                                            *)
LastAttemptLate == attempt + 1 > MaxAttempts

LastAttempt == attempt + 1 >= MaxAttempts

(* On to the next webhook.                                                 *)
NextHook ==
  \/ Len(todo) = 1 /\ Done("handled")
  \/ /\ Len(todo) > 1
     /\ todo' = Tail(todo) /\ attempt' = 0
     /\ UNCHANGED <<fate, stage, current>>

Request(ok) == calls' = [calls EXCEPT ![todo[1]] = Append(@, [pos |-> current, ok |-> ok])]

(* Fault: the exception of the last attempt propagates out of _deliver.    *)
SendRaisesAtLast ==
  /\ ~Ended /\ stage = "send"
  /\ \/ Request(TRUE) /\ NextHook
     \/ Request(FALSE) /\ LastAttempt /\ Done("handled")
     \/ Request(FALSE) /\ ~LastAttempt /\ attempt' = attempt + 1
        /\ UNCHANGED <<fate, stage, current, todo>>
  /\ UNCHANGED <<Rows, app, Dispatcher, queue, accepted, dropped, errors>>

(* One request of _deliver: answered 2xx, or not.                          *)
Send ==
  /\ ~Ended /\ stage = "send"
  /\ \/ Request(TRUE) /\ NextHook
     \/ Request(FALSE) /\ LastAttempt /\ NextHook
     \/ Request(FALSE) /\ ~LastAttempt /\ attempt' = attempt + 1
        /\ UNCHANGED <<fate, stage, current, todo>>
  /\ UNCHANGED <<Rows, app, Dispatcher, queue, accepted, dropped, errors>>

(***************************************************************************)
(* The end of the process.                                                 *)
(***************************************************************************)
(* The end of lifespan: dispatcher.aclose sets the stop event.             *)
Shutdown ==
  /\ app = "up" /\ app' = "dispatcher"
  /\ UNCHANGED <<Rows, Dispatcher, queue, Consumer, History, errors>>

DispatcherEnded ==
  /\ app = "dispatcher" /\ pc = "ended"
  /\ app' = "bus"
  /\ UNCHANGED <<Rows, Dispatcher, queue, Consumer, History, errors>>

(* After two seconds the task is cancelled at its await; the update it was *)
(* waiting for may be carried out all the same.                            *)
DispatcherCancelled ==
  /\ app = "dispatcher" /\ pc # "ended"
  /\ app' = "bus" /\ pc' = "ended" /\ batch' = <<>>
  /\ \/ UNCHANGED row
     \/ pc = "mark" /\ row' = [row EXCEPT ![Head(batch)] = "sent"]
  /\ UNCHANGED <<known, hooks, queue, Consumer, History, errors>>

(* Fault: aclose waits for an empty queue, not for the event in hand.      *)
DrainedIfEmpty ==
  /\ app = "bus" /\ queue = <<>>
  /\ app' = "drained"
  /\ UNCHANGED <<Rows, Dispatcher, queue, Consumer, History, errors>>

(* queue.join: every event has been taken and is done.                     *)
Drained ==
  /\ app = "bus" /\ queue = <<>> /\ current = 0
  /\ app' = "drained"
  /\ UNCHANGED <<Rows, Dispatcher, queue, Consumer, History, errors>>

(* What the process still had in memory is gone.                           *)
End(how) ==
  /\ app' = how
  /\ fate' = [p \in DOMAIN fate |-> IF fate[p] = "waiting" THEN "cut" ELSE fate[p]]
  /\ UNCHANGED <<Rows, Dispatcher, queue, Consumer, accepted, dropped, calls, errors>>

(* After two seconds of join the consumer is cancelled; or the process is  *)
(* killed, at any time.                                                    *)
DrainCancelled == app = "bus" /\ (queue # <<>> \/ current # 0) /\ End("cancelled")
Kill == ~Ended /\ End("killed")

Dispatch == Fetch \/ Publish \/ Mark
Consume == Get \/ Lookup \/ LookupRaises \/ Send
Teardown == StopSeen \/ DispatcherEnded \/ DispatcherCancelled \/ Drained \/ DrainCancelled

Next ==
  \/ \E e \in Ev : Write(e)
  \/ \E h \in Hook : Register(h)
  \/ Dispatch \/ Consume
  \/ Shutdown \/ Teardown \/ Kill

(* The consumer's loop goes on: an HTTP request ends with an answer or its *)
(* timeout, and no exception of a handler leaves the loop.                 *)
Spec == Init /\ [][Next]_vars /\ WF_vars(Consume)

(***************************************************************************)
(* Properties.                                                             *)
(***************************************************************************)
Positions == DOMAIN accepted

(* The variables have the values the code can give them.                   *)
TypeOK ==
  /\ row \in [Ev -> {"none", "pending", "sent"}]
  /\ known \in [Ev -> SUBSET Hook] /\ hooks \subseteq Hook
  /\ app \in {"up", "dispatcher", "bus", "drained", "cancelled", "killed"}
  /\ pc \in {"poll", "publish", "mark", "ended"} /\ batch \in Seq(Ev)
  /\ queue \in Seq(Nat \ {0}) /\ Len(queue) <= QueueSize
  /\ stage \in {"get", "lookup", "send"} /\ current \in Nat
  /\ todo \in Seq(Hook) /\ attempt \in 0..(MaxAttempts - 1)
  /\ accepted \in Seq(Ev) /\ dropped \subseteq Ev
  /\ fate \in Seq({"waiting", "handled", "unread", "cut"})
  /\ calls \in [Hook -> Seq([pos : Nat \ {0}, ok : BOOLEAN])]
  /\ errors \in 0..MaxErrors

(* The requests to h for position p have ended: one was answered, or there *)
(* have been MaxAttempts of them.                                          *)
Served(h, p) ==
  \E i \in DOMAIN calls[h] :
    /\ calls[h][i].pos = p
    /\ calls[h][i].ok \/ (i >= MaxAttempts /\ calls[h][i - MaxAttempts + 1].pos = p)

(* Every event that was handled has been delivered to each webhook that    *)
(* was registered when it was written and asks for it, or that webhook has *)
(* failed MaxAttempts times: none is left out because another one fails.   *)
EveryEndpointIsTried ==
  \A p \in Positions : fate[p] = "handled" =>
    \A h \in known[accepted[p]] : accepted[p] \in Wants[h] => Served(h, p)

(* What an endpoint sees: events in the order they were accepted, each at  *)
(* most MaxAttempts times per acceptance, and not again after its 2xx.     *)
EndpointHistory ==
  \A h \in Hook : \A i, j \in DOMAIN calls[h] : i < j =>
    /\ calls[h][i].pos <= calls[h][j].pos
    /\ calls[h][i].pos = calls[h][j].pos => ~calls[h][i].ok /\ j < i + MaxAttempts

(* A teardown that ran into no timeout forgets nothing: what is marked     *)
(* sent has been through the handlers, unless the queue was full.          *)
CleanStop ==
  app = "drained" =>
    \A e \in Ev : row[e] = "sent" =>
      \/ e \in dropped
      \/ \E p \in Positions : accepted[p] = e /\ fate[p] \in {"handled", "unread"}

(* What the queue accepts is handled, whatever endpoints and queries do,   *)
(* unless the process ends.                                                *)
AcceptedIsHandled ==
  \A p \in 1..(Cardinality(Ev) + MaxErrors) :
    (p \in Positions) ~> (p \in Positions /\ fate[p] # "waiting")
=============================================================================
