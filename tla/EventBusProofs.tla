--------------------------- MODULE EventBusProofs ---------------------------
(***************************************************************************)
(* Proofs about EventBus, for any events, webhooks, queue size and limits: *)
(* what endpoints see, that none is left out, and that a teardown without  *)
(* a timeout forgets nothing.                                              *)
(*                                                                         *)
(* The argument follows positions: they enter the queue in order, the one  *)
(* in the consumer's hand is before all of the queue, and every request    *)
(* made so far is for it or one before it.                                 *)
(***************************************************************************)
EXTENDS EventBus, FiniteSetTheorems, SequenceTheorems, TLAPS

Seen(e) == e \in dropped \/ \E p \in Positions : accepted[p] = e

(* The dispatcher marks only what it has published, and what is written    *)
(* once stays written.                                                     *)
Published ==
  /\ pc \in {"publish", "mark"} => batch # <<>>
  /\ pc = "mark" => Seen(Head(batch))
  /\ app \in {"bus", "drained"} => pc = "ended"
  /\ \A e \in Ev : row[e] = "sent" => Seen(e)
  /\ \A p \in Positions : row[accepted[p]] # "none"
  /\ \A i \in DOMAIN batch : row[batch[i]] # "none"
  /\ IsFiniteSet(hooks) /\ \A e \in Ev : known[e] \subseteq hooks

(* Positions wait in order, first in the hand of the consumer.             *)
InOrder ==
  /\ DOMAIN fate = Positions
  /\ \A i \in DOMAIN queue : queue[i] \in Positions
  /\ \A i, j \in DOMAIN queue : i < j => queue[i] < queue[j]
  /\ stage = "get" <=> current = 0
  /\ current # 0 => current \in Positions
  /\ \A i \in DOMAIN queue : current < queue[i]

Accounted ==
  /\ \A p \in Positions : fate[p] = "waiting" => p = current \/ \E i \in DOMAIN queue : queue[i] = p
  /\ \A p \in Positions : fate[p] = "cut" => app \in {"cancelled", "killed"}
  /\ app = "drained" => \A p \in Positions : fate[p] # "waiting"

(* Requests are for the position in hand or for one that was before.       *)
Called ==
  \A h \in Hook : \A i \in DOMAIN calls[h] :
    /\ calls[h][i].pos \in Positions
    /\ \A j \in DOMAIN queue : calls[h][i].pos < queue[j]
    /\ stage = "lookup" => calls[h][i].pos < current
    /\ stage = "send" => calls[h][i].pos <= current

(* The webhooks still to be served for the position in hand: the first has *)
(* had attempts that failed, the others none; whoever else wants it has    *)
(* been served.                                                            *)
Serving ==
  /\ stage # "send" => attempt = 0
  /\ stage = "send" =>
       /\ todo # <<>> /\ IsInjective(todo)
       /\ \A k \in DOMAIN todo : k > 1 =>
            \A i \in DOMAIN calls[todo[k]] : calls[todo[k]][i].pos < current
       /\ attempt <= Len(calls[todo[1]])
       /\ \A i \in DOMAIN calls[todo[1]] :
            /\ calls[todo[1]][i].pos = current <=> i > Len(calls[todo[1]]) - attempt
            /\ calls[todo[1]][i].pos = current => ~calls[todo[1]][i].ok
       /\ \A h \in known[accepted[current]] : accepted[current] \in Wants[h] =>
            Served(h, current) \/ \E k \in DOMAIN todo : todo[k] = h

IInv ==
  /\ TypeOK /\ Published /\ InOrder /\ Accounted /\ Called /\ Serving
  /\ EveryEndpointIsTried /\ EndpointHistory

LEMMA InitIInv == Init => IInv
BY BusAssumption, FS_EmptySet
   DEF Init, IInv, TypeOK, Published, InOrder, Accounted, Called, Serving,
       EveryEndpointIsTried, EndpointHistory, Positions

-----------------------------------------------------------------------------
(* What the actions do to sequences.                                       *)
LEMMA TailOf ==
  ASSUME NEW S, NEW s \in Seq(S), s # <<>>
  PROVE  /\ Tail(s) \in Seq(S) /\ Len(Tail(s)) = Len(s) - 1 /\ Len(s) \in Nat \ {0}
         /\ Head(s) = s[1] /\ Head(s) \in S
         /\ \A i \in DOMAIN Tail(s) : i + 1 \in DOMAIN s /\ Tail(s)[i] = s[i + 1]
         /\ \A i \in DOMAIN s : i = 1 \/ (i - 1 \in DOMAIN Tail(s) /\ Tail(s)[i - 1] = s[i])
OBVIOUS

LEMMA MoreThanOne ==
  ASSUME NEW S, NEW s \in Seq(S), s # <<>>, Len(s) # 1
  PROVE  Tail(s) # <<>>
<1>1. Len(Tail(s)) = Len(s) - 1 /\ Len(s) \in Nat \ {0}
  BY TailOf
<1>2. Tail(s) \in Seq(S) /\ Len(Tail(s)) # 0
  BY <1>1, TailOf
<1> QED BY <1>2, EmptySeq

LEMMA AppendOf ==
  ASSUME NEW S, NEW s \in Seq(S), NEW x \in S
  PROVE  /\ Append(s, x) \in Seq(S) /\ Len(Append(s, x)) = Len(s) + 1
         /\ DOMAIN Append(s, x) = DOMAIN s \cup {Len(s) + 1} /\ DOMAIN s = 1..Len(s)
         /\ \A i \in DOMAIN s : Append(s, x)[i] = s[i]
         /\ Append(s, x)[Len(s) + 1] = x
OBVIOUS

LEMMA ElementOf ==
  ASSUME NEW S, NEW s \in Seq(S), NEW i \in DOMAIN s
  PROVE  s[i] \in S /\ i \in 1..Len(s) /\ Len(s) \in Nat
OBVIOUS

(* The webhooks active_for returns, in some order.                         *)
LEMMA TodoOf ==
  ASSUME TypeOK, IsFiniteSet(hooks), Wanting # {},
         todo' \in Bijection(1..Cardinality(Wanting), Wanting)
  PROVE  /\ todo' \in Seq(Hook) /\ todo' # <<>> /\ IsInjective(todo')
         /\ \A k \in DOMAIN todo' : todo'[k] \in Wanting
         /\ \A h \in Wanting : \E k \in DOMAIN todo' : todo'[k] = h
<1>1. Wanting \subseteq Hook /\ Wanting \subseteq hooks
  BY DEF TypeOK, Wanting
<1>2. Cardinality(Wanting) \in Nat
  BY <1>1, FS_Subset, FS_CardinalityType
<1>3. /\ todo' \in [1..Cardinality(Wanting) -> Wanting] /\ IsInjective(todo')
      /\ \A h \in Wanting : \E k \in 1..Cardinality(Wanting) : todo'[k] = h
  BY DEF Bijection, Injection, Surjection
<1> QED BY <1>1, <1>2, <1>3

-----------------------------------------------------------------------------
(* Requests.                                                               *)
NewCall(ok) ==
  /\ todo[1] \in Hook /\ Len(todo) \in Nat \ {0}
  /\ calls' \in [Hook -> Seq([pos : Nat \ {0}, ok : BOOLEAN])]
  /\ \A h \in Hook : h # todo[1] => calls'[h] = calls[h]
  /\ Len(calls[todo[1]]) \in Nat /\ DOMAIN calls[todo[1]] = 1..Len(calls[todo[1]])
  /\ Len(calls'[todo[1]]) = Len(calls[todo[1]]) + 1
  /\ DOMAIN calls'[todo[1]] = 1..(Len(calls[todo[1]]) + 1)
  /\ \A i \in DOMAIN calls[todo[1]] : calls'[todo[1]][i] = calls[todo[1]][i]
  /\ calls'[todo[1]][Len(calls[todo[1]]) + 1] = [pos |-> current, ok |-> ok]

LEMMA Requested ==
  ASSUME IInv, stage = "send", NEW ok \in BOOLEAN, Request(ok)
  PROVE  NewCall(ok)
<1> DEFINE C == [pos : Nat \ {0}, ok : BOOLEAN]
<1>1. todo[1] \in Hook /\ Len(todo) \in Nat \ {0}
  BY DEF IInv, TypeOK, Serving
<1>2. calls[todo[1]] \in Seq(C) /\ [pos |-> current, ok |-> ok] \in C
  BY <1>1 DEF IInv, TypeOK, InOrder
<1> DEFINE s == calls[todo[1]]
           c == [pos |-> current, ok |-> ok]
<1>3. calls' = [calls EXCEPT ![todo[1]] = Append(s, c)]
  BY DEF Request
<1>4. calls'[todo[1]] = Append(s, c) /\ calls' \in [Hook -> Seq(C)]
      /\ \A h \in Hook : h # todo[1] => calls'[h] = calls[h]
  <2>1. Append(s, c) \in Seq(C)
    BY <1>2
  <2> HIDE DEF C, c, s
  <2> QED BY <1>1, <1>3, <2>1 DEF IInv, TypeOK, C
<1>5. s \in Seq(C) /\ c \in C
  BY <1>2
<1> HIDE DEF C, c, s
<1>6. /\ Len(s) \in Nat /\ DOMAIN s = 1..Len(s) /\ Len(Append(s, c)) = Len(s) + 1
      /\ DOMAIN Append(s, c) = 1..(Len(s) + 1)
      /\ \A i \in DOMAIN s : Append(s, c)[i] = s[i]
      /\ Append(s, c)[Len(s) + 1] = c
  BY <1>5
<1> QED BY <1>1, <1>4, <1>6 DEF s, c, C, NewCall

LEMMA RequestKeepsHistory ==
  ASSUME IInv, stage = "send", NEW ok \in BOOLEAN, Request(ok)
  PROVE  EndpointHistory'
<1> DEFINE t == todo[1]
           n == Len(calls[t])
<1> SUFFICES ASSUME NEW h \in Hook, NEW i \in DOMAIN calls'[h], NEW j \in DOMAIN calls'[h], i < j
             PROVE  /\ calls'[h][i].pos <= calls'[h][j].pos
                    /\ calls'[h][i].pos = calls'[h][j].pos =>
                         ~calls'[h][i].ok /\ j < i + MaxAttempts
  BY DEF EndpointHistory
<1>0. NewCall(ok)
  BY Requested
<1>1. CASE h # t \/ j # n + 1
  <2>1. i \in DOMAIN calls[h] /\ j \in DOMAIN calls[h]
        /\ calls'[h][i] = calls[h][i] /\ calls'[h][j] = calls[h][j]
    <3>1. CASE h # t
      BY <1>0, <3>1 DEF NewCall
    <3>2. CASE h = t
      <4>1. n \in Nat /\ i \in 1..(n + 1) /\ j \in 1..(n + 1) /\ DOMAIN calls[h] = 1..n
        BY <1>0, <3>2 DEF NewCall
      <4>2. i \in 1..n /\ j \in 1..n
        BY <1>1, <3>2, <4>1
      <4> QED BY <1>0, <3>2, <4>1, <4>2 DEF NewCall
    <3> QED BY <3>1, <3>2
  <2> QED BY <2>1 DEF IInv, EndpointHistory
<1>2. CASE h = t /\ j = n + 1
  <2>1. i \in 1..n /\ i \in DOMAIN calls[t] /\ calls'[t][i] = calls[t][i] /\ calls'[t][j].pos = current
    BY <1>0, <1>2 DEF NewCall
  <2>2. calls[t][i].pos <= current
    BY <1>0, <2>1 DEF NewCall, IInv, Called
  <2>3. calls[t][i].pos = current => i > n - attempt /\ ~calls[t][i].ok
    BY <2>1 DEF IInv, Serving
  <2>4. n \in Nat /\ attempt \in Nat /\ attempt < MaxAttempts /\ MaxAttempts \in Nat
    BY <1>0, BusAssumption DEF IInv, TypeOK, NewCall
  <2> QED BY <1>2, <2>1, <2>2, <2>3, <2>4
<1> QED BY <1>1, <1>2

LEMMA ServedStays ==
  ASSUME IInv, stage = "send", NEW ok \in BOOLEAN, Request(ok),
         NEW h \in Hook, NEW p, Served(h, p)
  PROVE  Served(h, p)'
<1>0. NewCall(ok)
  BY Requested
<1>1. PICK i \in DOMAIN calls[h] :
        /\ calls[h][i].pos = p
        /\ calls[h][i].ok \/ (i >= MaxAttempts /\ calls[h][i - MaxAttempts + 1].pos = p)
  BY DEF Served
<1>2. CASE h # todo[1]
  BY <1>0, <1>1, <1>2 DEF Served, NewCall
<1>3. CASE h = todo[1]
  <2> DEFINE n == Len(calls[todo[1]])
  <2>0. n \in Nat /\ DOMAIN calls[h] = 1..n /\ DOMAIN calls'[h] = 1..(n + 1) /\ i \in 1..n
    BY <1>0, <1>1, <1>3 DEF NewCall
  <2>1. i \in Nat /\ i \in DOMAIN calls'[h] /\ calls'[h][i] = calls[h][i]
    BY <1>0, <1>3, <2>0 DEF NewCall
  <2>2. i >= MaxAttempts => i - MaxAttempts + 1 \in DOMAIN calls[h]
    BY <1>0, <1>1, <1>3, BusAssumption DEF NewCall
  <2>3. i >= MaxAttempts => calls'[h][i - MaxAttempts + 1] = calls[h][i - MaxAttempts + 1]
    BY <1>0, <1>3, <2>2 DEF NewCall
  <2> QED BY <1>1, <2>1, <2>3 DEF Served
<1> QED BY <1>2, <1>3

(* The request after which the consumer turns to the next webhook.         *)
LEMMA FirstIsServed ==
  ASSUME IInv, stage = "send", NEW ok \in BOOLEAN, Request(ok), ok \/ LastAttempt,
         NEW t, t = todo[1], NEW p, p = current
  PROVE  Served(t, p)'
<1> DEFINE n == Len(calls[t])
<1>1. /\ n \in Nat /\ n + 1 \in DOMAIN calls'[t] /\ calls'[t][n + 1] = [pos |-> current, ok |-> ok]
      /\ DOMAIN calls[t] = 1..n /\ \A i \in DOMAIN calls[t] : calls'[t][i] = calls[t][i]
  <2> NewCall(ok)
    BY Requested
  <2> QED BY DEF NewCall
<1>2. attempt \in 0..(MaxAttempts - 1) /\ MaxAttempts \in Nat \ {0} /\ attempt <= n
  BY BusAssumption DEF IInv, TypeOK, Serving
<1>3. Served(t, p)'
  <2>1. CASE ok
    BY <2>1, <1>1 DEF Served
  <2>2. CASE ~ok
    <3>1. attempt = MaxAttempts - 1 /\ n + 1 >= MaxAttempts
      BY <2>2, <1>1, <1>2 DEF LastAttempt
    <3>2. calls'[t][n + 1 - MaxAttempts + 1].pos = current
      <4>1. CASE attempt = 0
        <5>1. n + 1 - MaxAttempts + 1 = n + 1
          BY <4>1, <3>1, <1>1, <1>2
        <5> QED BY <5>1, <1>1
      <4>2. CASE attempt # 0
        <5>1. n + 1 - MaxAttempts + 1 = n - attempt + 1 /\ n - attempt + 1 \in 1..n
          BY <4>2, <3>1, <1>1, <1>2
        <5>2. calls[t][n - attempt + 1].pos = current
          <6>1. n - attempt + 1 \in DOMAIN calls[t] /\ n - attempt + 1 > n - attempt
            BY <5>1, <1>1, <1>2
          <6> QED BY <6>1 DEF IInv, Serving
        <5> HIDE DEF n
        <5>3. calls'[t][n - attempt + 1] = calls[t][n - attempt + 1]
          BY <5>1, <1>1
        <5> QED BY <5>1, <5>2, <5>3
      <4> QED BY <4>1, <4>2
    <3>3. calls'[t][n + 1].pos = p
      BY <1>1
    <3> HIDE DEF n
    <3> QED BY <3>1, <3>2, <3>3, <1>1, <1>2 DEF Served
  <2> QED BY <2>1, <2>2
<1> QED BY <1>3

-----------------------------------------------------------------------------
(* Requests, and the dispatcher.                                           *)
Dispatching ==
  \/ \E e \in Ev : Write(e)
  \/ \E h \in Hook : Register(h)
  \/ Fetch \/ StopSeen \/ Publish \/ Mark
  \/ Shutdown \/ DispatcherEnded \/ DispatcherCancelled

LEMMA Accepting ==
  ASSUME accepted \in Seq(Ev), NEW e \in Ev, accepted' = Append(accepted, e)
  PROVE  /\ accepted' \in Seq(Ev) /\ Len(accepted) \in Nat /\ Positions' = Positions \cup {Len(accepted) + 1}
         /\ Positions = 1..Len(accepted)
         /\ (\A p \in Positions : accepted'[p] = accepted[p]) /\ accepted'[Len(accepted) + 1] = e
  BY AppendOf DEF Positions

(* They leave the consumer alone, and the queue only grows.                *)
LEMMA DispatchingType ==
  ASSUME IInv, Dispatching
  PROVE  TypeOK' /\ UNCHANGED <<Consumer, calls>> /\ Published'
<1> USE BusAssumption DEF IInv, TypeOK
<1>1. ASSUME NEW e \in Ev, Write(e) PROVE TypeOK' /\ UNCHANGED <<Consumer, calls>> /\ Published'
  BY <1>1 DEF Write, Dispatcher, Consumer, History, Published, Seen, Positions
<1>2. ASSUME NEW h \in Hook, Register(h)
      PROVE  TypeOK' /\ UNCHANGED <<Consumer, calls>> /\ Published'
  BY <1>2, FS_AddElement DEF Register, Dispatcher, Consumer, History, Published, Seen, Positions
<1>3. CASE Fetch
  <2>1. PICK n \in 1..Cardinality(Pending) : batch' \in [1..n -> Pending]
    BY <1>3 DEF Fetch, Batches
  <2> QED BY <1>3, <2>1 DEF Fetch, Rows, Pending, Consumer, History, Published, Seen, Positions
<1>4. CASE StopSeen
  BY <1>4 DEF StopSeen, Rows, Consumer, History, Published, Seen, Positions
<1>5. CASE Publish
  <2>1. batch # <<>> /\ Head(batch) \in Ev
    BY <1>5, TailOf DEF Publish, Published
  <2>2. CASE Len(queue) < QueueSize
    <3>1. /\ accepted' = Append(accepted, Head(batch)) /\ dropped' = dropped
          /\ fate' = Append(fate, "waiting") /\ queue' = Append(queue, Len(accepted) + 1)
      BY <1>5, <2>2 DEF Publish
    <3>2. accepted' \in Seq(Ev) /\ Len(accepted) \in Nat /\ Positions' = Positions \cup {Len(accepted) + 1}
          /\ Positions = 1..Len(accepted)
          /\ (\A p \in Positions : accepted'[p] = accepted[p]) /\ accepted'[Len(accepted) + 1] = Head(batch)
      BY <2>1, <3>1, Accepting
    <3>3. queue' \in Seq(Nat \ {0}) /\ Len(queue') <= QueueSize
      BY <2>2, <3>1, <3>2
    <3>4. fate' \in Seq({"waiting", "handled", "unread", "cut"})
      BY <3>1
    <3>5. TypeOK' /\ UNCHANGED <<Consumer, calls>>
      BY <1>5, <3>1, <3>2, <3>3, <3>4 DEF Publish, Rows, Consumer
    <3>6. \A e : Seen(e) => Seen(e)'
      BY <3>1, <3>2 DEF Seen
    <3>7. Seen(Head(batch))'
      BY <1>5, <3>2 DEF Seen, Publish
    <3>8. row[Head(batch)] # "none"
      BY <2>1, TailOf DEF Published
    <3> QED BY <1>5, <2>1, <3>2, <3>5, <3>6, <3>7, <3>8 DEF Publish, Rows, Published
  <2>3. CASE Len(queue) = QueueSize
    BY <1>5, <2>1, <2>3 DEF Publish, Rows, Consumer, Published, Seen, Positions
  <2> QED BY <1>5, <2>2, <2>3 DEF Publish
<1>6. CASE Mark
  <2>1. /\ batch # <<>> /\ Head(batch) \in Ev /\ batch' \in Seq(Ev) /\ Seen(Head(batch))
        /\ pc' = "publish" => batch' # <<>>
        /\ pc' \in {"publish", "poll"} /\ errors' \in 0..MaxErrors
        /\ row' \in [Ev -> {"none", "pending", "sent"}]
    <3>1. batch # <<>> /\ Seen(Head(batch))
      BY <1>6 DEF Mark, Published
    <3>2. Head(batch) \in Ev /\ Tail(batch) \in Seq(Ev) /\ (Len(batch) # 1 => Tail(batch) # <<>>)
      <4>1. batch \in Seq(Ev)
        OBVIOUS
      <4> HIDE DEF IInv, TypeOK
      <4> QED BY <3>1, <4>1, TailOf, MoreThanOne
    <3>3. batch' = Tail(batch) /\ pc' = IF Len(batch) = 1 THEN "poll" ELSE "publish"
      BY <1>6 DEF Mark, Advance
    <3>4. errors' \in 0..MaxErrors /\ row' \in [Ev -> {"none", "pending", "sent"}]
      <4>1. errors \in 0..MaxErrors /\ MaxErrors \in Nat /\ row \in [Ev -> {"none", "pending", "sent"}]
        OBVIOUS
      <4>2. \/ row' = [row EXCEPT ![Head(batch)] = "sent"] /\ errors' = errors
            \/ errors < MaxErrors /\ errors' = errors + 1 /\ row' = row
        BY <1>6 DEF Mark, Error
      <4> HIDE DEF IInv, TypeOK
      <4> QED BY <4>1, <4>2
    <3> QED BY <3>1, <3>2, <3>3, <3>4
  <2>2. UNCHANGED <<known, hooks, app, queue, Consumer, History>>
    BY <1>6 DEF Mark
  <2>3. /\ \A e \in Ev : row'[e] = "sent" => row[e] = "sent" \/ e = Head(batch)
        /\ \A e \in Ev : row[e] # "none" => row'[e] # "none"
    BY <1>6, <2>1 DEF Mark
  <2>4. \A i \in DOMAIN batch' : row[batch'[i]] # "none" /\ batch'[i] \in Ev
    BY <1>6, <2>1, TailOf DEF Mark, Advance, Published
  <2>5. \A p \in Positions : accepted[p] \in Ev
    BY DEF Positions
  <2>6. Positions' = Positions /\ \A e : Seen(e)' = Seen(e)
    BY <2>2 DEF Positions, Seen, History
  <2>7. TypeOK'
    BY <2>1, <2>2 DEF Consumer, History
  <2> QED BY <1>6, <2>1, <2>2, <2>3, <2>4, <2>5, <2>6, <2>7 DEF Mark, Published, Consumer, History
<1>7. CASE Shutdown
  BY <1>7 DEF Shutdown, Rows, Dispatcher, Consumer, History, Published, Seen, Positions
<1>8. CASE DispatcherEnded
  BY <1>8 DEF DispatcherEnded, Rows, Dispatcher, Consumer, History, Published, Seen, Positions
<1>9. CASE DispatcherCancelled
  <2>1. /\ row' \in [Ev -> {"none", "pending", "sent"}]
        /\ \A e \in Ev : row'[e] = "sent" => row[e] = "sent" \/ Seen(e)
        /\ \A e \in Ev : row[e] # "none" => row'[e] # "none"
    <3>1. pc = "mark" => Head(batch) \in Ev /\ Seen(Head(batch))
      BY TailOf DEF Published
    <3> QED BY <1>9, <3>1 DEF DispatcherCancelled
  <2>2. /\ UNCHANGED <<known, hooks, queue, Consumer, History, errors>>
        /\ app' = "bus" /\ pc' = "ended" /\ batch' = <<>>
    BY <1>9 DEF DispatcherCancelled
  <2>3. \A p \in Positions : accepted[p] \in Ev
    BY DEF Positions
  <2>4. Positions' = Positions /\ \A e : Seen(e)' = Seen(e)
    BY <2>2 DEF Positions, Seen, History
  <2> QED BY <2>1, <2>2, <2>3, <2>4 DEF Published, Consumer, History
<1> QED BY <1>1, <1>2, <1>3, <1>4, <1>5, <1>6, <1>7, <1>8, <1>9 DEF Dispatching

(* The order of positions, and what waits.                                 *)
LEMMA DispatchingQueue ==
  ASSUME IInv, Dispatching
  PROVE  InOrder' /\ Accounted' /\ Called' /\ EndpointHistory'
<1> USE DEF IInv
<1>1. CASE Publish /\ Len(queue) < QueueSize
  <2> DEFINE n == Len(accepted) + 1
  <2>1. /\ accepted' = Append(accepted, Head(batch)) /\ fate' = Append(fate, "waiting")
        /\ queue' = Append(queue, n) /\ UNCHANGED <<app, stage, current, calls>>
    BY <1>1 DEF Publish, Rows, Consumer
  <2>2. /\ n \in Nat /\ Positions = 1..(n - 1) /\ Positions' = 1..n
        /\ \A p \in 1..(n - 1) : accepted'[p] = accepted[p]
    BY <2>1 DEF TypeOK, Positions
  <2>3. /\ DOMAIN fate' = 1..n /\ fate'[n] = "waiting" /\ \A p \in 1..(n - 1) : fate'[p] = fate[p]
    <3>1. Len(fate) = n - 1
      BY <2>2 DEF TypeOK, InOrder
    <3> QED BY <2>1, <2>2, <3>1 DEF TypeOK
  <2>4. /\ Len(queue) \in Nat /\ DOMAIN queue = 1..Len(queue) /\ DOMAIN queue' = 1..(Len(queue) + 1)
        /\ \A i \in DOMAIN queue : queue'[i] = queue[i] /\ queue[i] \in 1..(n - 1)
        /\ queue'[Len(queue) + 1] = n
    BY <2>1, <2>2 DEF TypeOK, InOrder
  <2>5. current \in 0..(n - 1)
    BY <2>2 DEF InOrder
  <2>6. \A i \in DOMAIN queue' : queue'[i] \in 1..n /\ (i \in DOMAIN queue \/ queue'[i] = n)
    BY <2>2, <2>4
  <2>7. InOrder'
    BY <2>1, <2>2, <2>3, <2>4, <2>5 DEF InOrder
  <2>8. Accounted'
    <3>1. app # "drained"
      BY <1>1 DEF Publish, Ended
    <3>2. n \in DOMAIN fate' /\ Len(queue) + 1 \in DOMAIN queue'
      BY <2>2, <2>3, <2>4
    <3> HIDE DEF n
    <3> QED BY <2>1, <2>2, <2>3, <2>4, <3>1, <3>2 DEF Accounted
  <2>9. Called'
    <3>1. \A h \in Hook : \A i \in DOMAIN calls[h] : calls[h][i].pos \in 1..(n - 1)
      BY <2>2 DEF Called
    <3> HIDE DEF n
    <3> QED BY <2>1, <2>2, <2>4, <2>6, <3>1 DEF Called
  <2> QED BY <2>1, <2>7, <2>8, <2>9 DEF EndpointHistory
<1>2. CASE ~(Publish /\ Len(queue) < QueueSize)
  <2>1. UNCHANGED <<queue, stage, current, accepted, fate, calls>> /\ app' # "drained" /\ ~Ended
    BY <1>2 DEF Dispatching, Write, Register, Fetch, StopSeen, Publish, Mark, Shutdown,
         DispatcherEnded, DispatcherCancelled, Consumer, History, Ended
  <2> QED BY <2>1 DEF InOrder, Accounted, Called, EndpointHistory, Positions, Ended
<1> QED BY <1>1, <1>2

(* What is served, and how.                                                *)
LEMMA DispatchingServing ==
  ASSUME IInv, Dispatching
  PROVE  Serving' /\ EveryEndpointIsTried'
<1>0. UNCHANGED <<Consumer, calls>>
  BY DispatchingType
<1>1. \A p \in Positions : accepted'[p] = accepted[p] /\ p \in DOMAIN accepted'
  <2>1. CASE Publish
    <3>1. Head(batch) \in Ev
      BY <2>1, TailOf DEF Publish, IInv, TypeOK, Published
    <3>2. accepted \in Seq(Ev) /\ (accepted' = accepted \/ accepted' = Append(accepted, Head(batch)))
      BY <2>1 DEF Publish, IInv, TypeOK
    <3> QED BY <3>1, <3>2 DEF Positions
  <2>2. CASE ~Publish
    BY <2>2 DEF Dispatching, Write, Register, Fetch, StopSeen, Mark, Shutdown,
         DispatcherEnded, DispatcherCancelled, History, Positions
  <2> QED BY <2>1, <2>2
<1>2. \A p \in DOMAIN accepted' : fate'[p] = "handled" => p \in Positions /\ fate[p] = "handled"
  <2>1. CASE Publish /\ Len(queue) < QueueSize
    <3>1. /\ accepted' = Append(accepted, Head(batch)) /\ fate' = Append(fate, "waiting")
          /\ accepted \in Seq(Ev) /\ fate \in Seq({"waiting", "handled", "unread", "cut"})
          /\ DOMAIN fate = DOMAIN accepted
      BY <2>1 DEF Publish, IInv, TypeOK, InOrder, Positions
    <3>2. Len(fate) = Len(accepted) /\ Len(fate) \in Nat
      BY <3>1
    <3> QED BY <3>1, <3>2 DEF Positions
  <2>2. CASE ~(Publish /\ Len(queue) < QueueSize)
    BY <2>2 DEF Dispatching, Write, Register, Fetch, StopSeen, Publish, Mark, Shutdown,
         DispatcherEnded, DispatcherCancelled, History, Positions
  <2> QED BY <2>1, <2>2
<1>3. \A p \in Positions : accepted[p] \in Ev /\ known'[accepted[p]] = known[accepted[p]]
  <2>1. \A p \in Positions : accepted[p] \in Ev /\ row[accepted[p]] # "none"
    BY DEF IInv, TypeOK, Published, Positions
  <2>2. ASSUME NEW e \in Ev, Write(e) PROVE \A d \in Ev : row[d] # "none" => known'[d] = known[d]
    BY <2>2 DEF Write, IInv, TypeOK
  <2>3. CASE ~\E e \in Ev : Write(e)
    BY <2>1, <2>3 DEF Dispatching, Register, Fetch, StopSeen, Publish, Mark, Shutdown,
         DispatcherEnded, DispatcherCancelled, Rows
  <2> QED BY <2>1, <2>2, <2>3
<1>4. \A h, p : Served(h, p)' = Served(h, p)
  BY <1>0 DEF Served
<1>5. Serving'
  <2>1. stage = "send" => current \in Positions
    BY DEF IInv, TypeOK, InOrder
  <2> QED BY <1>0, <1>1, <1>3, <1>4, <2>1 DEF IInv, Serving, Consumer
<1>6. EveryEndpointIsTried'
  BY <1>1, <1>2, <1>3, <1>4 DEF IInv, EveryEndpointIsTried, Positions
<1> QED BY <1>5, <1>6

-----------------------------------------------------------------------------
(* The consumer.                                                           *)
(* It leaves the dispatcher and the rows alone.                            *)
LEMMA ConsumeType ==
  ASSUME IInv, Consume
  PROVE  /\ TypeOK' /\ Published' /\ UNCHANGED <<Rows, app, Dispatcher, accepted, dropped>>
         /\ DOMAIN fate' = DOMAIN fate
<1>1. UNCHANGED <<Rows, app, Dispatcher, accepted, dropped>>
  BY DEF Consume, Get, Lookup, LookupRaises, Send, History
<1>2. Published'
  BY <1>1 DEF IInv, Published, Seen, Positions, Rows, Dispatcher
<1>3. queue' \in Seq(Nat \ {0}) /\ Len(queue') <= QueueSize
  <2>1. CASE Get
    BY <2>1, TailOf, BusAssumption DEF IInv, TypeOK, Get
  <2>2. CASE ~Get
    BY <2>2 DEF IInv, TypeOK, Consume, Lookup, LookupRaises, Send
  <2> QED BY <2>1, <2>2
<1>4. stage' \in {"get", "lookup", "send"} /\ current' \in Nat /\ attempt' \in 0..(MaxAttempts - 1)
  <2>1. MaxAttempts \in Nat \ {0} /\ attempt \in 0..(MaxAttempts - 1) /\ current \in Nat
        /\ stage \in {"get", "lookup", "send"}
    BY BusAssumption DEF IInv, TypeOK
  <2>2. CASE Get
    <3>1. queue # <<>> /\ Head(queue) \in Nat
      BY <2>2 DEF IInv, TypeOK, Get
    <3> QED BY <2>1, <2>2, <3>1 DEF Get
  <2>3. CASE Lookup \/ LookupRaises
    BY <2>1, <2>3 DEF Lookup, LookupRaises, Done
  <2>4. CASE Send
    <3>1. CASE NextHook
      BY <2>1, <2>4, <3>1 DEF NextHook, Done, Send
    <3>2. CASE ~LastAttempt /\ attempt' = attempt + 1 /\ UNCHANGED <<stage, current>>
      <4>1. attempt + 1 < MaxAttempts
        BY <2>1, <3>2 DEF LastAttempt
      <4> QED BY <2>1, <3>2, <4>1
    <3> QED BY <2>4, <3>1, <3>2 DEF Send
  <2> QED BY <2>2, <2>3, <2>4 DEF Consume
<1>5. todo' \in Seq(Hook)
  <2>0. todo \in Seq(Hook) /\ <<>> \in Seq(Hook)
    BY EmptySeq DEF IInv, TypeOK
  <2>1. CASE Get \/ LookupRaises
    BY <2>0, <2>1 DEF Get, LookupRaises, Done
  <2>2. CASE Lookup
    BY <2>0, <2>2, TodoOf DEF IInv, Published, Lookup, Done
  <2>3. CASE Send
    <3>1. todo \in Seq(Hook) /\ todo # <<>>
      BY <2>3 DEF Send, IInv, TypeOK, Serving
    <3>2. Tail(todo) \in Seq(Hook)
      BY <3>1
    <3>3. todo' \in {<<>>, Tail(todo), todo}
      BY <2>3 DEF Send, NextHook, Done
    <3> QED BY <2>0, <3>2, <3>3
  <2> QED BY <2>1, <2>2, <2>3 DEF Consume
<1>6. fate' \in Seq({"waiting", "handled", "unread", "cut"}) /\ DOMAIN fate' = DOMAIN fate
  <2>1. fate' = fate \/ \E f \in {"handled", "unread"} : fate' = [fate EXCEPT ![current] = f]
    BY DEF Consume, Get, Lookup, LookupRaises, Send, NextHook, Done, History
  <2>2. current \notin DOMAIN fate => fate' = fate
    BY <2>1 DEF IInv, TypeOK
  <2> DEFINE F == {"waiting", "handled", "unread", "cut"}
  <2>3. fate \in Seq(F)
    BY DEF IInv, TypeOK
  <2> HIDE DEF F
  <2>4. ASSUME NEW f \in F, current \in DOMAIN fate
        PROVE  LET g == [fate EXCEPT ![current] = f] IN g \in Seq(F) /\ DOMAIN g = DOMAIN fate
    BY <2>3, <2>4, ExceptSeq
  <2>5. fate' \in Seq(F) /\ DOMAIN fate' = DOMAIN fate
    BY <2>1, <2>2, <2>3, <2>4 DEF F
  <2> QED BY <2>5 DEF F
<1>7. calls' \in [Hook -> Seq([pos : Nat \ {0}, ok : BOOLEAN])]
  <2>1. CASE Send
    BY <2>1, Requested DEF Send, NewCall
  <2>2. CASE ~Send
    BY <2>2 DEF Consume, Get, Lookup, LookupRaises, History, IInv, TypeOK
  <2> QED BY <2>1, <2>2
<1>8. errors' \in 0..MaxErrors
  <2>1. errors' = errors \/ (errors < MaxErrors /\ errors' = errors + 1)
    BY DEF Consume, Get, Lookup, LookupRaises, Send, Error
  <2>2. errors \in 0..MaxErrors /\ MaxErrors \in Nat
    BY BusAssumption DEF IInv, TypeOK
  <2> QED BY <2>1, <2>2
<1> QED BY <1>1, <1>2, <1>3, <1>4, <1>5, <1>6, <1>7, <1>8 DEF IInv, TypeOK, Rows, Dispatcher

(* A request adds a call for the position in hand, and nothing else.       *)
LEMMA CallsOf ==
  ASSUME IInv, Consume, NEW h \in Hook, NEW i \in DOMAIN calls'[h]
  PROVE  \/ i \in DOMAIN calls[h] /\ calls'[h][i] = calls[h][i]
         \/ stage = "send" /\ h = todo[1] /\ calls'[h][i].pos = current
<1>1. CASE ~Send
  BY <1>1 DEF Consume, Get, Lookup, LookupRaises, History
<1>2. CASE Send
  <2>1. stage = "send" /\ \E ok \in BOOLEAN : Request(ok)
    BY <1>2 DEF Send
  <2>2. PICK ok \in BOOLEAN : NewCall(ok)
    BY <2>1, Requested
  <2>3. CASE h # todo[1]
    BY <2>2, <2>3 DEF NewCall
  <2>4. CASE h = todo[1]
    <3>1. CASE i \in DOMAIN calls[h]
      BY <2>2, <2>4, <3>1 DEF NewCall
    <3>2. CASE i \notin DOMAIN calls[h]
      <4>1. i = Len(calls[todo[1]]) + 1
        BY <2>2, <2>4, <3>2 DEF NewCall
      <4> QED BY <2>1, <2>2, <2>4, <4>1 DEF NewCall
    <3> QED BY <3>1, <3>2
  <2> QED BY <2>3, <2>4
<1> QED BY <1>1, <1>2

LEMMA ConsumeQueue ==
  ASSUME IInv, Consume
  PROVE  InOrder' /\ Accounted' /\ Called'
<1>0. /\ UNCHANGED <<app, accepted>> /\ DOMAIN fate' = DOMAIN fate
      /\ Positions' = Positions /\ Positions \subseteq Nat \ {0} /\ DOMAIN fate = Positions
      /\ app # "drained"
  <2>1. UNCHANGED <<Rows, app, Dispatcher, accepted, dropped>> /\ DOMAIN fate' = DOMAIN fate
    BY ConsumeType
  <2>2. Positions \subseteq Nat \ {0} /\ DOMAIN fate = Positions
    BY DEF IInv, TypeOK, InOrder, Positions
  <2> QED BY <2>1, <2>2 DEF Positions, Consume, Get, Lookup, LookupRaises, Send, Ended
<1>00. \A p \in Positions : p \in Nat /\ 0 < p
  BY <1>0
<1>1. CASE Get
  <2>1. /\ stage = "get" /\ current = 0 /\ current' = queue[1] /\ queue' = Tail(queue)
        /\ stage' = "lookup" /\ UNCHANGED <<fate, calls>>
        /\ DOMAIN queue = 1..Len(queue) /\ 1 \in DOMAIN queue
        /\ \A i \in DOMAIN queue' : i \in Nat /\ i + 1 \in DOMAIN queue /\ queue'[i] = queue[i + 1]
        /\ \A i \in DOMAIN queue : i \in Nat /\ (i = 1 \/ (i - 1 \in DOMAIN queue' /\ queue'[i - 1] = queue[i]))
    <3>1. queue \in Seq(Nat \ {0}) /\ queue # <<>>
      BY <1>1 DEF IInv, TypeOK, Get
    <3>2. Len(queue) \in Nat \ {0} /\ DOMAIN queue = 1..Len(queue) /\ Tail(queue) \in Seq(Nat \ {0})
      BY <3>1, TailOf
    <3>3. DOMAIN Tail(queue) \subseteq Nat
      BY <3>2
    <3>4. Head(queue) = queue[1] /\ current = 0
      BY <3>1, <1>1, TailOf DEF Get, IInv, InOrder
    <3>5. /\ \A i \in DOMAIN Tail(queue) : i + 1 \in DOMAIN queue /\ Tail(queue)[i] = queue[i + 1]
          /\ \A i \in DOMAIN queue : i = 1 \/ (i - 1 \in DOMAIN Tail(queue) /\ Tail(queue)[i - 1] = queue[i])
      BY <3>1, TailOf
    <3> QED BY <1>1, <3>2, <3>3, <3>4, <3>5 DEF Get, History
  <2>2. InOrder'
    BY <2>1, <1>0 DEF IInv, InOrder
  <2>3. Accounted'
    <3>1. ASSUME NEW p \in Positions, fate[p] = "waiting"
          PROVE  p = current' \/ \E i \in DOMAIN queue' : queue'[i] = p
      <4>1. PICK i \in DOMAIN queue : queue[i] = p
        BY <2>1, <3>1, <1>0 DEF IInv, Accounted
      <4> QED BY <2>1, <4>1
    <3> QED BY <2>1, <3>1, <1>0 DEF IInv, Accounted
  <2>4. Called'
    BY <2>1, <1>0 DEF IInv, Called
  <2> QED BY <2>2, <2>3, <2>4
<1>2. CASE ~Get
  <2>1. /\ queue' = queue /\ current \in Positions /\ stage # "get"
        /\ \/ stage' = "get" /\ current' = 0 /\ fate'[current] \in {"handled", "unread"}
              /\ \A p \in Positions : p # current => fate'[p] = fate[p]
           \/ stage' = "send" /\ current' = current /\ fate' = fate
    <3>1. queue' = queue /\ stage # "get" /\ current \in Positions
      BY <1>2 DEF Consume, Lookup, LookupRaises, Send, IInv, InOrder
    <3>2. CASE Done("handled") \/ Done("unread")
      BY <3>1, <3>2, <1>0 DEF Done
    <3>3. CASE stage' = "send" /\ current' = current /\ fate' = fate
      BY <3>1, <3>3
    <3>4. CASE Lookup \/ LookupRaises
      BY <3>2, <3>3, <3>4 DEF Lookup, LookupRaises
    <3>5. CASE Send
      BY <3>2, <3>3, <3>5 DEF Send, NextHook
    <3> QED BY <1>2, <3>4, <3>5 DEF Consume
  <2>2. InOrder'
    <3>1. /\ \A i \in DOMAIN queue : queue[i] \in Positions /\ current < queue[i] /\ 0 < queue[i]
          /\ \A i, j \in DOMAIN queue : i < j => queue[i] < queue[j]
      BY <1>00 DEF IInv, InOrder
    <3>2. current' \in {0, current} /\ current # 0 /\ (stage' = "get" <=> current' = 0)
          /\ (current' # 0 => current' = current)
      BY <2>1, <1>0
    <3> HIDE DEF IInv
    <3> QED BY <2>1, <1>0, <3>1, <3>2 DEF InOrder
  <2>3. Accounted'
    BY <2>1, <1>0 DEF IInv, Accounted
  <2>4. Called'
    <3>1. ASSUME NEW h \in Hook, NEW i \in DOMAIN calls'[h]
          PROVE  /\ calls'[h][i].pos \in Positions
                 /\ \A j \in DOMAIN queue : calls'[h][i].pos < queue[j]
                 /\ calls'[h][i].pos <= current
      <4>1. current \in Nat /\ \A j \in DOMAIN queue : current < queue[j]
        BY DEF IInv, InOrder, TypeOK
      <4>2. CASE i \in DOMAIN calls[h] /\ calls'[h][i] = calls[h][i]
        <5>1. /\ calls[h][i].pos \in Positions
              /\ \A j \in DOMAIN queue : calls[h][i].pos < queue[j]
              /\ calls[h][i].pos < current \/ calls[h][i].pos <= current
          BY <2>1, <4>2 DEF IInv, Called, TypeOK
        <5>2. calls[h][i].pos \in Nat /\ calls[h][i].pos <= current
          BY <4>1, <5>1, <1>00
        <5> QED BY <4>2, <5>1, <5>2
      <4>3. CASE calls'[h][i].pos = current
        BY <2>1, <4>1, <4>3
      <4> QED BY <4>2, <4>3, CallsOf
    <3> QED BY <2>1, <3>1, <1>0 DEF Called
  <2> QED BY <2>2, <2>3, <2>4
<1> QED BY <1>1, <1>2

LEMMA ServedAfter ==
  ASSUME IInv, Consume, NEW h \in Hook, NEW p, Served(h, p)
  PROVE  Served(h, p)'
<1>1. CASE Send
  <2>1. stage = "send" /\ \E ok \in BOOLEAN : Request(ok)
    BY <1>1 DEF Send
  <2> QED BY <2>1, ServedStays
<1>2. CASE ~Send
  BY <1>2 DEF Consume, Get, Lookup, LookupRaises, History, Served
<1> QED BY <1>1, <1>2

(* Once the first webhook is served, what is left is after it in todo.     *)
LEMMA LeftToServe ==
  ASSUME IInv, stage = "send", NEW ok \in BOOLEAN, Request(ok), ok \/ LastAttempt,
         NEW p, p = current,
         NEW h \in known[accepted[p]], accepted[p] \in Wants[h]
  PROVE  /\ h \in Hook
         /\ Served(h, p)' \/ \E k \in DOMAIN todo : k > 1 /\ todo[k] = h
<1>1. h \in Hook /\ (Served(h, p) \/ \E k \in DOMAIN todo : todo[k] = h)
  BY DEF IInv, TypeOK, InOrder, Positions, Serving
<1>2. CASE Served(h, p)
  BY <1>1, <1>2, ServedStays
<1>3. CASE \E k \in DOMAIN todo : todo[k] = h
  <2>1. PICK k \in DOMAIN todo : todo[k] = h
    BY <1>3
  <2>2. k \in Nat /\ k >= 1
    BY <2>1 DEF IInv, TypeOK
  <2>3. CASE k = 1
    BY <1>1, <2>1, <2>3, FirstIsServed
  <2> QED BY <1>1, <2>1, <2>2, <2>3
<1> QED BY <1>1, <1>2, <1>3

LEMMA ConsumeTried ==
  ASSUME IInv, Consume
  PROVE  EveryEndpointIsTried' /\ EndpointHistory'
<1>1. EndpointHistory'
  <2>1. CASE Send
    <3>1. stage = "send" /\ \E ok \in BOOLEAN : Request(ok)
      BY <2>1 DEF Send
    <3> QED BY <3>1, RequestKeepsHistory
  <2>2. CASE ~Send
    BY <2>2 DEF Consume, Get, Lookup, LookupRaises, History, IInv, EndpointHistory
  <2> QED BY <2>1, <2>2
<1>2. EveryEndpointIsTried'
  <2>0. UNCHANGED <<known, accepted>> /\ \A p \in Positions : known[accepted[p]] \subseteq Hook
    BY ConsumeType DEF Rows, IInv, TypeOK, Positions
  <2> SUFFICES ASSUME NEW p \in Positions, fate'[p] = "handled",
                      NEW h \in known[accepted[p]], accepted[p] \in Wants[h]
               PROVE  Served(h, p)'
    BY <2>0 DEF EveryEndpointIsTried, Positions
  <2>1. h \in Hook
    BY <2>0
  <2>2. CASE fate[p] = "handled"
    <3>1. Served(h, p)
      BY <2>2 DEF IInv, EveryEndpointIsTried
    <3> QED BY <2>1, <3>1, ServedAfter
  <2>3. CASE fate[p] # "handled"
    <3>1. p = current /\ Done("handled") /\ (Lookup \/ Send)
      <4>1. fate' # fate /\ fate'[p] # fate[p]
        BY <2>3
      <4>2. Done("handled") \/ Done("unread")
        BY <4>1 DEF Consume, Get, Lookup, LookupRaises, Send, NextHook, History
      <4>3. p = current /\ p \in DOMAIN fate
        BY <4>1, <4>2 DEF Done, IInv, InOrder
      <4>4. Done("handled")
        BY <4>2, <4>3 DEF Done
      <4>5. ~Get /\ ~LookupRaises
        BY <4>1, <4>3 DEF Get, LookupRaises, Done, History
      <4> QED BY <4>3, <4>4, <4>5 DEF Consume
    <3>2. CASE Lookup
      <4>1. Wanting = {}
        BY <3>1, <3>2 DEF Lookup, Done
      <4>2. h \in hooks
        BY DEF IInv, TypeOK, Published, Positions
      <4> QED BY <3>1, <4>1, <4>2 DEF Wanting
    <3>3. CASE Send
      <4>1. /\ stage = "send" /\ stage' = "get"
            /\ \E ok \in BOOLEAN : Request(ok) /\ (ok \/ LastAttempt) /\ NextHook
        BY <3>1, <3>3 DEF Send, Done
      <4>2. Len(todo) = 1
        BY <4>1 DEF NextHook
      <4>3. ~\E k \in DOMAIN todo : k > 1 /\ todo[k] = h
        BY <4>2 DEF IInv, TypeOK
      <4> QED BY <3>1, <4>1, <4>3, LeftToServe
    <3> QED BY <3>1, <3>2, <3>3
  <2> QED BY <2>2, <2>3
<1> QED BY <1>1, <1>2

LEMMA ConsumeServing ==
  ASSUME IInv, Consume
  PROVE  Serving'
<1>0. UNCHANGED <<known, hooks, accepted>> /\ (stage # "get" => current \in Positions)
      /\ accepted[current] = accepted'[current]
  BY ConsumeType DEF Rows, IInv, InOrder
<1>1. CASE stage' # "send"
  <2>1. attempt' = 0
    BY <1>1 DEF Consume, Get, Lookup, LookupRaises, Send, NextHook, Done, IInv, Serving
  <2> QED BY <1>1, <2>1 DEF Serving
<1>2. CASE Lookup /\ stage' = "send"
  <2>1. /\ Wanting # {} /\ todo' \in Bijection(1..Cardinality(Wanting), Wanting)
        /\ UNCHANGED <<current, attempt, calls>> /\ stage = "lookup" /\ attempt = 0
    BY <1>2 DEF Lookup, Done, IInv, Serving
  <2>2. /\ todo' \in Seq(Hook) /\ todo' # <<>> /\ IsInjective(todo')
        /\ \A h \in Wanting : \E k \in DOMAIN todo' : todo'[k] = h
    BY <2>1, TodoOf DEF IInv, Published
  <2>3. todo'[1] \in Hook /\ \A k \in DOMAIN todo' : todo'[k] \in Hook
    BY <2>2
  <2>4. \A h \in Hook : \A i \in DOMAIN calls[h] : calls[h][i].pos < current
    BY <2>1 DEF IInv, Called
  <2>5. \A h \in Hook : calls[h] \in Seq([pos : Nat \ {0}, ok : BOOLEAN])
    BY DEF IInv, TypeOK
  <2>6. attempt' <= Len(calls'[todo'[1]])
    BY <2>1, <2>3, <2>5
  <2>7. \A i \in DOMAIN calls'[todo'[1]] :
          ~(calls'[todo'[1]][i].pos = current') /\ ~(i > Len(calls'[todo'[1]]) - attempt')
    <3>1. ASSUME NEW i \in DOMAIN calls[todo'[1]]
          PROVE  calls[todo'[1]][i].pos # current /\ ~(i > Len(calls[todo'[1]]) - 0)
      <4>1. calls[todo'[1]] \in Seq([pos : Nat \ {0}, ok : BOOLEAN]) /\ current \in Nat
        BY <2>3, <2>5 DEF IInv, TypeOK
      <4>2. calls[todo'[1]][i].pos < current /\ calls[todo'[1]][i].pos \in Nat
        <5>1. calls[todo'[1]][i] \in [pos : Nat \ {0}, ok : BOOLEAN]
          BY <4>1, ElementOf
        <5> QED BY <2>3, <2>4, <5>1
      <4>3. i \in 1..Len(calls[todo'[1]]) /\ Len(calls[todo'[1]]) \in Nat
        BY <4>1, ElementOf
      <4> QED BY <4>1, <4>2, <4>3
    <3> QED BY <2>1, <3>1
  <2>8. \A h \in known'[accepted'[current']] : accepted'[current'] \in Wants[h] =>
          \E k \in DOMAIN todo' : todo'[k] = h
    <3>1. accepted[current] \in Ev /\ known[accepted[current]] \subseteq hooks
      BY <1>0, <2>1 DEF IInv, TypeOK, Published, Positions
    <3> QED BY <1>0, <2>1, <2>2, <3>1 DEF Wanting
  <2> QED BY <1>2, <2>1, <2>2, <2>3, <2>4, <2>6, <2>7, <2>8 DEF Serving
<1>3. CASE Send /\ stage' = "send"
  <2>0. stage = "send" /\ current' = current /\ todo \in Seq(Hook) /\ todo # <<>> /\ current \in Positions
    BY <1>0, <1>3 DEF Send, NextHook, Done, IInv, TypeOK, Serving
  <2>1. CASE \E ok \in BOOLEAN : Request(ok) /\ (ok \/ LastAttempt) /\ NextHook
    <3>1. PICK ok \in BOOLEAN : Request(ok) /\ (ok \/ LastAttempt) /\ NextHook
      BY <2>1
    <3>2. Len(todo) > 1 /\ todo' = Tail(todo) /\ attempt' = 0
      BY <1>3, <3>1 DEF NextHook, Done
    <3>3. /\ todo' \in Seq(Hook) /\ 1 \in DOMAIN todo /\ todo' # <<>>
          /\ \A k \in DOMAIN todo' : k \in Nat /\ k >= 1 /\ k + 1 \in DOMAIN todo /\ todo'[k] = todo[k + 1]
          /\ \A k \in DOMAIN todo : k \in Nat /\ (k = 1 \/ (k - 1 \in DOMAIN todo' /\ todo'[k - 1] = todo[k]))
          /\ 1 \in DOMAIN todo'
      <4>1. /\ Tail(todo) \in Seq(Hook) /\ Len(Tail(todo)) = Len(todo) - 1
            /\ Len(todo) \in Nat \ {0}
            /\ \A i \in DOMAIN Tail(todo) : i + 1 \in DOMAIN todo /\ Tail(todo)[i] = todo[i + 1]
            /\ \A i \in DOMAIN todo : i = 1 \/ (i - 1 \in DOMAIN Tail(todo) /\ Tail(todo)[i - 1] = todo[i])
        BY <2>0, TailOf
      <4>2. DOMAIN todo = 1..Len(todo) /\ DOMAIN Tail(todo) = 1..(Len(todo) - 1)
        BY <2>0, <4>1
      <4>3. Len(todo) # 1 /\ Tail(todo) # <<>>
        BY <2>0, <3>2, <4>1, MoreThanOne
      <4>4. 1 \in DOMAIN todo /\ 1 \in 1..(Len(todo) - 1)
        BY <3>2, <4>1, <4>2
      <4>5. \A k \in DOMAIN todo : k \in Nat
        BY <4>1, <4>2
      <4>6. \A k \in DOMAIN Tail(todo) : k \in Nat /\ k >= 1
        BY <4>1, <4>2
      <4> QED BY <3>2, <4>1, <4>2, <4>3, <4>4, <4>5, <4>6
    <3>4. /\ IsInjective(todo)
          /\ \A k \in DOMAIN todo : k > 1 =>
               \A i \in DOMAIN calls[todo[k]] : calls[todo[k]][i].pos < current
      BY <2>0 DEF IInv, Serving
    <3>5. NewCall(ok)
      BY <2>0, <3>1, Requested
    <3>6. ASSUME NEW k \in DOMAIN todo, k > 1 PROVE calls'[todo[k]] = calls[todo[k]] /\ todo[k] \in Hook
      <4>1. todo[k] # todo[1] /\ todo[k] \in Hook
        BY <2>0, <3>3, <3>4, <3>6 DEF IsInjective
      <4> QED BY <3>5, <4>1 DEF NewCall
    <3>7. IsInjective(todo')
      <4> SUFFICES ASSUME NEW i \in DOMAIN todo', NEW j \in DOMAIN todo', todo'[i] = todo'[j]
                   PROVE  i = j
        BY DEF IsInjective
      <4>1. /\ i + 1 \in DOMAIN todo /\ j + 1 \in DOMAIN todo /\ i \in Nat /\ j \in Nat
            /\ todo[i + 1] = todo[j + 1]
        BY <3>3
      <4>2. i + 1 = j + 1
        BY <3>4, <4>1 DEF IsInjective
      <4> QED BY <4>1, <4>2
    <3>8. \A k \in DOMAIN todo' : /\ todo'[k] \in Hook
            /\ \A i \in DOMAIN calls'[todo'[k]] : calls'[todo'[k]][i].pos < current
      <4>1. ASSUME NEW k \in DOMAIN todo' PROVE k + 1 \in DOMAIN todo /\ k + 1 > 1 /\ todo'[k] = todo[k + 1]
        BY <3>3
      <4> QED BY <4>1, <3>4, <3>6
    <3>9. calls'[todo'[1]] \in Seq([pos : Nat \ {0}, ok : BOOLEAN])
      BY <3>3, <3>5, <3>8 DEF NewCall
    <3>10. attempt' <= Len(calls'[todo'[1]])
      BY <3>2, <3>9
    <3>11. \A i \in DOMAIN calls'[todo'[1]] :
             ~(calls'[todo'[1]][i].pos = current') /\ ~(i > Len(calls'[todo'[1]]) - attempt')
      <4>1. ASSUME NEW i \in DOMAIN calls'[todo'[1]]
            PROVE  calls'[todo'[1]][i].pos # current /\ ~(i > Len(calls'[todo'[1]]) - 0)
        <5>1. current \in Nat /\ calls'[todo'[1]][i].pos \in Nat /\ calls'[todo'[1]][i].pos < current
          <6>1. calls'[todo'[1]][i] \in [pos : Nat \ {0}, ok : BOOLEAN]
            BY <3>9, ElementOf
          <6>2. current \in Nat
            BY DEF IInv, TypeOK
          <6> QED BY <3>3, <3>8, <6>1, <6>2
        <5>2. i \in 1..Len(calls'[todo'[1]]) /\ Len(calls'[todo'[1]]) \in Nat
          BY <3>9
        <5> QED BY <5>1, <5>2
      <4> QED BY <2>0, <3>2, <4>1
    <3>12. ASSUME NEW p, p = current, NEW h \in known[accepted[p]], accepted[p] \in Wants[h]
           PROVE  Served(h, p)' \/ \E k \in DOMAIN todo' : todo'[k] = h
      <4>1. Served(h, p)' \/ \E k \in DOMAIN todo : k > 1 /\ todo[k] = h
        BY <2>0, <3>1, <3>12, LeftToServe
      <4> QED BY <3>3, <4>1
    <3>13. PICK p : p = current
      OBVIOUS
    <3>14. \A h \in known'[accepted'[current']] : accepted'[current'] \in Wants[h] =>
             Served(h, current)' \/ \E k \in DOMAIN todo' : todo'[k] = h
      BY <1>0, <2>0, <3>12, <3>13 DEF Served
    <3> QED BY <1>3, <2>0, <3>2, <3>3, <3>7, <3>8, <3>10, <3>11, <3>14 DEF Serving
  <2>2. CASE Request(FALSE) /\ attempt' = attempt + 1 /\ todo' = todo
    <3> DEFINE t == todo[1]
               n == Len(calls[t])
    <3>1. NewCall(FALSE)
      BY <2>0, <2>2, Requested
    <3>2. /\ t \in Hook /\ n \in Nat /\ DOMAIN calls[t] = 1..n /\ DOMAIN calls'[t] = 1..(n + 1)
          /\ Len(calls'[t]) = n + 1 /\ calls'[t][n + 1] = [pos |-> current, ok |-> FALSE]
          /\ \A i \in 1..n : calls'[t][i] = calls[t][i]
      BY <3>1 DEF NewCall
    <3>3. attempt \in Nat /\ attempt <= n
      BY <2>0 DEF IInv, TypeOK, Serving
    <3>4. \A i \in DOMAIN calls'[t] :
            /\ calls'[t][i].pos = current <=> i > Len(calls'[t]) - attempt'
            /\ calls'[t][i].pos = current => ~calls'[t][i].ok
      <4>1. ASSUME NEW i \in 1..n PROVE /\ calls[t][i].pos = current <=> i > n - attempt
                                        /\ calls[t][i].pos = current => ~calls[t][i].ok
        BY <2>0, <3>2 DEF IInv, Serving
      <4>2. Len(calls'[t]) - attempt' = n - attempt /\ n + 1 > n - attempt
        BY <2>2, <3>2, <3>3
      <4>3. \A i \in DOMAIN calls'[t] : i \in 1..n \/ i = n + 1
        BY <3>2
      <4> HIDE DEF n, t
      <4> QED BY <3>2, <4>1, <4>2, <4>3
    <3>5. \A k \in DOMAIN todo : k > 1 => todo[k] # t /\ todo[k] \in Hook
      BY <2>0 DEF IInv, Serving, IsInjective
    <3>6. \A k \in DOMAIN todo : k > 1 =>
            \A i \in DOMAIN calls'[todo[k]] : calls'[todo[k]][i].pos < current
      <4>1. \A k \in DOMAIN todo : k > 1 => calls'[todo[k]] = calls[todo[k]]
        BY <3>1, <3>5 DEF NewCall
      <4> QED BY <2>0, <4>1 DEF IInv, Serving
    <3>9. PICK p : p = current
      OBVIOUS
    <3>10. ASSUME NEW h \in known[accepted[p]], accepted[p] \in Wants[h]
           PROVE  Served(h, p)' \/ \E k \in DOMAIN todo : todo[k] = h
      <4>1. h \in Hook
        BY <2>0, <3>9 DEF IInv, TypeOK, Positions
      <4>2. Served(h, p) \/ \E k \in DOMAIN todo : todo[k] = h
        BY <2>0, <3>9, <3>10 DEF IInv, Serving
      <4> QED BY <4>1, <4>2, ServedAfter
    <3>7. \A h \in known'[accepted'[current']] : accepted'[current'] \in Wants[h] =>
             Served(h, current)' \/ \E k \in DOMAIN todo' : todo'[k] = h
      BY <1>0, <2>0, <2>2, <3>9, <3>10 DEF Served
    <3>8. todo' # <<>> /\ IsInjective(todo') /\ attempt' <= Len(calls'[t])
      BY <2>0, <2>2, <3>2, <3>3 DEF IInv, Serving
    <3> QED BY <1>3, <2>0, <2>2, <3>4, <3>6, <3>7, <3>8 DEF Serving
  <2> QED BY <1>3, <2>1, <2>2 DEF Send
<1>4. stage' = "send" => Lookup \/ Send
  BY DEF Consume, Get, LookupRaises, Done
<1> QED BY <1>1, <1>2, <1>3, <1>4

-----------------------------------------------------------------------------
(* The end of the process, and the theorems.                               *)
LEMMA EndingIInv ==
  ASSUME IInv, Drained \/ DrainCancelled \/ Kill
  PROVE  IInv'
<1>1. UNCHANGED <<Rows, Dispatcher, queue, Consumer, accepted, dropped, calls, errors>>
  BY DEF Drained, DrainCancelled, Kill, End, History
<1>2. CASE Drained
  <2>1. fate' = fate /\ app' = "drained" /\ app = "bus" /\ queue = <<>> /\ current = 0
    BY <1>2 DEF Drained, History
  <2>2. \A p \in Positions : fate[p] # "waiting" /\ fate[p] # "cut"
    BY <2>1 DEF IInv, TypeOK, InOrder, Accounted, Positions
  <2>3. TypeOK' /\ Published'
    BY <1>1, <2>1 DEF IInv, TypeOK, Published, Seen, Positions, Rows, Dispatcher, Consumer
  <2>4. InOrder' /\ Accounted' /\ Called'
    BY <1>1, <2>1, <2>2 DEF IInv, InOrder, Accounted, Called, Positions, Consumer
  <2>5. Serving' /\ EveryEndpointIsTried' /\ EndpointHistory'
    BY <1>1, <2>1 DEF IInv, Serving, Served, EveryEndpointIsTried, EndpointHistory, Positions, Rows, Consumer
  <2> QED BY <2>3, <2>4, <2>5 DEF IInv
<1>3. CASE DrainCancelled \/ Kill
  <2>1. /\ app' \in {"cancelled", "killed"}
        /\ fate' = [p \in DOMAIN fate |-> IF fate[p] = "waiting" THEN "cut" ELSE fate[p]]
    BY <1>3 DEF DrainCancelled, Kill, End
  <2>2. /\ DOMAIN fate' = DOMAIN fate /\ fate' \in Seq({"waiting", "handled", "unread", "cut"})
        /\ \A p \in DOMAIN fate : fate'[p] = "handled" => fate[p] = "handled"
        /\ \A p \in DOMAIN fate : fate'[p] # "waiting"
    <3>1. fate \in Seq({"waiting", "handled", "unread", "cut"})
      BY DEF IInv, TypeOK
    <3>2. Len(fate) \in Nat /\ DOMAIN fate = 1..Len(fate)
      BY <3>1
    <3> QED BY <2>1, <3>1, <3>2
  <2>3. TypeOK' /\ Published'
    BY <1>1, <2>1, <2>2 DEF IInv, TypeOK, Published, Seen, Positions, Rows, Dispatcher, Consumer
  <2>4. InOrder' /\ Accounted' /\ Called'
    BY <1>1, <2>1, <2>2 DEF IInv, InOrder, Accounted, Called, Positions, Consumer
  <2>5. Serving' /\ EndpointHistory'
    BY <1>1 DEF IInv, Serving, Served, EndpointHistory, Rows, Consumer
  <2>6. EveryEndpointIsTried'
    BY <1>1, <2>2 DEF IInv, InOrder, Served, EveryEndpointIsTried, Positions, Rows
  <2> QED BY <2>3, <2>4, <2>5, <2>6 DEF IInv
<1> QED BY <1>2, <1>3

(* Every step keeps the invariant.                                         *)
LEMMA StepIInv == IInv /\ [Next]_vars => IInv'
<1> SUFFICES ASSUME IInv, [Next]_vars PROVE IInv'
  OBVIOUS
<1>1. CASE Dispatching
  BY <1>1, DispatchingType, DispatchingQueue, DispatchingServing DEF IInv
<1>2. CASE Consume
  BY <1>2, ConsumeType, ConsumeQueue, ConsumeTried, ConsumeServing DEF IInv
<1>3. CASE Drained \/ DrainCancelled \/ Kill
  BY <1>3, EndingIInv
<1>4. CASE UNCHANGED vars
  BY <1>4 DEF vars, Rows, Dispatcher, Consumer, History, IInv, TypeOK, Published, Seen, InOrder,
       Accounted, Called, Serving, Served, EveryEndpointIsTried, EndpointHistory, Positions
<1> QED BY <1>1, <1>2, <1>3, <1>4 DEF Next, Dispatch, Teardown, Dispatching

THEOREM Invariance == Spec => []IInv
<1>1. Init => IInv
  BY InitIInv
<1>2. IInv /\ [Next]_vars => IInv'
  BY StepIInv
<1> QED BY <1>1, <1>2, PTL DEF Spec

(* The variables keep their types.                                         *)
THEOREM TypeCorrect == Spec => []TypeOK
<1>1. IInv => TypeOK
  BY DEF IInv
<1> QED BY <1>1, Invariance, PTL

(* However many webhooks there are and whichever of them fail, an event    *)
(* that was handled has been delivered to each that wanted it when it was  *)
(* written, or tried MaxAttempts times (WebhookSubscriber.__call__).       *)
THEOREM EveryEndpointIsTriedHolds == Spec => []EveryEndpointIsTried
<1>1. IInv => EveryEndpointIsTried
  BY DEF IInv
<1> QED BY <1>1, Invariance, PTL

(* An endpoint sees events in the order the queue accepted them, never     *)
(* again after its 2xx, and at most MaxAttempts times (_deliver).          *)
THEOREM EndpointHistoryHolds == Spec => []EndpointHistory
<1>1. IInv => EndpointHistory
  BY DEF IInv
<1> QED BY <1>1, Invariance, PTL

(* A teardown without a timeout leaves no event marked sent that the       *)
(* handlers have not had (lifespan in app.py, the two acloses).            *)
THEOREM CleanStopHolds == Spec => []CleanStop
<1>1. IInv => CleanStop
  <2> SUFFICES ASSUME IInv, app = "drained", NEW e \in Ev, row[e] = "sent"
               PROVE  \/ e \in dropped
                      \/ \E p \in Positions : accepted[p] = e /\ fate[p] \in {"handled", "unread"}
    BY DEF CleanStop
  <2>1. e \in dropped \/ \E p \in Positions : accepted[p] = e
    BY DEF IInv, Published, Seen
  <2>2. \A p \in Positions : fate[p] \in {"handled", "unread"}
    BY DEF IInv, TypeOK, InOrder, Accounted
  <2> QED BY <2>1, <2>2
<1> QED BY <1>1, Invariance, PTL
=============================================================================
