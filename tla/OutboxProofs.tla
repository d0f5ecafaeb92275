---------------------------- MODULE OutboxProofs ----------------------------
(***************************************************************************)
(* Proofs about OutboxDispatch, for any events, any number of dispatchers, *)
(* any batch size, number of attempts and queue size, and any number of    *)
(* faults: a row is dead only after MaxAttempts failures and lives as      *)
(* OutboxRow says, and its event is not lost as long as no bus is full and *)
(* no process stops with events in its queue.                              *)
(*                                                                         *)
(* The argument is about the copies that dispatchers hold: a copy is of a  *)
(* row that has been written, no worker has two of one row, and as long as *)
(* one is held the failures counted for its event do not go back.          *)
(***************************************************************************)
EXTENDS OutboxDispatch, SequenceTheorems, TLAPS

(* The line: pending rows, each once.                                      *)
LineOfPending ==
  /\ IsInjective(line)
  /\ \A i \in DOMAIN line : row[line[i]].status = "pending"

(* The batches: a worker has one unless it polls, of distinct rows.        *)
BatchOfRows ==
  \A w \in Worker :
    /\ pc[w] = "poll" <=> batch[w] = <<>>
    /\ \A i, j \in DOMAIN batch[w] : batch[w][i].ev = batch[w][j].ev => i = j
    /\ \A i \in DOMAIN batch[w] : row[batch[w][i].ev].status # "none"

(* Attempts, in rows and in copies, are failures that were counted.        *)
Counted ==
  /\ \A e \in Ev : row[e].status = "none" => row[e].attempts = 0
  /\ \A e \in Ev : row[e].status = "pending" =>
       row[e].attempts < MaxAttempts /\ row[e].attempts <= failures[e]
  /\ \A w \in Worker : \A i \in DOMAIN batch[w] :
       batch[w][i].attempts < MaxAttempts /\ batch[w][i].attempts <= failures[batch[w][i].ev]
  /\ \A w \in Worker : pc[w] = "failed" =>
       Current(w).attempts + 1 <= failures[Current(w).ev]

IInv ==
  /\ TypeOK /\ LineOfPending /\ BatchOfRows /\ Counted /\ DeadAfterMaxAttempts

LEMMA InitIInv == Init => IInv
<1> SUFFICES ASSUME Init PROVE IInv
  OBVIOUS
<1>1. <<>> \in Seq(Ev) /\ <<>> \in Seq(Fetched)
  BY EmptySeq
<1>2. TypeOK
  BY <1>1, DispatchAssumption DEF Init, TypeOK, Rows
<1>3. LineOfPending /\ BatchOfRows
  BY DEF Init, LineOfPending, BatchOfRows, IsInjective
<1> QED BY <1>2, <1>3, DispatchAssumption
        DEF Init, IInv, Counted, DeadAfterMaxAttempts

-----------------------------------------------------------------------------
(* What the actions do to sequences.                                       *)
LEMMA TailOf ==
  ASSUME NEW S, NEW s \in Seq(S), s # <<>>
  PROVE  /\ Tail(s) \in Seq(S) /\ Len(Tail(s)) = Len(s) - 1 /\ Len(s) \in Nat \ {0}
         /\ DOMAIN s = 1..Len(s) /\ 1 \in DOMAIN s
         /\ Head(s) = s[1] /\ Head(s) \in S
         /\ \A i \in DOMAIN Tail(s) : i \in Nat /\ i >= 1 /\ i + 1 \in DOMAIN s /\ Tail(s)[i] = s[i + 1]
         /\ \A i \in DOMAIN s : i \in Nat /\ (i = 1 \/ (i - 1 \in DOMAIN Tail(s) /\ Tail(s)[i - 1] = s[i]))
OBVIOUS

LEMMA TailEmpty ==
  ASSUME NEW S, NEW s \in Seq(S), s # <<>>
  PROVE  Tail(s) = <<>> <=> Len(s) = 1
<1>1. Tail(s) \in Seq(S) /\ Len(Tail(s)) = Len(s) - 1 /\ Len(s) \in Nat \ {0}
  BY TailOf
<1>2. Tail(s) = <<>> <=> Len(Tail(s)) = 0
  BY <1>1, EmptySeq
<1> QED BY <1>1, <1>2

(* Where elements are distinct, RemoveFirst removes all of e.              *)
LEMMA RemoveFromInjective ==
  ASSUME NEW S, NEW s \in Seq(S), IsInjective(s), NEW e
  PROVE  /\ RemoveFirst(s, e) \in Seq(S) /\ IsInjective(RemoveFirst(s, e))
         /\ \A i \in DOMAIN RemoveFirst(s, e) :
              RemoveFirst(s, e)[i] # e /\ \E j \in DOMAIN s : RemoveFirst(s, e)[i] = s[j]
<1>0. Len(s) \in Nat /\ DOMAIN s = 1..Len(s) /\ \A i \in 1..Len(s) : s[i] \in S
  OBVIOUS
<1>1. CASE ~\E i \in 1..Len(s) : s[i] = e
  BY <1>0, <1>1 DEF RemoveFirst
<1>2. CASE \E i \in 1..Len(s) : s[i] = e
  <2>1. PICK k \in 1..Len(s) : s[k] = e
    BY <1>2
  <2>2. {i \in 1..Len(s) : s[i] = e} = {k}
    BY <2>1, <1>0 DEF IsInjective
  <2>3. Min({k}) = k
    BY <2>1 DEF Min
  <2>4. RemoveFirst(s, e) = RemoveAt(s, k)
    BY <1>2, <2>2, <2>3 DEF RemoveFirst, SelectInSeq
  <2> DEFINE a == SubSeq(s, 1, k - 1)
             b == SubSeq(s, k + 1, Len(s))
             r == RemoveFirst(s, e)
  <2>5. /\ a \in Seq(S) /\ Len(a) = k - 1 /\ \A i \in 1..(k - 1) : a[i] = s[i]
    BY <2>1, <1>0
  <2>6. b \in Seq(S) /\ Len(b) = Len(s) - k /\ \A i \in 1..(Len(s) - k) : b[i] = s[k + i]
    <3>1. k + 1 \in Int /\ Len(s) \in Int /\ \A i \in (k + 1)..Len(s) : s[i] \in S
      BY <1>0, <2>1
    <3>2. /\ b \in Seq(S) /\ Len(b) = IF k + 1 <= Len(s) THEN Len(s) - (k + 1) + 1 ELSE 0
          /\ \A i \in 1..(Len(s) - (k + 1) + 1) : b[i] = s[(k + 1) + i - 1]
      BY <3>1, SubSeqProperties
    <3> HIDE DEF b
    <3>3. Len(b) = Len(s) - k
      <4>1. CASE k + 1 <= Len(s)
        BY <3>2, <4>1, <1>0, <2>1
      <4>2. CASE k = Len(s)
        BY <3>2, <4>2, <1>0, <2>1
      <4>3. \A m \in Nat : \A i \in 1..m : i + 1 <= m \/ i = m
        OBVIOUS
      <4> QED BY <4>1, <4>2, <4>3, <1>0
    <3>4. ASSUME NEW i \in 1..(Len(s) - k) PROVE b[i] = s[k + i]
      <4>1. i \in 1..(Len(s) - (k + 1) + 1) /\ (k + 1) + i - 1 = k + i
        BY <1>0, <2>1
      <4>2. b[i] = s[(k + 1) + i - 1]
        BY <3>2, <4>1
      <4> QED BY <4>1, <4>2
    <3> QED BY <3>2, <3>3, <3>4
  <2>7. r = a \o b
    BY <2>4 DEF RemoveAt
  <2> HIDE DEF a, b, r
  <2>8. /\ r \in Seq(S) /\ Len(r) = Len(s) - 1 /\ DOMAIN r = 1..(Len(s) - 1)
        /\ \A i \in 1..(Len(s) - 1) : r[i] = IF i <= k - 1 THEN a[i] ELSE b[i - (k - 1)]
    <3>1. /\ r \in Seq(S) /\ Len(r) = Len(a) + Len(b)
          /\ \A i \in 1..(Len(a) + Len(b)) : r[i] = IF i <= Len(a) THEN a[i] ELSE b[i - Len(a)]
      BY <2>5, <2>6, <2>7, ConcatProperties
    <3>2. Len(a) + Len(b) = Len(s) - 1 /\ Len(a) = k - 1
      BY <1>0, <2>1, <2>5, <2>6
    <3> QED BY <3>1, <3>2, LenProperties
  <2>9. ASSUME NEW i \in 1..(Len(s) - 1)
        PROVE  \/ i < k /\ r[i] = s[i]
               \/ i >= k /\ r[i] = s[i + 1]
    <3>1. CASE i <= k - 1
      BY <3>1, <1>0, <2>1, <2>5, <2>8, SMTT(30)
    <3>2. CASE i >= k
      <4>1. i - (k - 1) \in 1..(Len(s) - k) /\ k + (i - (k - 1)) = i + 1
        BY <3>2, <1>0, <2>1
      <4>2. r[i] = b[i - (k - 1)]
        BY <3>2, <1>0, <2>1, <2>8
      <4> QED BY <3>2, <4>1, <4>2, <2>6, SMTT(30)
    <3> QED BY <3>1, <3>2, <1>0, <2>1
  <2>10. \A i \in 1..(Len(s) - 1) : r[i] # e /\ \E j \in 1..Len(s) : r[i] = s[j]
    <3>1. ASSUME NEW i \in 1..(Len(s) - 1)
          PROVE  \E j \in 1..Len(s) : j # k /\ r[i] = s[j]
      <4>1. i \in 1..Len(s) /\ i + 1 \in 1..Len(s) /\ (i < k => i # k) /\ (i >= k => i + 1 # k)
        BY <1>0, <2>1
      <4> QED BY <4>1, <2>9
    <3>2. \A j \in 1..Len(s) : j # k => s[j] # e
      BY <1>0, <2>1 DEF IsInjective
    <3> QED BY <3>1, <3>2
  <2>11. IsInjective(r)
    <3>1. ASSUME NEW i \in 1..(Len(s) - 1), NEW j \in 1..(Len(s) - 1), r[i] = r[j]
          PROVE  i = j
      <4>1. PICK x \in 1..Len(s) : r[i] = s[x] /\ x = IF i < k THEN i ELSE i + 1
        BY <1>0, <2>1, <2>9
      <4>2. PICK y \in 1..Len(s) : r[j] = s[y] /\ y = IF j < k THEN j ELSE j + 1
        BY <1>0, <2>1, <2>9
      <4>3. x = y
        BY <3>1, <4>1, <4>2, <1>0 DEF IsInjective
      <4> QED BY <4>1, <4>2, <4>3, <2>1
    <3> QED BY <3>1, <2>8 DEF IsInjective
  <2> QED BY <2>8, <2>10, <2>11, <1>0 DEF r
<1> QED BY <1>1, <1>2

LEMMA CopyTypes ==
  ASSUME IInv, NEW w \in Worker, NEW i \in DOMAIN batch[w]
  PROVE  /\ batch[w][i] \in Fetched /\ batch[w][i].ev \in Ev /\ batch[w][i].attempts \in 0..MaxAttempts
         /\ w \in Holders(batch[w][i].ev)
<1>1. batch[w] \in Seq(Fetched)
  BY DEF IInv, TypeOK
<1>2. batch[w][i] \in Fetched
  BY <1>1, ElementOfSeq, LenProperties
<1> QED BY <1>2 DEF Fetched, Holders

LEMMA CurrentIsFirst ==
  ASSUME IInv, NEW w \in Worker, pc[w] # "poll"
  PROVE  1 \in DOMAIN batch[w] /\ Current(w) = batch[w][1]
<1>1. batch[w] \in Seq(Fetched) /\ batch[w] # <<>>
  BY DEF IInv, TypeOK, BatchOfRows
<1> QED BY <1>1, TailOf DEF Current

(* A worker done with its first copy keeps the others.                     *)
AfterAdvance(w) ==
  /\ batch[w] # <<>> /\ Current(w) = batch[w][1] /\ 1 \in DOMAIN batch[w] /\ Current(w) \in Fetched
  /\ batch' \in [Worker -> Seq(Fetched)] /\ pc' \in [Worker -> {"poll", "publish", "mark", "failed"}]
  /\ pc'[w] \in {"poll", "publish"}
  /\ pc'[w] = "poll" <=> batch'[w] = <<>>
  /\ \A u \in Worker \ {w} : batch'[u] = batch[u] /\ pc'[u] = pc[u]
  /\ \A i \in DOMAIN batch'[w] : /\ i + 1 \in DOMAIN batch[w] /\ i \in Nat /\ i >= 1
                                 /\ batch'[w][i] = batch[w][i + 1]
  /\ \A i \in DOMAIN batch[w] : i \in Nat /\ (i = 1 \/ (i - 1 \in DOMAIN batch'[w] /\ batch'[w][i - 1] = batch[w][i]))

LEMMA Advancing ==
  ASSUME IInv, NEW w \in Worker, pc[w] # "poll", Advance(w)
  PROVE  AfterAdvance(w)
<1> DEFINE b == batch[w]
<1>1. b \in Seq(Fetched) /\ b # <<>>
  BY DEF IInv, TypeOK, BatchOfRows
<1>2. batch' = [batch EXCEPT ![w] = Tail(b)] /\ pc' = [pc EXCEPT ![w] = IF Len(b) = 1 THEN "poll" ELSE "publish"]
  BY DEF Advance, Goto
<1>3. batch \in [Worker -> Seq(Fetched)] /\ pc \in [Worker -> {"poll", "publish", "mark", "failed"}]
  BY DEF IInv, TypeOK
<1>4. Current(w) = Head(b)
  BY DEF Current
<1> HIDE DEF b
<1>5. /\ Tail(b) \in Seq(Fetched) /\ 1 \in DOMAIN b /\ Head(b) = b[1] /\ Head(b) \in Fetched
      /\ \A i \in DOMAIN Tail(b) : i \in Nat /\ i >= 1 /\ i + 1 \in DOMAIN b /\ Tail(b)[i] = b[i + 1]
      /\ \A i \in DOMAIN b : i \in Nat /\ (i = 1 \/ (i - 1 \in DOMAIN Tail(b) /\ Tail(b)[i - 1] = b[i]))
  BY <1>1, TailOf
<1>6. Tail(b) = <<>> <=> Len(b) = 1
  BY <1>1, TailEmpty
<1>7. /\ batch' \in [Worker -> Seq(Fetched)] /\ batch'[w] = Tail(b)
      /\ pc'[w] = (IF Len(b) = 1 THEN "poll" ELSE "publish")
      /\ pc' \in [Worker -> {"poll", "publish", "mark", "failed"}]
      /\ \A u \in Worker \ {w} : batch'[u] = batch[u] /\ pc'[u] = pc[u]
  <2> DEFINE P == {"poll", "publish", "mark", "failed"}
             q == IF Len(b) = 1 THEN "poll" ELSE "publish"
  <2>1. q \in P /\ pc' = [pc EXCEPT ![w] = q] /\ pc \in [Worker -> P]
    BY <1>2, <1>3
  <2>2. batch' \in [Worker -> Seq(Fetched)] /\ batch'[w] = Tail(b)
        /\ \A u \in Worker \ {w} : batch'[u] = batch[u]
    BY <1>2, <1>3, <1>5
  <2> HIDE DEF P, q
  <2>3. pc'[w] = q /\ pc' \in [Worker -> P] /\ \A u \in Worker \ {w} : pc'[u] = pc[u]
    BY <2>1
  <2> QED BY <2>2, <2>3 DEF P, q
<1>8. pc'[w] \in {"poll", "publish"} /\ (pc'[w] = "poll" <=> batch'[w] = <<>>)
  BY <1>6, <1>7
<1>9. b = batch[w]
  BY DEF b
<1> QED BY <1>1, <1>4, <1>5, <1>7, <1>8, <1>9 DEF AfterAdvance

(* So the copies of the others, and its own but the first, stay.           *)
LEMMA CopiesAfter ==
  ASSUME IInv, NEW w \in Worker, pc[w] # "poll", Advance(w)
  PROVE  /\ \A u \in Worker : \A i \in DOMAIN batch'[u] :
              \E j \in DOMAIN batch[u] : /\ batch'[u][i] = batch[u][j]
                                         /\ u = w => batch[u][j].ev # Current(w).ev
         /\ \A u \in Worker : \A i, j \in DOMAIN batch'[u] : batch'[u][i].ev = batch'[u][j].ev => i = j
         /\ \A u \in Worker : u # w => batch'[u] = batch[u] /\ pc'[u] = pc[u] /\ Current(u)' = Current(u)
         /\ \A e \in Ev : Holders(e)' = IF e = Current(w).ev THEN Holders(e) \ {w} ELSE Holders(e)
<1>0. AfterAdvance(w)
  BY Advancing
<1>1. \A i, j \in DOMAIN batch[w] : batch[w][i].ev = batch[w][j].ev => i = j
  BY DEF IInv, BatchOfRows
<1>2. \A i \in DOMAIN batch'[w] : \E j \in DOMAIN batch[w] :
        j = i + 1 /\ batch'[w][i] = batch[w][j] /\ batch[w][j].ev # Current(w).ev
  <2>1. ASSUME NEW i \in DOMAIN batch'[w]
        PROVE  i + 1 \in DOMAIN batch[w] /\ batch'[w][i] = batch[w][i + 1] /\ batch[w][i + 1].ev # batch[w][1].ev
    <3>1. i + 1 # 1 /\ i + 1 \in DOMAIN batch[w] /\ 1 \in DOMAIN batch[w]
      BY <1>0 DEF AfterAdvance
    <3> QED BY <1>0, <1>1, <3>1 DEF AfterAdvance
  <2> QED BY <2>1, <1>0 DEF AfterAdvance
<1>3. \A i, j \in DOMAIN batch'[w] : batch'[w][i].ev = batch'[w][j].ev => i = j
  <2> SUFFICES ASSUME NEW i \in DOMAIN batch'[w], NEW j \in DOMAIN batch'[w],
                      batch'[w][i].ev = batch'[w][j].ev
               PROVE  i = j
    OBVIOUS
  <2>1. /\ i \in Nat /\ j \in Nat /\ i + 1 \in DOMAIN batch[w] /\ j + 1 \in DOMAIN batch[w]
        /\ batch[w][i + 1].ev = batch[w][j + 1].ev
    BY <1>0 DEF AfterAdvance
  <2>2. i + 1 = j + 1
    BY <1>1, <2>1
  <2> QED BY <2>1, <2>2
<1>4. \A u \in Worker : u # w => batch'[u] = batch[u] /\ pc'[u] = pc[u] /\ Current(u)' = Current(u)
  BY <1>0 DEF AfterAdvance, Current
<1>5. \A u \in Worker : \A i, j \in DOMAIN batch'[u] : batch'[u][i].ev = batch'[u][j].ev => i = j
  BY <1>3, <1>4 DEF IInv, BatchOfRows
<1>6. ASSUME NEW e \in Ev
      PROVE  Holders(e)' = IF e = Current(w).ev THEN Holders(e) \ {w} ELSE Holders(e)
  <2>1. \A u \in Worker \ {w} : u \in Holders(e)' <=> u \in Holders(e)
    BY <1>4 DEF Holders
  <2>2. w \in Holders(e)' => w \in Holders(e) /\ e # Current(w).ev
    BY <1>2 DEF Holders
  <2>3. w \in Holders(e) /\ e # Current(w).ev => w \in Holders(e)'
    <3>1. ASSUME NEW i \in DOMAIN batch[w], batch[w][i].ev = e, e # Current(w).ev
          PROVE  \E j \in DOMAIN batch'[w] : batch'[w][j].ev = e
      BY <1>0, <3>1 DEF AfterAdvance
    <3> QED BY <3>1 DEF Holders
  <2>4. Holders(e) \subseteq Worker /\ Holders(e)' \subseteq Worker
    BY DEF Holders
  <2> QED BY <2>1, <2>2, <2>3, <2>4
<1> QED BY <1>2, <1>4, <1>5, <1>6

-----------------------------------------------------------------------------
(* The rows: a write, the end of a backoff, a replay.                      *)
RowStep == \E e \in Ev : Add(e) \/ BecomeDue(e) \/ Replay(e)

LEMMA RowStepIInv ==
  ASSUME IInv, RowStep
  PROVE  IInv'
<1>0. PICK e \in Ev : Add(e) \/ BecomeDue(e) \/ Replay(e)
  BY DEF RowStep
<1>1. UNCHANGED <<pc, batch, Bus>> /\ \A w \in Worker : Current(w)' = Current(w)
  BY <1>0 DEF Add, BecomeDue, Replay, Current, Bus
<1>2. /\ row' \in [Ev -> Rows] /\ line' = Append(line, e) /\ faults' \in 0..MaxFaults
      /\ row'[e].status = "pending" /\ row[e].status \in {"none", "pending", "dead"}
      /\ ~Contains(line, e)
      /\ \A d \in Ev : d # e => row'[d] = row[d]
      /\ row'[e].attempts \in {0, row[e].attempts}
      /\ row[e].status = "none" \/ row[e].status = "pending" => row'[e].attempts = row[e].attempts
      /\ row[e].status = "dead" => row'[e].attempts = 0
      /\ row[e].status # "dead" => failures' = failures
  <2>0. row \in [Ev -> Rows] /\ faults \in 0..MaxFaults /\ MaxFaults \in Nat /\ MaxAttempts \in Nat
    BY DispatchAssumption DEF IInv, TypeOK
  <2>1. row[e].status # "pending" => ~Contains(line, e)
    BY DEF IInv, LineOfPending, TypeOK, Contains
  <2>2. CASE Add(e)
    BY <2>0, <2>1, <2>2 DEF Add, Rows
  <2>3. CASE BecomeDue(e)
    BY <2>0, <2>3 DEF BecomeDue, Rows
  <2>4. CASE Replay(e)
    <3>1. row' = [row EXCEPT ![e] = [status |-> "pending", attempts |-> 0]] /\ line' = Append(line, e)
          /\ row[e].status = "dead" /\ faults < MaxFaults /\ faults' = faults + 1
      BY <2>4 DEF Replay, Fault
    <3>2. [status |-> "pending", attempts |-> 0] \in Rows
      BY <2>0 DEF Rows
    <3> QED BY <2>0, <2>1, <3>1, <3>2
  <2> QED BY <1>0, <2>2, <2>3, <2>4
<1>3. /\ failures' \in [Ev -> 0..MaxAttempts]
      /\ \A d \in Ev : failures'[d] = failures[d] \/ (d = e /\ Holders(e) = {} /\ row[e].status = "dead")
  <2>1. failures' = failures \/ (row[e].status = "dead" /\ ForgetFailures(e))
    BY <1>0 DEF Add, BecomeDue, Replay
  <2>2. failures \in [Ev -> 0..MaxAttempts] /\ MaxAttempts \in Nat
    BY DispatchAssumption DEF IInv, TypeOK
  <2> QED BY <2>1, <2>2 DEF ForgetFailures
<1>4. line' \in Seq(Ev) /\ IsInjective(line') /\ \A i \in DOMAIN line' : row'[line'[i]].status = "pending"
  <2>1. /\ line \in Seq(Ev) /\ IsInjective(line) /\ \A i \in DOMAIN line : row[line[i]].status = "pending"
    BY DEF IInv, TypeOK, LineOfPending
  <2>2. /\ Len(line) \in Nat /\ DOMAIN line = 1..Len(line) /\ DOMAIN line' = 1..(Len(line) + 1)
        /\ line' \in Seq(Ev) /\ \A i \in 1..Len(line) : line'[i] = line[i] /\ line[i] \in Ev
        /\ line'[Len(line) + 1] = e
    BY <1>2, <2>1
  <2>3. \A i \in 1..Len(line) : line[i] # e
    BY <1>2 DEF Contains
  <2>4. IsInjective(line')
    BY <2>1, <2>2, <2>3 DEF IsInjective
  <2> QED BY <1>2, <2>1, <2>2, <2>3, <2>4
<1>5. TypeOK' /\ LineOfPending'
  BY <1>1, <1>2, <1>3, <1>4 DEF IInv, TypeOK, LineOfPending, Bus
<1>6. BatchOfRows'
  <2>1. \A d \in Ev : row[d].status # "none" => row'[d].status # "none"
    BY <1>2
  <2>2. \A w \in Worker : \A i \in DOMAIN batch[w] : batch[w][i].ev \in Ev
    BY CopyTypes
  <2> QED BY <1>1, <2>1, <2>2 DEF IInv, BatchOfRows, Bus
<1>7. Counted'
  <2>0. failures \in [Ev -> 0..MaxAttempts] /\ failures' \in [Ev -> 0..MaxAttempts] /\ MaxAttempts \in Nat \ {0}
    BY <1>3, DispatchAssumption DEF IInv, TypeOK
  <2>1. \A d \in Ev : row'[d].status = "none" => row'[d].attempts = 0
    BY <1>2 DEF IInv, Counted
  <2>2. \A d \in Ev : row'[d].status = "pending" =>
          row'[d].attempts < MaxAttempts /\ row'[d].attempts <= failures'[d]
    <3> SUFFICES ASSUME NEW d \in Ev, row'[d].status = "pending"
                 PROVE  row'[d].attempts < MaxAttempts /\ row'[d].attempts <= failures'[d]
      OBVIOUS
    <3>1. CASE row[d].status = "pending"
      <4>1. failures'[d] = failures[d] /\ row'[d].attempts = row[d].attempts
        BY <1>2, <1>3, <3>1
      <4> QED BY <3>1, <4>1 DEF IInv, Counted
    <3>2. CASE row[d].status # "pending"
      <4>1. row'[d].attempts = 0
        BY <1>2, <3>2 DEF IInv, Counted
      <4> QED BY <2>0, <4>1
    <3> QED BY <3>1, <3>2
  <2>3. \A w \in Worker : \A i \in DOMAIN batch[w] : failures'[batch[w][i].ev] = failures[batch[w][i].ev]
    <3>1. \A w \in Worker : \A i \in DOMAIN batch[w] : batch[w][i].ev \in Ev /\ w \in Holders(batch[w][i].ev)
      BY CopyTypes
    <3> QED BY <1>3, <3>1
  <2>4. \A w \in Worker : pc[w] = "failed" => failures'[Current(w).ev] = failures[Current(w).ev]
    <3>1. \A w \in Worker : pc[w] = "failed" => Current(w) = batch[w][1] /\ 1 \in DOMAIN batch[w]
      BY CurrentIsFirst
    <3> QED BY <2>3, <3>1
  <2>5. /\ \A w \in Worker : \A i \in DOMAIN batch'[w] :
             batch'[w][i].attempts < MaxAttempts /\ batch'[w][i].attempts <= failures'[batch'[w][i].ev]
        /\ \A w \in Worker : pc'[w] = "failed" =>
             Current(w)'.attempts + 1 <= failures'[Current(w)'.ev]
    BY <1>1, <2>3, <2>4 DEF IInv, Counted
  <2> QED BY <2>1, <2>2, <2>5 DEF Counted
<1>8. DeadAfterMaxAttempts'
  BY <1>2, <1>3 DEF IInv, DeadAfterMaxAttempts
<1> QED BY <1>5, <1>6, <1>7, <1>8 DEF IInv

-----------------------------------------------------------------------------
(* Steps of a dispatcher that leave the rows as they are.                  *)
LEMMA FetchIInv ==
  ASSUME IInv, NEW w \in Worker, Fetch(w)
  PROVE  IInv'
<1> DEFINE n == IF Len(line) < Batch THEN Len(line) ELSE Batch
           b == [i \in 1..n |-> [ev |-> line[i], attempts |-> row[line[i]].attempts]]
<1>1. /\ pc[w] = "poll" /\ line # <<>> /\ batch' = [batch EXCEPT ![w] = b]
      /\ pc' = [pc EXCEPT ![w] = "publish"] /\ UNCHANGED <<Shared, Bus, faults, failures>>
  BY DEF Fetch, Goto
<1>2. /\ line \in Seq(Ev) /\ Len(line) \in Nat \ {0} /\ n \in Nat \ {0} /\ n <= Len(line)
      /\ IsInjective(line) /\ \A i \in 1..n : line[i] \in Ev /\ row[line[i]].status = "pending"
  <2>1. line \in Seq(Ev) /\ Batch \in Nat \ {0} /\ IsInjective(line)
        /\ \A i \in DOMAIN line : row[line[i]].status = "pending"
    BY DispatchAssumption DEF IInv, TypeOK, LineOfPending
  <2>2. Len(line) \in Nat \ {0} /\ DOMAIN line = 1..Len(line)
    BY <1>1, <2>1
  <2>3. n \in Nat \ {0} /\ n <= Len(line)
    BY <2>1, <2>2
  <2> HIDE DEF n
  <2> QED BY <2>1, <2>2, <2>3
<1>3. row \in [Ev -> Rows] /\ \A i \in 1..n : row[line[i]] \in Rows
  BY <1>2 DEF IInv, TypeOK
<1>3a. n \in Nat /\ n # 0
  BY <1>2
<1> HIDE DEF n
<1>4. b \in Seq(Fetched) /\ DOMAIN b = 1..n /\ b # <<>>
  <2>1. \A i \in 1..n : [ev |-> line[i], attempts |-> row[line[i]].attempts] \in Fetched
    BY <1>2, <1>3 DEF Fetched, Rows
  <2>2. b \in Seq(Fetched)
    BY <2>1, <1>3a, IsASeq
  <2> QED BY <2>2, <1>3a
<1>5. \A i \in 1..n : b[i].ev = line[i] /\ b[i].attempts = row[line[i]].attempts
  OBVIOUS
<1>6. \A i, j \in 1..n : b[i].ev = b[j].ev => i = j
  BY <1>2, <1>5 DEF IsInjective
<1> HIDE DEF b
<1>7. TypeOK'
  BY <1>1, <1>4 DEF IInv, TypeOK, Shared, Bus
<1>8. /\ batch'[w] = b /\ pc'[w] = "publish"
      /\ \A u \in Worker \ {w} : batch'[u] = batch[u] /\ pc'[u] = pc[u] /\ Current(u)' = Current(u)
  BY <1>1 DEF IInv, TypeOK, Current
<1>9. LineOfPending' /\ DeadAfterMaxAttempts'
  BY <1>1 DEF IInv, LineOfPending, DeadAfterMaxAttempts, Shared, Bus
<1>10. BatchOfRows'
  <2>1. \A i \in 1..n : row[b[i].ev].status # "none"
    BY <1>2, <1>5
  <2> QED BY <1>1, <1>4, <1>6, <1>8, <2>1 DEF IInv, BatchOfRows, Shared
<1>11. Counted'
  <2>1. \A i \in 1..n : b[i].attempts < MaxAttempts /\ b[i].attempts <= failures[b[i].ev]
    BY <1>2, <1>5 DEF IInv, Counted
  <2>2. \A u \in Worker : \A i \in DOMAIN batch'[u] :
          batch'[u][i].attempts < MaxAttempts /\ batch'[u][i].attempts <= failures'[batch'[u][i].ev]
    BY <1>1, <1>4, <1>8, <2>1 DEF IInv, Counted
  <2>3. \A u \in Worker : pc'[u] = "failed" => Current(u)'.attempts + 1 <= failures'[Current(u)'.ev]
    BY <1>1, <1>8 DEF IInv, Counted
  <2> QED BY <1>1, <2>2, <2>3 DEF IInv, Counted, Shared
<1> QED BY <1>7, <1>9, <1>10, <1>11 DEF IInv

-----------------------------------------------------------------------------
(* The updates of a row by a dispatcher, of which the last step of an      *)
(* attempt makes one, and an error none or one.                            *)
Update(w) == (pc[w] = "mark" /\ MarkRow(w)) \/ (pc[w] = "failed" /\ FailRow(w))

LEMMA UpdatedRow ==
  ASSUME IInv, NEW w \in Worker, Update(w), NEW e, e = Current(w).ev
  PROVE  /\ e \in Ev /\ w \in Holders(e) /\ line' = RemoveFirst(line, e)
         /\ row' \in [Ev -> Rows] /\ \A d \in Ev : d # e => row'[d] = row[d]
         /\ row[e].status # "none" /\ row'[e].status # "none"
         /\ row'[e].status = "sent" => row[e].status = "sent" \/ pc[w] = "mark"
         /\ row'[e].status = "dead" => failures[e] >= MaxAttempts
         /\ row'[e].status = "pending" =>
              row'[e].attempts < MaxAttempts /\ row'[e].attempts <= failures[e]
         /\ \E to \in {"sent", "dead", row[e].status} :
              \A d \in Ev : row'[d].status = IF d = e THEN to ELSE row[d].status
<1>1. pc[w] \in {"mark", "failed"} /\ line' = RemoveFirst(line, e)
  BY DEF Update, MarkRow, FailRow
<1>2. /\ 1 \in DOMAIN batch[w] /\ Current(w) = batch[w][1] /\ e \in Ev /\ w \in Holders(e)
      /\ Current(w).attempts \in Nat /\ Current(w).attempts < MaxAttempts
      /\ row[e].status # "none"
  BY <1>1, CurrentIsFirst, CopyTypes DEF IInv, Counted, BatchOfRows
<1>3. row \in [Ev -> Rows] /\ row[e] \in Rows /\ MaxAttempts \in Nat \ {0} /\ failures[e] \in 0..MaxAttempts
  BY <1>2, DispatchAssumption DEF IInv, TypeOK
<1>4. row[e].status \in {"pending", "sent", "dead"}
  BY <1>2, <1>3 DEF Rows
<1>5. CASE pc[w] = "mark" /\ MarkRow(w)
  <2>1. row' = [row EXCEPT ![e].status = "sent"]
    BY <1>5 DEF MarkRow
  <2> QED BY <1>1, <1>2, <1>3, <1>4, <1>5, <2>1 DEF Rows
<1>6. CASE pc[w] = "failed" /\ FailRow(w)
  <2> DEFINE r == [status |-> IF GivesUp(w) THEN "dead" ELSE row[e].status,
                   attempts |-> Current(w).attempts + 1]
  <2>1. row' = [row EXCEPT ![e] = r]
    BY <1>6 DEF FailRow
  <2>2. Current(w).attempts + 1 <= failures[e] /\ Current(w).attempts + 1 \in 0..MaxAttempts
    BY <1>2, <1>3, <1>6 DEF IInv, Counted
  <2>3. /\ r \in Rows /\ r.status # "none" /\ r.attempts = Current(w).attempts + 1
        /\ r.status = IF GivesUp(w) THEN "dead" ELSE row[e].status
    BY <1>2, <1>3, <1>4, <2>2 DEF Rows
  <2> HIDE DEF r
  <2>4. row' \in [Ev -> Rows] /\ row'[e] = r /\ \A d \in Ev : d # e => row'[d] = row[d]
    BY <1>2, <1>3, <2>1, <2>3
  <2>5. /\ GivesUp(w) => failures[e] >= MaxAttempts
        /\ ~GivesUp(w) => Current(w).attempts + 1 < MaxAttempts
    BY <1>2, <1>3, <2>2 DEF GivesUp
  <2>6. row'[e].status = "dead" => failures[e] >= MaxAttempts
    BY <1>2, <2>3, <2>4, <2>5 DEF IInv, DeadAfterMaxAttempts
  <2>7. row'[e].status = "pending" => row'[e].attempts < MaxAttempts /\ row'[e].attempts <= failures[e]
    BY <2>2, <2>3, <2>4, <2>5
  <2>8. r.status \in {"sent", "dead", row[e].status} /\ (r.status = "sent" => row[e].status = "sent")
    BY <2>3
  <2> QED BY <1>1, <1>2, <2>3, <2>4, <2>6, <2>7, <2>8
<1> QED BY <1>5, <1>6 DEF Update

(* What the other parts of the invariant need of the rows after a step.    *)
RowsKept ==
  /\ row' \in [Ev -> Rows] /\ line' \in Seq(Ev) /\ LineOfPending'
  /\ \A d \in Ev : row[d].status # "none" => row'[d].status # "none"
  /\ \A d \in Ev : row'[d].status = "none" => row'[d].attempts = 0
  /\ \A d \in Ev : row'[d].status = "pending" =>
       row'[d].attempts < MaxAttempts /\ row'[d].attempts <= failures[d]
  /\ \A d \in Ev : row'[d].status = "dead" => failures[d] >= MaxAttempts

LEMMA RowsAreKept ==
  ASSUME IInv, UNCHANGED Shared \/ \E w \in Worker : Update(w)
  PROVE  RowsKept
<1>1. CASE UNCHANGED Shared
  BY <1>1 DEF RowsKept, Shared, IInv, TypeOK, LineOfPending, Counted, DeadAfterMaxAttempts
<1>2. ASSUME NEW w \in Worker, Update(w) PROVE RowsKept
  <2>0. PICK e : e = Current(w).ev
    OBVIOUS
  <2>1. /\ e \in Ev /\ line' = RemoveFirst(line, e)
        /\ row' \in [Ev -> Rows] /\ \A d \in Ev : d # e => row'[d] = row[d]
        /\ row'[e].status # "none"
        /\ row'[e].status = "dead" => failures[e] >= MaxAttempts
        /\ row'[e].status = "pending" =>
             row'[e].attempts < MaxAttempts /\ row'[e].attempts <= failures[e]
    BY <1>2, <2>0, UpdatedRow
  <2>2. /\ line \in Seq(Ev) /\ IsInjective(line)
        /\ \A i \in DOMAIN line : line[i] \in Ev /\ row[line[i]].status = "pending"
    BY DEF IInv, TypeOK, LineOfPending
  <2>3. /\ line' \in Seq(Ev) /\ IsInjective(line')
        /\ \A i \in DOMAIN line' : line'[i] # e /\ \E j \in DOMAIN line : line'[i] = line[j]
    BY <2>1, <2>2, RemoveFromInjective
  <2>4. \A i \in DOMAIN line' : row'[line'[i]].status = "pending"
    BY <2>1, <2>2, <2>3
  <2> QED BY <2>1, <2>3, <2>4 DEF RowsKept, LineOfPending, IInv, Counted, DeadAfterMaxAttempts
<1> QED BY <1>1, <1>2

-----------------------------------------------------------------------------
(* Publishing, and what makes an attempt fail.                             *)
LEMMA PublishIInv ==
  ASSUME IInv, NEW w \in Worker, Publish(w)
  PROVE  IInv'
<1>1. /\ pc[w] = "publish" /\ pc' = [pc EXCEPT ![w] = "mark"]
      /\ UNCHANGED <<Shared, batch, delivered, faults, failures>>
      /\ \A u \in Worker : Current(u)' = Current(u)
      /\ queue' = [queue EXCEPT ![w] =
           IF Len(queue[w]) < QueueSize THEN Append(queue[w], Current(w).ev) ELSE queue[w]]
  BY DEF Publish, Goto, Current
<1>2. Current(w).ev \in Ev
  BY <1>1, CurrentIsFirst, CopyTypes
<1>3. /\ pc' \in [Worker -> {"poll", "publish", "mark", "failed"}] /\ pc'[w] = "mark"
      /\ \A u \in Worker \ {w} : pc'[u] = pc[u]
  BY <1>1 DEF IInv, TypeOK
<1>4. queue' \in [Worker -> Seq(Ev)]
  <2>1. queue \in [Worker -> Seq(Ev)] /\ Append(queue[w], Current(w).ev) \in Seq(Ev)
    BY <1>2, AppendProperties DEF IInv, TypeOK
  <2> QED BY <1>1, <2>1
<1>5. TypeOK' /\ LineOfPending' /\ DeadAfterMaxAttempts'
  BY <1>1, <1>3, <1>4 DEF IInv, TypeOK, LineOfPending, DeadAfterMaxAttempts, Shared
<1>6. BatchOfRows'
  BY <1>1, <1>3 DEF IInv, BatchOfRows, Shared
<1>7. Counted'
  BY <1>1, <1>3 DEF IInv, Counted, Shared
<1> QED BY <1>5, <1>6, <1>7 DEF IInv

LEMMA FailedIInv ==
  ASSUME IInv, NEW w \in Worker, PublishRaises(w) \/ MarkRaises(w)
  PROVE  IInv'
<1> DEFINE e == Current(w).ev
<1>1. /\ pc[w] \in {"publish", "mark"} /\ UNCHANGED <<batch, Bus>> /\ \A u \in Worker : Current(u)' = Current(u)
      /\ pc' = [pc EXCEPT ![w] = "failed"] /\ CountFailure(e)
      /\ faults' = faults \/ (faults < MaxFaults /\ faults' = faults + 1)
  BY DEF PublishRaises, MarkRaises, Goto, Current, Fault
<1>1a. RowsKept
  BY RowsAreKept DEF PublishRaises, MarkRaises, Update
<1>2. /\ 1 \in DOMAIN batch[w] /\ Current(w) = batch[w][1] /\ e \in Ev
      /\ Current(w).attempts \in Nat /\ Current(w).attempts < MaxAttempts /\ Current(w).attempts <= failures[e]
  BY <1>1, CurrentIsFirst, CopyTypes DEF IInv, Counted
<1>3. /\ pc' \in [Worker -> {"poll", "publish", "mark", "failed"}] /\ pc'[w] = "failed"
      /\ \A u \in Worker \ {w} : pc'[u] = pc[u]
      /\ pc \in [Worker -> {"poll", "publish", "mark", "failed"}]
  BY <1>1 DEF IInv, TypeOK
<1>4. failures \in [Ev -> 0..MaxAttempts] /\ MaxAttempts \in Nat \ {0} /\ MaxFaults \in Nat /\ faults \in 0..MaxFaults
  BY DispatchAssumption DEF IInv, TypeOK
<1> HIDE DEF e
<1>5. /\ failures' \in [Ev -> 0..MaxAttempts] /\ \A d \in Ev : failures'[d] >= failures[d]
      /\ failures'[e] >= Current(w).attempts + 1
  <2>1. failures' = [failures EXCEPT ![e] = IF failures[e] < MaxAttempts THEN failures[e] + 1 ELSE failures[e]]
    BY <1>1 DEF CountFailure
  <2>2. failures[e] < MaxAttempts \/ failures[e] = MaxAttempts
    BY <1>2, <1>4
  <2> QED BY <1>2, <1>4, <2>1, <2>2
<1>6. TypeOK' /\ LineOfPending'
  <2>1. faults' \in 0..MaxFaults
    BY <1>1, <1>4
  <2> QED BY <1>1, <1>1a, <1>3, <1>5, <2>1 DEF IInv, TypeOK, RowsKept, Bus
<1>7. BatchOfRows'
  <2>1. \A u \in Worker : \A i \in DOMAIN batch[u] : row'[batch[u][i].ev].status # "none"
    BY <1>1a, CopyTypes DEF RowsKept, IInv, BatchOfRows
  <2>2. batch[w] # <<>>
    BY <1>1 DEF IInv, BatchOfRows
  <2> QED BY <1>1, <1>3, <2>1, <2>2 DEF IInv, BatchOfRows
<1>8. DeadAfterMaxAttempts'
  <2>1. \A d \in Ev : failures[d] >= MaxAttempts => failures'[d] >= MaxAttempts
    BY <1>4, <1>5
  <2> QED BY <1>1a, <2>1 DEF RowsKept, DeadAfterMaxAttempts
<1>9. Counted'
  <2>1. \A d \in Ev : \A m \in Nat : m <= failures[d] => m <= failures'[d]
    BY <1>4, <1>5
  <2>2. \A d \in Ev : row'[d].status = "pending" =>
          row'[d].attempts < MaxAttempts /\ row'[d].attempts <= failures'[d]
    <3>1. \A d \in Ev : row'[d].attempts \in Nat
      BY <1>1a, <1>4 DEF RowsKept, Rows
    <3> QED BY <1>1a, <2>1, <3>1 DEF RowsKept
  <2>3. \A u \in Worker : \A i \in DOMAIN batch[u] :
          batch[u][i].attempts < MaxAttempts /\ batch[u][i].attempts <= failures'[batch[u][i].ev]
    <3>1. \A u \in Worker : \A i \in DOMAIN batch[u] : batch[u][i].ev \in Ev /\ batch[u][i].attempts \in Nat
      BY CopyTypes, <1>4
    <3> QED BY <2>1, <3>1 DEF IInv, Counted
  <2>4. \A u \in Worker : pc'[u] = "failed" => Current(u).attempts + 1 <= failures'[Current(u).ev]
    <3> SUFFICES ASSUME NEW u \in Worker, pc'[u] = "failed"
                 PROVE  Current(u).attempts + 1 <= failures'[Current(u).ev]
      OBVIOUS
    <3>1. CASE u = w
      BY <3>1, <1>2, <1>4, <1>5 DEF e
    <3>2. CASE u # w
      <4>1. pc[u] = "failed" /\ Current(u).ev \in Ev /\ Current(u).attempts \in Nat
        BY <3>2, <1>3, <1>4, CurrentIsFirst, CopyTypes
      <4> QED BY <4>1, <2>1 DEF IInv, Counted
    <3> QED BY <3>1, <3>2
  <2> QED BY <1>1, <1>1a, <2>2, <2>3, <2>4 DEF Counted, RowsKept
<1> QED BY <1>6, <1>7, <1>8, <1>9 DEF IInv

-----------------------------------------------------------------------------
(* Steps that end the handling of a copy: the row is marked, or put off.   *)
Settling(w) == MarkSent(w) \/ Reschedule(w) \/ MarkDead(w)

LEMMA SettlingIInv ==
  ASSUME IInv, NEW w \in Worker, Settling(w)
  PROVE  IInv'
<1>1. pc[w] \in {"mark", "failed"} /\ Advance(w) /\ Update(w) /\ UNCHANGED <<Bus, faults, failures>>
  BY DEF Settling, MarkSent, Reschedule, MarkDead, Update
<1>1a. RowsKept
  BY <1>1, RowsAreKept
<1>2. AfterAdvance(w)
  BY <1>1, Advancing
<1>3. /\ \A u \in Worker : \A i \in DOMAIN batch'[u] : \E j \in DOMAIN batch[u] : batch'[u][i] = batch[u][j]
      /\ \A u \in Worker : \A i, j \in DOMAIN batch'[u] : batch'[u][i].ev = batch'[u][j].ev => i = j
      /\ \A u \in Worker : u # w => batch'[u] = batch[u] /\ pc'[u] = pc[u] /\ Current(u)' = Current(u)
  BY <1>1, CopiesAfter
<1>4. TypeOK' /\ LineOfPending'
  BY <1>1, <1>1a, <1>2 DEF IInv, TypeOK, RowsKept, AfterAdvance, Bus
<1>5. BatchOfRows'
  <2>1. \A u \in Worker : \A i \in DOMAIN batch[u] : batch[u][i].ev \in Ev /\ row[batch[u][i].ev].status # "none"
    BY CopyTypes DEF IInv, BatchOfRows
  <2>2. \A u \in Worker : \A i \in DOMAIN batch'[u] : row'[batch'[u][i].ev].status # "none"
    BY <1>1a, <1>3, <2>1 DEF RowsKept
  <2>3. \A u \in Worker : pc'[u] = "poll" <=> batch'[u] = <<>>
    <3>1. pc'[w] = "poll" <=> batch'[w] = <<>>
      BY <1>2 DEF AfterAdvance
    <3>2. \A u \in Worker : u # w => (pc'[u] = "poll" <=> batch'[u] = <<>>)
      BY <1>3 DEF IInv, BatchOfRows
    <3> QED BY <3>1, <3>2
  <2> QED BY <1>3, <2>2, <2>3 DEF BatchOfRows
<1>6. Counted' /\ DeadAfterMaxAttempts'
  <2>1. \A u \in Worker : \A i \in DOMAIN batch'[u] :
          batch'[u][i].attempts < MaxAttempts /\ batch'[u][i].attempts <= failures'[batch'[u][i].ev]
    BY <1>1, <1>3 DEF IInv, Counted
  <2>2. \A u \in Worker : pc'[u] = "failed" => u # w /\ pc[u] = "failed"
    BY <1>2, <1>3 DEF AfterAdvance
  <2>3. \A u \in Worker : pc'[u] = "failed" => Current(u)'.attempts + 1 <= failures'[Current(u)'.ev]
    BY <1>1, <1>3, <2>2 DEF IInv, Counted
  <2> QED BY <1>1, <1>1a, <2>1, <2>3 DEF RowsKept, Counted, DeadAfterMaxAttempts
<1> QED BY <1>4, <1>5, <1>6 DEF IInv

-----------------------------------------------------------------------------
(* A worker loses its batch; the bus delivers; nothing happens.            *)
Losing(w) == AbandonBatch(w) \/ Crash(w)

LEMMA LosingIInv ==
  ASSUME IInv, NEW w \in Worker, Losing(w)
  PROVE  IInv'
<1>1. /\ batch' = [batch EXCEPT ![w] = <<>>] /\ pc' = [pc EXCEPT ![w] = "poll"]
      /\ UNCHANGED <<delivered, failures>>
      /\ queue' = queue \/ queue' = [queue EXCEPT ![w] = <<>>]
      /\ faults < MaxFaults /\ faults' = faults + 1
  BY DEF Losing, AbandonBatch, Crash, Goto, Fault, Bus
<1>1a. RowsKept
  BY RowsAreKept DEF Losing, AbandonBatch, Crash, Update
<1>2. TypeOK' /\ LineOfPending'
  <2>1. <<>> \in Seq(Fetched) /\ <<>> \in Seq(Ev)
    BY EmptySeq
  <2>2. faults' \in 0..MaxFaults
    BY <1>1, DispatchAssumption DEF IInv, TypeOK
  <2> QED BY <1>1, <1>1a, <2>1, <2>2 DEF IInv, TypeOK, RowsKept
<1>3. /\ batch'[w] = <<>> /\ pc'[w] = "poll"
      /\ \A u \in Worker : u # w => batch'[u] = batch[u] /\ pc'[u] = pc[u] /\ Current(u)' = Current(u)
  BY <1>1 DEF IInv, TypeOK, Current
<1>4. BatchOfRows'
  <2>1. \A u \in Worker : \A i \in DOMAIN batch[u] : row'[batch[u][i].ev].status # "none"
    BY <1>1a, CopyTypes DEF RowsKept, IInv, BatchOfRows
  <2> QED BY <1>3, <2>1 DEF IInv, BatchOfRows
<1>5. Counted' /\ DeadAfterMaxAttempts'
  BY <1>1, <1>1a, <1>3 DEF IInv, Counted, DeadAfterMaxAttempts, RowsKept
<1> QED BY <1>2, <1>4, <1>5 DEF IInv

LEMMA QuietIInv ==
  ASSUME IInv, UNCHANGED vars \/ \E w \in Worker : Deliver(w)
  PROVE  IInv'
<1>1. /\ UNCHANGED <<row, line, pc, batch, failures, faults>>
      /\ queue' \in [Worker -> Seq(Ev)] /\ delivered' \subseteq Ev
  <2>1. ASSUME NEW w \in Worker, Deliver(w)
        PROVE  /\ UNCHANGED <<row, line, pc, batch, failures, faults>>
               /\ queue' \in [Worker -> Seq(Ev)] /\ delivered' \subseteq Ev
    <3>1. queue \in [Worker -> Seq(Ev)] /\ queue[w] # <<>> /\ queue' = [queue EXCEPT ![w] = Tail(queue[w])]
      BY <2>1 DEF Deliver, IInv, TypeOK
    <3>2. Tail(queue[w]) \in Seq(Ev) /\ Head(queue[w]) \in Ev
      BY <3>1, TailOf
    <3> QED BY <2>1, <3>1, <3>2 DEF Deliver, Shared, IInv, TypeOK
  <2> QED BY <2>1 DEF vars, IInv, TypeOK
<1>2. \A w \in Worker : Current(w)' = Current(w)
  BY <1>1 DEF Current
<1> QED BY <1>1, <1>2 DEF IInv, TypeOK, LineOfPending, BatchOfRows, Counted, DeadAfterMaxAttempts

(* Every step keeps the invariant.                                         *)
LEMMA StepIInv == IInv /\ [Next]_vars => IInv'
<1> SUFFICES ASSUME IInv, [Next]_vars PROVE IInv'
  OBVIOUS
<1>1. CASE RowStep
  BY <1>1, RowStepIInv
<1>2. ASSUME NEW w \in Worker, Dispatch(w) PROVE IInv'
  <2>1. CASE Fetch(w)
    BY <2>1, FetchIInv
  <2>2. CASE Publish(w) \/ PublishRaises(w) \/ MarkRaises(w)
    BY <2>2, PublishIInv, FailedIInv
  <2>3. CASE Settling(w)
    BY <2>3, SettlingIInv
  <2>4. CASE AbandonBatch(w)
    BY <2>4, LosingIInv DEF Losing
  <2> QED BY <1>2, <2>1, <2>2, <2>3, <2>4 DEF Dispatch, Settling
<1>3. ASSUME NEW w \in Worker, Crash(w) PROVE IInv'
  BY <1>3, LosingIInv DEF Losing
<1>4. CASE UNCHANGED vars \/ \E w \in Worker : Deliver(w)
  BY <1>4, QuietIInv
<1> QED BY <1>1, <1>2, <1>3, <1>4 DEF Next, RowStep, Idle

THEOREM Invariance == Spec => []IInv
<1>1. Init => IInv
  BY InitIInv
<1>2. IInv /\ [Next]_vars => IInv'
  BY StepIInv
<1> QED BY <1>1, <1>2, PTL DEF Spec

(* The variables keep their types.                                         *)
THEOREM TypeCorrect == Spec => []TypeOK
<1>1. IInv => TypeOK
  BY DEF IInv
<1> QED BY <1>1, Invariance, PTL

(* No event is given up before MaxAttempts attempts on it have failed,     *)
(* whatever stale copies of it dispatchers write back (reschedule and      *)
(* mark_dead).                                                             *)
THEOREM DeadAfterMaxAttemptsHolds == Spec => []DeadAfterMaxAttempts
<1>1. IInv => DeadAfterMaxAttempts
  BY DEF IInv
<1> QED BY <1>1, Invariance, PTL

-----------------------------------------------------------------------------
(* The refinement: what each step is in the life of the rows.              *)
LEMMA InitLife == Init => Life!Init
<1> SUFFICES ASSUME Init PROVE Life!Init
  OBVIOUS
<1>1. \A e \in Ev : Holders(e) = {}
  BY DEF Init, Holders
<1> QED BY <1>1 DEF Init, Life!Init

Status == [e \in Ev |-> row[e].status]
Held == [e \in Ev |-> Holders(e)]

LEMMA RowStepLife ==
  ASSUME IInv, RowStep
  PROVE  Life!Next \/ UNCHANGED <<Status, Held>>
<1>0. PICK e \in Ev : Add(e) \/ BecomeDue(e) \/ Replay(e)
  BY DEF RowStep
<1>1. UNCHANGED Held
  BY <1>0 DEF Add, BecomeDue, Replay, Held, Holders
<1>2. CASE BecomeDue(e)
  BY <1>1, <1>2 DEF BecomeDue, Status
<1>3. CASE Add(e)
  <2>1. Status[e] = "none" /\ Status' = [Status EXCEPT ![e] = "pending"]
    BY <1>3 DEF Add, Status, IInv, TypeOK, Rows
  <2> QED BY <1>1, <2>1 DEF Life!Next, Life!Move, Status, Held
<1>4. CASE Replay(e)
  <2>1. Status[e] = "dead" /\ Status' = [Status EXCEPT ![e] = "pending"]
    BY <1>4 DEF Replay, Status, IInv, TypeOK, Rows
  <2> QED BY <1>1, <2>1 DEF Life!Next, Life!Move, Status, Held
<1> QED BY <1>0, <1>2, <1>3, <1>4

LEMMA FetchLife ==
  ASSUME IInv, NEW w \in Worker, Fetch(w)
  PROVE  Life!Next
<1> DEFINE n == IF Len(line) < Batch THEN Len(line) ELSE Batch
           b == [i \in 1..n |-> [ev |-> line[i], attempts |-> row[line[i]].attempts]]
           rows == {line[i] : i \in 1..n}
<1>1. /\ pc[w] = "poll" /\ line # <<>> /\ batch' = [batch EXCEPT ![w] = b] /\ UNCHANGED row
  BY DEF Fetch, Shared
<1>2. \A i \in 1..n : line[i] \in Ev /\ row[line[i]].status = "pending"
  <2>1. line \in Seq(Ev) /\ Batch \in Nat \ {0} /\ \A i \in DOMAIN line : row[line[i]].status = "pending"
    BY DispatchAssumption DEF IInv, TypeOK, LineOfPending
  <2>2. Len(line) \in Nat /\ DOMAIN line = 1..Len(line) /\ 1..n \subseteq DOMAIN line
    BY <2>1
  <2> HIDE DEF n
  <2> QED BY <2>1, <2>2
<1>3. batch[w] = <<>>
  BY <1>1 DEF IInv, BatchOfRows
<1>4. \A e \in Ev : w \notin Holders(e)
  BY <1>3 DEF Holders
<1>5. \A e \in Ev : Holders(e)' = IF e \in rows THEN Holders(e) \cup {w} ELSE Holders(e)
  <2> HIDE DEF n
  <2>1. batch'[w] = b /\ \A u \in Worker : u # w => batch'[u] = batch[u]
    BY <1>1 DEF IInv, TypeOK
  <2>2. \A e \in Ev : (\E i \in DOMAIN b : b[i].ev = e) <=> e \in rows
    <3>1. DOMAIN b = 1..n /\ \A i \in 1..n : b[i].ev = line[i]
      OBVIOUS
    <3> HIDE DEF b
    <3> QED BY <3>1
  <2> HIDE DEF b, rows
  <2>3. \A e \in Ev : w \in Holders(e)' <=> e \in rows
    BY <2>1, <2>2 DEF Holders
  <2>4. \A e \in Ev, u \in Worker : u # w => (u \in Holders(e)' <=> u \in Holders(e))
    BY <2>1 DEF Holders
  <2>5. \A e \in Ev : Holders(e) \subseteq Worker /\ Holders(e)' \subseteq Worker
    BY DEF Holders
  <2> HIDE DEF rows
  <2> QED BY <1>4, <2>3, <2>4, <2>5
<1>6. rows \in SUBSET Ev /\ \A e \in rows : row[e].status = "pending"
  BY <1>2
<1> HIDE DEF rows
<1>7. Life!Take(w, rows)
  BY <1>1, <1>4, <1>5, <1>6 DEF Life!Take
<1> QED BY <1>6, <1>7 DEF Life!Next

(* The update of a row is a change that OutboxRow allows w.                *)
LEMMA UpdateLife ==
  ASSUME IInv, NEW w \in Worker, Update(w), NEW e, e = Current(w).ev,
         \E rows \in {{}, {e}, Ev} :
           \A d \in Ev : Holders(d)' = IF d \in rows THEN Holders(d) \ {w} ELSE Holders(d)
  PROVE  Life!Next
<1>1. /\ e \in Ev /\ w \in Holders(e)
      /\ \E to \in {"sent", "dead", row[e].status} :
           \A d \in Ev : row'[d].status = IF d = e THEN to ELSE row[d].status
  BY UpdatedRow
<1>2. \E rows \in {{}, {e}, Ev} : Life!Drop(w, rows)
  BY DEF Life!Drop
<1>3. \E to \in {"sent", "dead", Status[e]} : Status' = [Status EXCEPT ![e] = to]
  <2>1. PICK to \in {"sent", "dead", row[e].status} :
          \A d \in Ev : row'[d].status = IF d = e THEN to ELSE row[d].status
    BY <1>1
  <2>2. Status[e] = row[e].status
    BY <1>1 DEF Status
  <2>3. Status' = [Status EXCEPT ![e] = to]
    BY <2>1 DEF Status
  <2> QED BY <2>1, <2>2, <2>3
<1>4. Life!Settle(w, e)
  BY <1>1, <1>2, <1>3 DEF Life!Settle, Status
<1> QED BY <1>1, <1>4 DEF Life!Next

LEMMA SettlingLife ==
  ASSUME IInv, NEW w \in Worker, Settling(w)
  PROVE  Life!Next
<1>0. PICK e : e = Current(w).ev
  OBVIOUS
<1>1. pc[w] # "poll" /\ Advance(w) /\ Update(w)
  BY DEF Settling, MarkSent, Reschedule, MarkDead, Update
<1>2. \A d \in Ev : Holders(d)' = IF d \in {e} THEN Holders(d) \ {w} ELSE Holders(d)
  BY <1>0, <1>1, CopiesAfter
<1>3. {e} \in {{}, {e}, Ev}
  OBVIOUS
<1> QED BY <1>0, <1>1, <1>2, <1>3, UpdateLife

LEMMA MarkRaisesLife ==
  ASSUME IInv, NEW w \in Worker, MarkRaises(w)
  PROVE  Life!Next \/ UNCHANGED <<Status, Held>>
<1>1. \A d \in Ev : Holders(d)' = Holders(d)
  BY DEF MarkRaises, Holders
<1>2. CASE UNCHANGED Shared
  BY <1>1, <1>2 DEF Shared, Status, Held
<1>3. CASE Update(w)
  <2>1. \A d \in Ev : Holders(d)' = IF d \in {} THEN Holders(d) \ {w} ELSE Holders(d)
    BY <1>1
  <2>2. PICK e : e = Current(w).ev
    OBVIOUS
  <2>3. {} \in {{}, {e}, Ev}
    OBVIOUS
  <2> QED BY <1>3, <2>1, <2>2, <2>3, UpdateLife
<1> QED BY <1>2, <1>3 DEF MarkRaises, Update

LEMMA LosingLife ==
  ASSUME IInv, NEW w \in Worker, Losing(w)
  PROVE  Life!Next
<1>1. batch' = [batch EXCEPT ![w] = <<>>] /\ (UNCHANGED Shared \/ Update(w))
  BY DEF Losing, AbandonBatch, Crash, Update
<1>2. batch'[w] = <<>> /\ \A u \in Worker : u # w => batch'[u] = batch[u]
  BY <1>1 DEF IInv, TypeOK
<1>3. \A e \in Ev : Holders(e)' = IF e \in Ev THEN Holders(e) \ {w} ELSE Holders(e)
  BY <1>2 DEF Holders
<1>4. CASE UNCHANGED Shared
  <2>1. Life!Lose(w)
    BY <1>3, <1>4 DEF Life!Lose, Life!Drop, Shared
  <2> QED BY <2>1 DEF Life!Next
<1>5. CASE Update(w)
  <2>1. PICK e : e = Current(w).ev
    OBVIOUS
  <2>2. Ev \in {{}, {e}, Ev}
    OBVIOUS
  <2> QED BY <1>3, <1>5, <2>1, <2>2, UpdateLife
<1> QED BY <1>1, <1>4, <1>5

LEMMA StepLife == IInv /\ [Next]_vars => [Life!Next]_(Life!vars)
<1> SUFFICES ASSUME IInv, [Next]_vars PROVE Life!Next \/ UNCHANGED <<Status, Held>>
  BY DEF Life!vars, Status, Held
<1>1. CASE RowStep
  BY <1>1, RowStepLife
<1>2. ASSUME NEW w \in Worker, Dispatch(w) \/ Crash(w) PROVE Life!Next \/ UNCHANGED <<Status, Held>>
  <2>1. CASE Fetch(w)
    BY <2>1, FetchLife
  <2>2. CASE Publish(w) \/ PublishRaises(w)
    BY <2>2 DEF Publish, PublishRaises, Shared, Status, Held, Holders
  <2>2a. CASE MarkRaises(w)
    BY <2>2a, MarkRaisesLife
  <2>3. CASE Settling(w)
    BY <2>3, SettlingLife
  <2>4. CASE Losing(w)
    BY <2>4, LosingLife
  <2> QED BY <1>2, <2>1, <2>2, <2>2a, <2>3, <2>4 DEF Dispatch, Settling, Losing
<1>3. CASE UNCHANGED vars \/ \E w \in Worker : Deliver(w)
  BY <1>3 DEF vars, Deliver, Shared, Status, Held, Holders
<1> QED BY <1>1, <1>2, <1>3 DEF Next, RowStep, Idle

(* Whatever dispatchers, faults and replays do, a row is settled only by a *)
(* worker that fetched it while it was pending, and leaves "dead" only by  *)
(* a replay or such a worker: OutboxDispatch implements OutboxRow.         *)
THEOREM RowLifeHolds == Spec => RowLife
<1>1. Init => Life!Init
  BY InitLife
<1>2. IInv /\ [Next]_vars => [Life!Next]_(Life!vars)
  BY StepLife
<1> QED BY <1>1, <1>2, Invariance, PTL DEF Spec, RowLife, Life!Spec

-----------------------------------------------------------------------------
(* Nothing is lost: what is being marked is in a queue or was delivered,   *)
(* and so is what has been marked, because an event stays in its queue     *)
(* until it is delivered.                                                  *)
Safe(e) == e \in delivered \/ Queued(e)
NoneLost ==
  /\ \A w \in Worker : pc[w] = "mark" => Safe(Current(w).ev)
  /\ SentIsNotLost

(* The positions of a sequence without its head.                           *)
LEMMA HeadOrTail ==
  ASSUME NEW S, NEW s \in Seq(S), s # <<>>, NEW e, Contains(s, e)
  PROVE  e = Head(s) \/ Contains(Tail(s), e)
<1>1. PICK i \in DOMAIN s : s[i] = e
  <2>1. \E i \in 1..Len(s) : s[i] = e
    BY DEF Contains
  <2> QED BY <2>1, LenProperties
<1>2. /\ Head(s) = s[1] /\ (i = 1 \/ (i - 1 \in DOMAIN Tail(s) /\ Tail(s)[i - 1] = s[i]))
      /\ Tail(s) \in Seq(S)
  BY TailOf
<1>3. DOMAIN Tail(s) = 1..Len(Tail(s))
  BY <1>2, LenProperties
<1> QED BY <1>1, <1>2, <1>3 DEF Contains

LEMMA Appended ==
  ASSUME NEW S, NEW s \in Seq(S), NEW x \in S, NEW e, Contains(s, e) \/ e = x
  PROVE  Contains(Append(s, x), e)
<1>1. /\ Len(s) \in Nat /\ Len(Append(s, x)) = Len(s) + 1
      /\ \A i \in 1..Len(s) : Append(s, x)[i] = s[i]
      /\ Append(s, x)[Len(s) + 1] = x
  BY AppendProperties, LenProperties
<1>2. CASE e = x
  <2>1. Len(s) + 1 \in 1..(Len(s) + 1)
    BY <1>1
  <2> QED BY <1>1, <1>2, <2>1 DEF Contains
<1>3. CASE Contains(s, e)
  <2>1. PICK i \in 1..Len(s) : s[i] = e
    BY <1>3 DEF Contains
  <2>2. i \in 1..(Len(s) + 1)
    BY <1>1, <2>1
  <2> QED BY <1>1, <2>1, <2>2 DEF Contains
<1> QED BY <1>2, <1>3

(* What is safe stays safe: it moves with its queue, and from there to     *)
(* the consumer.                                                           *)
LEMMA SafeStays ==
  ASSUME IInv, [Next]_vars, [NothingDropped]_vars, NEW e \in Ev, Safe(e)
  PROVE  Safe(e)'
<1>0. queue \in [Worker -> Seq(Ev)]
  BY DEF IInv, TypeOK
<1>1. CASE UNCHANGED Bus
  BY <1>1 DEF Bus, Safe, Queued
<1>2. ASSUME NEW w \in Worker, Publish(w), ~UNCHANGED vars PROVE Safe(e)'
  <2>1. Current(w).ev \in Ev
    BY <1>2, CurrentIsFirst, CopyTypes DEF Publish
  <2>2. /\ UNCHANGED delivered /\ \A u \in Worker : u # w => queue'[u] = queue[u]
        /\ queue'[w] = Append(queue[w], Current(w).ev)
    BY <1>0, <1>2 DEF Publish, NothingDropped
  <2>3. queue[w] \in Seq(Ev) /\ (Contains(queue[w], e) => Contains(queue'[w], e))
    BY <1>0, <2>1, <2>2, Appended
  <2>4. \A u \in Worker : Contains(queue[u], e) => Contains(queue'[u], e)
    BY <2>2, <2>3
  <2> QED BY <2>2, <2>4 DEF Safe, Queued
<1>3. ASSUME NEW w \in Worker, Deliver(w) PROVE Safe(e)'
  <2>1. /\ queue[w] # <<>> /\ delivered' = delivered \cup {Head(queue[w])}
        /\ queue'[w] = Tail(queue[w]) /\ \A u \in Worker : u # w => queue'[u] = queue[u]
    BY <1>0, <1>3 DEF Deliver
  <2>2. Contains(queue[w], e) => e \in delivered' \/ Contains(queue'[w], e)
    BY <1>0, <2>1, HeadOrTail
  <2> QED BY <2>1, <2>2 DEF Safe, Queued
<1>4. ASSUME NEW w \in Worker, Crash(w), ~UNCHANGED vars PROVE Safe(e)'
  <2>1. queue' = queue /\ UNCHANGED delivered
    BY <1>0, <1>4 DEF Crash, NothingDropped
  <2> QED BY <2>1 DEF Safe, Queued
<1>5. CASE UNCHANGED vars
  BY <1>5 DEF vars, Safe, Queued
<1>6. ASSUME NEW d \in Ev, Add(d) \/ BecomeDue(d) \/ Replay(d) PROVE UNCHANGED Bus
  BY <1>6 DEF Add, BecomeDue, Replay
<1>7. ASSUME NEW w \in Worker, Dispatch(w), ~Publish(w) PROVE UNCHANGED Bus
  BY <1>7 DEF Dispatch, Fetch, PublishRaises, MarkSent, MarkRaises, Reschedule, MarkDead, AbandonBatch
<1> QED BY <1>1, <1>2, <1>3, <1>4, <1>5, <1>6, <1>7 DEF Next, Idle

(* A row is marked by a worker that has published it.                      *)
LEMMA MarkedBy ==
  ASSUME IInv, [Next]_vars, NEW e \in Ev, row'[e].status = "sent", row[e].status # "sent"
  PROVE  \E w \in Worker : pc[w] = "mark" /\ Current(w).ev = e
<1>0. row' # row
  OBVIOUS
<1>1. CASE RowStep
  BY <1>1 DEF RowStep, Add, BecomeDue, Replay, IInv, TypeOK, Rows
<1>2. CASE \E w \in Worker : Update(w)
  <2>1. PICK w \in Worker : Update(w)
    BY <1>2
  <2>2. PICK d : d = Current(w).ev
    OBVIOUS
  <2>3. /\ \A c \in Ev : c # d => row'[c] = row[c]
        /\ row'[d].status = "sent" => row[d].status = "sent" \/ pc[w] = "mark"
    BY <2>1, <2>2, UpdatedRow
  <2> QED BY <2>2, <2>3
<1>3. RowStep \/ (\E w \in Worker : Update(w)) \/ UNCHANGED row
  BY DEF Next, RowStep, Dispatch, Fetch, Publish, PublishRaises, MarkSent, MarkRaises, Reschedule,
         MarkDead, AbandonBatch, Deliver, Crash, Idle, Update, vars, Shared
<1> QED BY <1>0, <1>1, <1>2, <1>3

(* A worker comes to mark what it has just put into its queue.             *)
LEMMA MarkingIsSafe ==
  ASSUME IInv, [Next]_vars, [NothingDropped]_vars, NoneLost,
         NEW w \in Worker, pc'[w] = "mark"
  PROVE  Safe(Current(w).ev)'
<1>0. /\ queue \in [Worker -> Seq(Ev)] /\ pc \in [Worker -> {"poll", "publish", "mark", "failed"}]
      /\ batch \in [Worker -> Seq(Fetched)]
  BY DEF IInv, TypeOK
<1>1. CASE pc[w] = "mark" /\ batch'[w] = batch[w]
  <2>1. Current(w)' = Current(w) /\ Current(w).ev \in Ev /\ Safe(Current(w).ev)
    BY <1>1, CurrentIsFirst, CopyTypes DEF NoneLost, Current
  <2>2. PICK e \in Ev : e = Current(w).ev
    BY <2>1
  <2>3. Safe(e)'
    BY <2>1, <2>2, SafeStays
  <2>4. e = Current(w)'.ev
    BY <2>1, <2>2
  <2> QED BY <2>3, <2>4
<1>2. CASE Publish(w) /\ ~UNCHANGED vars
  <2>1. Current(w)' = Current(w) /\ Current(w).ev \in Ev
    BY <1>2, CurrentIsFirst, CopyTypes DEF Publish, Current
  <2>2. queue'[w] = Append(queue[w], Current(w).ev)
    BY <1>0, <1>2 DEF Publish, NothingDropped
  <2>3. Contains(queue'[w], Current(w).ev)
    BY <1>0, <2>1, <2>2, Appended
  <2> QED BY <2>1, <2>3 DEF Safe, Queued
<1>3. (pc[w] = "mark" /\ batch'[w] = batch[w]) \/ (Publish(w) /\ ~UNCHANGED vars)
  <2>1. CASE UNCHANGED vars
    BY <2>1 DEF vars
  <2>2. CASE RowStep
    BY <2>2 DEF RowStep, Add, BecomeDue, Replay
  <2>3. ASSUME NEW u \in Worker, Dispatch(u) \/ Deliver(u) \/ Crash(u) \/ Idle(u), ~UNCHANGED vars, u # w
        PROVE  pc[w] = "mark" /\ batch'[w] = batch[w]
    <3>1. /\ pc' = pc \/ \E p : pc' = [pc EXCEPT ![u] = p]
          /\ batch' = batch \/ \E b : batch' = [batch EXCEPT ![u] = b]
      BY <2>3 DEF Dispatch, Fetch, Publish, PublishRaises, MarkSent, MarkRaises, Reschedule, MarkDead,
                  AbandonBatch, Deliver, Crash, Idle, Advance, Goto, vars
    <3> QED BY <1>0, <2>3, <3>1
  <2>4. ASSUME Dispatch(w) \/ Deliver(w) \/ Crash(w) \/ Idle(w), ~UNCHANGED vars
        PROVE  (pc[w] = "mark" /\ batch'[w] = batch[w]) \/ Publish(w)
    <3>1. CASE Deliver(w)
      BY <3>1 DEF Deliver
    <3>2. CASE Fetch(w) \/ PublishRaises(w) \/ MarkRaises(w) \/ AbandonBatch(w) \/ Crash(w)
      BY <1>0, <3>2 DEF Fetch, PublishRaises, MarkRaises, AbandonBatch, Crash, Goto
    <3>3. CASE Settling(w)
      <4>1. pc[w] # "poll" /\ Advance(w)
        BY <3>3 DEF Settling, MarkSent, Reschedule, MarkDead
      <4> QED BY <4>1, Advancing DEF AfterAdvance
    <3> QED BY <2>4, <3>1, <3>2, <3>3 DEF Dispatch, Idle, Settling
  <2> QED BY <2>1, <2>2, <2>3, <2>4 DEF Next, RowStep
<1> QED BY <1>1, <1>2, <1>3

LEMMA StepNoneLost ==
  IInv /\ [Next]_vars /\ [NothingDropped]_vars /\ NoneLost => NoneLost'
<1> SUFFICES ASSUME IInv, [Next]_vars, [NothingDropped]_vars, NoneLost PROVE NoneLost'
  OBVIOUS
<1>1. \A w \in Worker : pc'[w] = "mark" => Safe(Current(w).ev)'
  BY MarkingIsSafe
<1>2. ASSUME NEW e \in Ev, row'[e].status = "sent" PROVE Safe(e)'
  <2>1. Safe(e)
    <3>1. CASE row[e].status = "sent"
      BY <3>1 DEF NoneLost, SentIsNotLost, Safe
    <3>2. CASE row[e].status # "sent"
      BY <1>2, <3>2, MarkedBy DEF NoneLost
    <3> QED BY <3>1, <3>2
  <2> QED BY <2>1, SafeStays
<1> QED BY <1>1, <1>2 DEF NoneLost, SentIsNotLost, Safe

(* The outbox loses no event of a row it has marked as sent, whatever      *)
(* fails in MongoDB and however many dispatchers handle the same rows, in  *)
(* every behaviour in which no event is published into a full queue (where *)
(* InMemoryEventBus.publish drops it without an error) and no process      *)
(* stops with events in its queue.                                         *)
THEOREM SentIsNotLostHolds ==
  Spec /\ [][NothingDropped]_vars => []SentIsNotLost
<1>1. Init => NoneLost
  BY DEF Init, NoneLost, SentIsNotLost
<1>2. NoneLost => SentIsNotLost
  BY DEF NoneLost
<1> QED BY <1>1, <1>2, StepNoneLost, Invariance, PTL DEF Spec
=============================================================================
