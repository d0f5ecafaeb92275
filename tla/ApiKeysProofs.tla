---------------------------- MODULE ApiKeysProofs ---------------------------
(***************************************************************************)
(* Proofs about ApiKeys, for any number of requests, administrators and    *)
(* starting workers: a secret that has stopped working never works again,  *)
(* and nobody gets in with it; and the limiter keeps what it promises the  *)
(* service and the client.                                                 *)
(*                                                                         *)
(* None is inductive: that a rotation cannot bring a secret back rests on  *)
(* its being fresh, that a request cannot use one it was sent with rests   *)
(* on what it has read of the key so far, and what the limiter promises of *)
(* any stretch of time rests on how hits fall into windows.                *)
(***************************************************************************)
EXTENDS ApiKeys, TLAPS, FiniteSetTheorems

(* A key, and a secret that has one, belong to a request that is done.     *)
Fresh ==
  /\ \A k \in Key : keys[k] # None => apc[k] = "done"
  /\ \A k \in Existing : keys[k].secret \in Admin => apc[keys[k].secret] = "done"

(* What has stopped working stays so.                                      *)
Gone == \A s \in retired \ {Configured} : apc[s] = "done" /\ ~Works(s)

(* What requests remember of keys exists.                                  *)
Remembered ==
  /\ \A r \in Req : pc[r] \in {"check", "touch"} =>
       doc[r] \in [key : Key, rec : Record] /\ doc[r].key \in Existing
  /\ \A a \in Key : apc[a] = "rotate" => a \in Admin /\ aim[a] \in Existing
  /\ \A a \in Key : apc[a] = "insert" => a \in Boot

(* A request with a dead secret: it may still find the record of a key     *)
(* that has expired, and turns it down.                                    *)
Barred ==
  /\ \A r \in Req : pc[r] = "idle" => resp[r] = "none"
  /\ \A r \in Req : dead[r] =>
       /\ pc[r] = "find" => cred[r].secret \in retired \ {Configured}
       /\ pc[r] = "check" => doc[r].rec.expires <= now
       /\ pc[r] # "touch" /\ resp[r] # "key"

IInv == TypeOK /\ Fresh /\ Gone /\ Remembered /\ Barred

LEMMA InitIInv == Init => IInv
BY KeysAssumption
   DEF Init, IInv, TypeOK, Fresh, Gone, Remembered, Barred, Existing, Works, Nothing,
       Secret, Key

-----------------------------------------------------------------------------
(* Types.                                                                  *)
LEMMA AnswerType ==
  ASSUME TypeOK, NEW r \in Req, NEW a,
         a \in {"none", "unauthorized", "limited", "key", "token", "error"}, Answer(r, a)
  PROVE  /\ pc' \in [Req -> {"idle", "token", "find", "check", "touch", "done"}]
         /\ cred' \in [Req -> [secret : Secret \cup {None}, token : Token \cup {None}]]
         /\ doc' \in [Req -> [key : Key, rec : Record] \cup {None}]
         /\ resp' \in [Req -> {"none", "unauthorized", "limited", "key", "token", "error"}]
BY DEF TypeOK, Answer, Nothing

LEMMA BearerAnswers ==
  ASSUME NEW r \in Req, Bearer(r)
  PROVE  \E a \in {"unauthorized", "limited", "token"} : Answer(r, a)
BY DEF Bearer, Hit

LEMMA HitAnswers ==
  ASSUME NEW r \in Req, NEW p, NEW by, Hit(r, p, by)
  PROVE  \E a \in {"limited", by} : Answer(r, a)
BY DEF Hit

(* What a step of a request does to the variables of requests.             *)
LEMMA RequestType ==
  ASSUME TypeOK, Remembered, NEW r \in Req,
         Begin(r) \/ TokenOnly(r) \/ Find(r) \/ CheckRecord(r) \/ Raise(r)
  PROVE  TypeOK'
<1>1. /\ keys' = keys /\ now' = now /\ apc' = apc /\ aim' = aim /\ retired' = retired
      /\ dead' \in [Req -> BOOLEAN]
  <2>1. CASE Begin(r)
    BY <2>1 DEF TypeOK, Begin, Admins
  <2>2. CASE TokenOnly(r) \/ Raise(r)
    BY <2>2 DEF TypeOK, TokenOnly, Raise, Admins
  <2>3. CASE Find(r)
    BY <2>3 DEF TypeOK, Find, Admins
  <2>4. CASE CheckRecord(r)
    BY <2>4 DEF TypeOK, CheckRecord, Admins
  <2> QED BY <2>1, <2>2, <2>3, <2>4
<1>2. /\ pc' \in [Req -> {"idle", "token", "find", "check", "touch", "done"}]
      /\ cred' \in [Req -> [secret : Secret \cup {None}, token : Token \cup {None}]]
      /\ doc' \in [Req -> [key : Key, rec : Record] \cup {None}]
      /\ resp' \in [Req -> {"none", "unauthorized", "limited", "key", "token", "error"}]
  <2>1. ASSUME Bearer(r) PROVE <1>2
    BY <2>1, BearerAnswers, AnswerType
  <2>2. CASE Begin(r)
    <3>1. PICK s \in {keys[k].secret : k \in Existing} \cup retired \cup {None},
               t \in Token \cup {None} :
            /\ cred' = [cred EXCEPT ![r] = [secret |-> s, token |-> t]]
            /\ pc' = [pc EXCEPT ![r] = IF s # None /\ "api_key" \in Modes THEN "find" ELSE "token"]
      BY <2>2 DEF Begin
    <3>2. s \in Secret \cup {None}
      BY DEF TypeOK, Existing, Record
    <3> QED BY <2>2, <3>1, <3>2 DEF TypeOK, Begin
  <2>3. CASE TokenOnly(r)
    BY <2>1, <2>3 DEF TokenOnly
  <2>4. CASE Find(r)
    <3>1. CASE Bearer(r)
      BY <2>1, <3>1
    <3>2. CASE ~Bearer(r)
      <4>1. PICK k \in Matches(cred[r].secret) : doc' = [doc EXCEPT ![r] = [key |-> k, rec |-> keys[k]]]
        BY <2>4, <3>2 DEF Find
      <4>2. [key |-> k, rec |-> keys[k]] \in [key : Key, rec : Record]
        BY DEF TypeOK, Matches, Existing
      <4> QED BY <2>4, <3>2, <4>1, <4>2 DEF TypeOK, Find
    <3> QED BY <3>1, <3>2
  <2>5. CASE CheckRecord(r)
    <3>1. CASE Bearer(r)
      BY <2>1, <3>1
    <3>2. CASE Hit(r, doc[r].key, "key")
      BY <3>2, HitAnswers, AnswerType
    <3>3. CASE pc' = [pc EXCEPT ![r] = "touch"] /\ UNCHANGED <<cred, doc, resp, Limiter>>
      BY <3>3 DEF TypeOK
    <3> QED BY <2>5, <3>1, <3>2, <3>3 DEF CheckRecord
  <2>6. CASE Raise(r)
    BY <2>6, AnswerType DEF Raise
  <2> QED BY <2>2, <2>3, <2>4, <2>5, <2>6
<1> QED BY <1>1, <1>2 DEF TypeOK

(* Touch moves last_used_at only.                                          *)
LEMMA TouchKeys ==
  ASSUME TypeOK, Remembered, NEW r \in Req, Touch(r)
  PROVE  /\ keys' \in [Key -> Record \cup {None}]
         /\ \A k \in Key :
              \/ keys'[k] = keys[k]
              \/ /\ keys[k] # None /\ keys'[k] # None
                 /\ keys'[k].secret = keys[k].secret /\ keys'[k].active = keys[k].active
                 /\ keys'[k].expires = keys[k].expires
<1> DEFINE k == doc[r].key
<1>1. k \in Existing
  BY DEF Touch, Remembered
<1>2. k \in Key /\ keys[k] \in Record /\ now \in Nat
  BY <1>1 DEF TypeOK, Existing
<1>3. /\ [keys[k] EXCEPT !.last = now] \in Record
      /\ [keys[k] EXCEPT !.last = now].secret = keys[k].secret
      /\ [keys[k] EXCEPT !.last = now].active = keys[k].active
      /\ [keys[k] EXCEPT !.last = now].expires = keys[k].expires
  BY <1>2 DEF Record
<1>4. keys' = [keys EXCEPT ![k] = [keys[k] EXCEPT !.last = now]]
  BY DEF Touch
<1>5. None \notin Record
  BY KeysAssumption
<1> QED BY <1>1, <1>2, <1>3, <1>4, <1>5 DEF TypeOK, Existing

LEMMA TouchType ==
  ASSUME TypeOK, Remembered, NEW r \in Req, Touch(r)
  PROVE  TypeOK'
<1>1. keys' \in [Key -> Record \cup {None}]
  BY TouchKeys
<1>2. \E a \in {"limited", "key"} : Answer(r, a)
  BY HitAnswers DEF Touch
<1>3. UNCHANGED <<now, dead, apc, aim>> /\ retired' \subseteq Secret
  BY DEF TypeOK, Touch, Admins, Retire
<1> QED BY <1>1, <1>2, <1>3, AnswerType DEF TypeOK

LEMMA NewRecordType ==
  ASSUME TypeOK, NEW s \in Secret, NEW end \in {Never} \cup {now + ttl : ttl \in Ttls}
  PROVE  NewRecord(s, end) \in Record
<1>1. end \in Nat
  BY KeysAssumption DEF TypeOK, Never
<1> QED BY <1>1 DEF NewRecord, Record

(* What the steps of administrators and starts do to keys.                 *)
AdminStep(a) ==
  Create(a) \/ RotateSet(a) \/ BootCount(a) \/ BootInsert(a)
    \/ \E k \in Key : RotateFind(a, k) \/ Revoke(a, k)

LEMMA RotateSetKeys ==
  ASSUME TypeOK, Remembered, NEW a \in Key, RotateSet(a)
  PROVE  /\ a \in Admin /\ aim[a] \in Existing
         /\ keys' = [keys EXCEPT ![aim[a]] = [keys[aim[a]] EXCEPT !.secret = a]]
         /\ [keys[aim[a]] EXCEPT !.secret = a] \in Record
<1>1. a \in Admin /\ aim[a] \in Existing
  BY DEF RotateSet, Remembered
<1>2. keys[aim[a]] \in Record
  BY <1>1 DEF TypeOK, Existing
<1>3. [keys[aim[a]] EXCEPT !.secret = a] \in Record
  BY <1>1, <1>2 DEF Record, Secret
<1> QED BY <1>1, <1>3 DEF RotateSet

LEMMA RevokeKeys ==
  ASSUME TypeOK, NEW a \in Key, NEW k \in Key, Revoke(a, k)
  PROVE  /\ k \in Existing
         /\ keys' = [keys EXCEPT ![k] = [keys[k] EXCEPT !.active = FALSE]]
         /\ [keys[k] EXCEPT !.active = FALSE] \in Record
<1>1. keys[k] \in Record /\ k \in Existing
  BY DEF TypeOK, Existing, Revoke
<1> QED BY <1>1 DEF Revoke, Record

LEMMA AdminType ==
  ASSUME TypeOK, Remembered, NEW a \in Key, AdminStep(a)
  PROVE  TypeOK'
<1>1. UNCHANGED <<now, pc, cred, dead, doc, resp>> /\ retired' \subseteq Secret
      /\ aim' \in [Key -> Key \cup {None}]
  BY DEF TypeOK, AdminStep, Create, RotateSet, BootCount, BootInsert, RotateFind, Revoke,
         Requests, Retire
<1>2. apc' \in [Key -> {"idle", "rotate", "insert", "done"}]
  BY DEF TypeOK, AdminStep, Create, RotateSet, BootCount, BootInsert, RotateFind, Revoke, AGoto
<1>3. keys' \in [Key -> Record \cup {None}]
  <2>1. CASE Create(a)
    BY <2>1, NewRecordType DEF TypeOK, Create, Secret
  <2>2. CASE RotateSet(a)
    BY <2>2, RotateSetKeys DEF TypeOK
  <2>3. CASE BootCount(a) \/ \E k \in Key : RotateFind(a, k)
    BY <2>3 DEF TypeOK, BootCount, RotateFind
  <2>4. CASE BootInsert(a)
    <3>1. NewRecord(Configured, Never) \in Record
      BY NewRecordType DEF Secret
    <3> QED BY <2>4, <3>1 DEF TypeOK, BootInsert
  <2>5. CASE \E k \in Key : Revoke(a, k)
    BY <2>5, RevokeKeys DEF TypeOK
  <2> QED BY <2>1, <2>2, <2>3, <2>4, <2>5 DEF AdminStep
<1> QED BY <1>1, <1>2, <1>3 DEF TypeOK

LEMMA TickType ==
  ASSUME TypeOK, Tick
  PROVE  TypeOK'
BY KeysAssumption DEF TypeOK, Tick, Retire, Requests, Admins, Limiter

-----------------------------------------------------------------------------
(* What may change about keys.                                             *)
(* A key keeps existing; a revoked one stays so; and a secret of Admin that*)
(* has been minted works only if it did before.                            *)
KeysAge ==
  /\ \A k \in Existing : keys'[k] # None /\ (~keys[k].active => ~keys'[k].active)
  /\ \A s \in Admin : apc[s] = "done" /\ Works(s)' => Works(s)
  /\ \A a \in Key : apc[a] = "done" => apc'[a] = "done"
  /\ retired' = retired \cup {s \in Secret : Works(s) /\ ~Works(s)'}

RequestStep(r) == Begin(r) \/ TokenOnly(r) \/ Find(r) \/ CheckRecord(r) \/ Raise(r)

LEMMA RequestLeavesKeys ==
  ASSUME NEW r \in Req, RequestStep(r)
  PROVE  UNCHANGED <<keys, now, apc, aim, retired>>
<1>1. CASE Begin(r)
  BY <1>1 DEF Begin, Admins
<1>2. CASE TokenOnly(r) \/ Raise(r)
  BY <1>2 DEF TokenOnly, Raise, Admins
<1>3. CASE Find(r)
  BY <1>3 DEF Find, Admins
<1>4. CASE CheckRecord(r)
  BY <1>4 DEF CheckRecord, Admins
<1> QED BY <1>1, <1>2, <1>3, <1>4 DEF RequestStep

LEMMA StillAge ==
  ASSUME UNCHANGED <<keys, now, retired, apc>>
  PROVE  KeysAge
BY DEF KeysAge, Works, Existing

LEMMA TouchAge ==
  ASSUME IInv, NEW r \in Req, Touch(r)
  PROVE  KeysAge
<1>1. UNCHANGED <<now, apc, aim>> /\ Retire
  BY DEF Touch, Admins
<1>2. \A k \in Key :
        \/ keys'[k] = keys[k]
        \/ /\ keys[k] # None /\ keys'[k] # None
           /\ keys'[k].secret = keys[k].secret /\ keys'[k].active = keys[k].active
           /\ keys'[k].expires = keys[k].expires
  BY TouchKeys DEF IInv
<1>3. \A s : Works(s)' => Works(s)
  BY <1>1, <1>2 DEF Works, Existing
<1> QED BY <1>1, <1>2, <1>3 DEF KeysAge, Existing, Retire

LEMMA AdminAge ==
  ASSUME IInv, NEW a \in Key, AdminStep(a)
  PROVE  KeysAge
<1> USE DEF IInv
<1>1. \A b \in Key : apc[b] = "done" => apc'[b] = "done"
  BY DEF TypeOK, AdminStep, Create, RotateSet, BootCount, BootInsert, RotateFind, Revoke, AGoto
<1>2. CASE Create(a)
  <2>1. PICK end \in {Never} \cup {now + ttl : ttl \in Ttls} :
          keys' = [keys EXCEPT ![a] = NewRecord(a, end)]
    BY <1>2 DEF Create
  <2>2. NewRecord(a, end) \in Record /\ NewRecord(a, end).secret = a
    BY <1>2, NewRecordType DEF Create, Secret, NewRecord
  <2>3. keys[a] = None /\ apc[a] # "done"
    BY <1>2 DEF Create, Fresh
  <2>4. now' = now /\ Retire
    BY <1>2 DEF Create
  <2>5. keys'[a].secret = a /\ \A k \in Key : k # a => keys'[k] = keys[k]
    BY <2>1, <2>2 DEF TypeOK
  <2>6. \A s \in Admin : apc[s] = "done" /\ Works(s)' => Works(s)
    BY <2>3, <2>4, <2>5 DEF Works, Existing
  <2> QED BY <1>1, <2>3, <2>4, <2>5, <2>6 DEF KeysAge, Existing, Retire
<1>3. CASE RotateSet(a)
  <2> DEFINE new == [keys[aim[a]] EXCEPT !.secret = a]
  <2>1. aim[a] \in Existing /\ new \in Record /\ keys' = [keys EXCEPT ![aim[a]] = new]
    BY <1>3, RotateSetKeys
  <2>2. new.secret = a /\ new.active = keys[aim[a]].active /\ apc[a] # "done" /\ new # None
    BY <1>3, <2>1, KeysAssumption DEF RotateSet, Record, TypeOK, Existing
  <2>3. now' = now /\ Retire
    BY <1>3 DEF RotateSet
  <2> HIDE DEF new
  <2>4. keys'[aim[a]] = new /\ \A k \in Key : k # aim[a] => keys'[k] = keys[k]
    BY <2>1 DEF TypeOK, Existing
  <2>5. \A s \in Admin : apc[s] = "done" /\ Works(s)' => Works(s)
    BY <2>2, <2>3, <2>4 DEF Works, Existing
  <2>6. \A k \in Existing : keys'[k] # None /\ (~keys[k].active => ~keys'[k].active)
    BY <2>2, <2>4 DEF Existing
  <2> QED BY <1>1, <2>3, <2>5, <2>6 DEF KeysAge, Retire
<1>4. CASE BootCount(a) \/ \E k \in Key : RotateFind(a, k)
  <2>1. UNCHANGED <<keys, now, retired>>
    BY <1>4 DEF BootCount, RotateFind
  <2> QED BY <1>1, <2>1 DEF KeysAge, Works, Existing
<1>5. CASE BootInsert(a)
  <2> DEFINE new == NewRecord(Configured, Never)
  <2>1. keys[a] = None /\ Configured \notin Admin
    BY <1>5, KeysAssumption DEF BootInsert, Fresh
  <2>2. new.secret = Configured
    BY DEF NewRecord
  <2>3. now' = now /\ Retire /\ (keys' = keys \/ keys' = [keys EXCEPT ![a] = new])
    BY <1>5 DEF BootInsert
  <2> HIDE DEF new
  <2>4. \A k \in Key : keys'[k] = keys[k] \/ (k = a /\ keys'[k] = new)
    BY <2>3 DEF TypeOK
  <2>5. \A s \in Admin : Works(s)' => Works(s)
    BY <2>1, <2>2, <2>3, <2>4 DEF Works, Existing
  <2> QED BY <1>1, <2>1, <2>3, <2>4, <2>5 DEF KeysAge, Existing, Retire
<1>6. ASSUME NEW k \in Key, Revoke(a, k)
      PROVE  KeysAge
  <2> DEFINE new == [keys[k] EXCEPT !.active = FALSE]
  <2>1. k \in Existing /\ new \in Record /\ keys' = [keys EXCEPT ![k] = new]
    BY <1>6, RevokeKeys
  <2>2. new.active = FALSE /\ new # None
    BY <2>1, KeysAssumption DEF Record, TypeOK, Existing
  <2>3. now' = now /\ Retire
    BY <1>6 DEF Revoke
  <2> HIDE DEF new
  <2>4. keys'[k] = new /\ \A j \in Key : j # k => keys'[j] = keys[j]
    BY <2>1 DEF TypeOK
  <2>5. \A s : Works(s)' => Works(s)
    BY <2>2, <2>3, <2>4 DEF Works, Existing
  <2>6. \A j \in Existing : keys'[j] # None /\ (~keys[j].active => ~keys'[j].active)
    BY <2>2, <2>4 DEF Existing
  <2> QED BY <1>1, <2>3, <2>5, <2>6 DEF KeysAge, Retire
<1> QED BY <1>2, <1>3, <1>4, <1>5, <1>6 DEF AdminStep

LEMMA TickAge ==
  ASSUME IInv, Tick
  PROVE  KeysAge
<1>1. keys' = keys /\ apc' = apc /\ now' = now + 1 /\ Retire
  BY DEF Tick, Admins
<1>2. \A k \in Existing : keys[k].expires \in Nat /\ now \in Nat
  BY DEF IInv, TypeOK, Existing, Record
<1>3. \A s : Works(s)' => Works(s)
  BY <1>1, <1>2 DEF Works, Existing
<1> QED BY <1>1, <1>3 DEF KeysAge, Existing, Retire

LEMMA StepAge ==
  IInv /\ [Next]_vars => KeysAge
<1> SUFFICES ASSUME IInv, [Next]_vars PROVE KeysAge
  OBVIOUS
<1>1. ASSUME NEW r \in Req, RequestStep(r) PROVE KeysAge
  BY <1>1, RequestLeavesKeys, StillAge
<1>2. ASSUME NEW r \in Req, Touch(r) PROVE KeysAge
  BY <1>2, TouchAge
<1>3. ASSUME NEW a \in Key, AdminStep(a) PROVE KeysAge
  BY <1>3, AdminAge
<1>4. CASE Tick
  BY <1>4, TickAge
<1>5. CASE UNCHANGED vars
  BY <1>5, StillAge DEF vars
<1> QED BY <1>1, <1>2, <1>3, <1>4, <1>5 DEF Next, RequestStep, AdminStep

-----------------------------------------------------------------------------
(* The invariant is kept.                                                  *)
LEMMA GoneKept ==
  ASSUME IInv, KeysAge
  PROVE  Gone'
<1> SUFFICES ASSUME NEW s \in (retired \ {Configured})'
             PROVE  apc'[s] = "done" /\ ~Works(s)'
  BY DEF Gone
<1>1. s \in Admin
  BY DEF IInv, TypeOK, KeysAge, Secret
<1>2. CASE s \in retired
  BY <1>1, <1>2 DEF IInv, Gone, KeysAge, Key
<1>3. CASE s \notin retired
  <2>1. Works(s) /\ ~Works(s)'
    BY <1>3 DEF KeysAge
  <2>2. apc[s] = "done"
    BY <1>1, <2>1 DEF IInv, Fresh, Works
  <2> QED BY <1>1, <2>1, <2>2 DEF KeysAge, Key
<1> QED BY <1>2, <1>3

LEMMA FreshKept ==
  ASSUME IInv, [Next]_vars
  PROVE  Fresh'
<1> USE DEF IInv
<1>1. KeysAge
  BY StepAge
<1>2. ASSUME NEW r \in Req, RequestStep(r) PROVE Fresh'
  BY <1>2, RequestLeavesKeys DEF Fresh, Existing
<1>3. ASSUME NEW r \in Req, Touch(r) PROVE Fresh'
  <2>1. apc' = apc
    BY <1>3 DEF Touch, Admins
  <2>2. \A k \in Key :
          keys'[k] = keys[k] \/ (keys[k] # None /\ keys'[k].secret = keys[k].secret)
    BY <1>3, TouchKeys
  <2> QED BY <2>1, <2>2 DEF Fresh, Existing
<1>4. ASSUME NEW a \in Key, AdminStep(a) PROVE Fresh'
  <2>1. \A b \in Key : b # a => apc'[b] = apc[b]
    BY <1>4 DEF TypeOK, AdminStep, Create, RotateSet, BootCount, BootInsert, RotateFind, Revoke, AGoto
  <2>2. \A b \in Key : apc[b] = "done" => apc'[b] = "done"
    BY <1>1 DEF KeysAge
  <2>3. CASE Create(a) \/ BootInsert(a)
    <3>1. apc'[a] = "done"
      BY <2>3 DEF TypeOK, Create, BootInsert, AGoto
    <3>2. \A k \in Key : \/ keys'[k] = keys[k]
                         \/ k = a /\ (keys'[k].secret \in Admin => keys'[k].secret = a)
      BY <2>3, KeysAssumption DEF TypeOK, Create, BootInsert, NewRecord
    <3> QED BY <2>2, <3>1, <3>2 DEF Fresh, Existing, Key
  <2>4. CASE RotateSet(a)
    <3> DEFINE new == [keys[aim[a]] EXCEPT !.secret = a]
    <3>1. aim[a] \in Existing /\ new \in Record /\ keys' = [keys EXCEPT ![aim[a]] = new]
      BY <2>4, RotateSetKeys
    <3>2. new.secret = a
      BY <3>1 DEF TypeOK, Existing, Record
    <3> HIDE DEF new
    <3>3. apc'[a] = "done" /\ \A k \in Key : keys'[k] = keys[k] \/ (k = aim[a] /\ keys'[k].secret = a)
      BY <2>4, <3>1, <3>2 DEF TypeOK, RotateSet, AGoto
    <3> QED BY <2>2, <3>1, <3>3 DEF Fresh, Existing, Key
  <2>5. CASE \E k \in Key : Revoke(a, k)
    <3>1. PICK k \in Key : Revoke(a, k)
      BY <2>5
    <3>2. k \in Existing /\ keys' = [keys EXCEPT ![k] = [keys[k] EXCEPT !.active = FALSE]]
      BY <3>1, RevokeKeys
    <3>3. [keys[k] EXCEPT !.active = FALSE].secret = keys[k].secret
      BY <3>2 DEF TypeOK, Existing, Record
    <3>4. \A j \in Key : keys'[j] = keys[j] \/ (keys[j] # None /\ keys'[j].secret = keys[j].secret)
      BY <3>2, <3>3 DEF TypeOK, Existing
    <3> QED BY <2>2, <3>4 DEF Fresh, Existing, Key
  <2>6. CASE BootCount(a) \/ \E k \in Key : RotateFind(a, k)
    <3>1. keys' = keys
      BY <2>6 DEF BootCount, RotateFind
    <3> QED BY <2>2, <3>1 DEF Fresh, Existing, Key
  <2> QED BY <1>4, <2>3, <2>4, <2>5, <2>6 DEF AdminStep
<1>5. CASE Tick \/ UNCHANGED vars
  BY <1>5 DEF Tick, vars, Admins, Fresh, Existing
<1> QED BY <1>2, <1>3, <1>4, <1>5 DEF Next, RequestStep, AdminStep

LEMMA RememberedKept ==
  ASSUME IInv, [Next]_vars, TypeOK'
  PROVE  Remembered'
<1> USE DEF IInv
<1>1. \A k \in Existing : k \in Existing'
  BY StepAge DEF KeysAge, Existing
<1>2. ASSUME NEW r \in Req, pc'[r] \in {"check", "touch"}
      PROVE  doc'[r] \in [key : Key, rec : Record] /\ doc'[r].key \in Existing'
  <2>1. CASE pc'[r] = pc[r] /\ doc'[r] = doc[r]
    BY <1>1, <1>2, <2>1 DEF Remembered
  <2>2. ASSUME NEW a, Answer(r, a) PROVE FALSE
    BY <1>2, <2>2 DEF Answer, TypeOK
  <2>3. CASE Find(r)
    <3>1. ~Bearer(r)
      BY <2>2, BearerAnswers
    <3>2. PICK k \in Matches(cred[r].secret) : doc' = [doc EXCEPT ![r] = [key |-> k, rec |-> keys[k]]]
      BY <2>3, <3>1 DEF Find
    <3>3. k \in Existing /\ keys[k] \in Record
      BY DEF Matches, TypeOK, Existing
    <3> QED BY <1>1, <3>2, <3>3 DEF TypeOK, Existing
  <2>4. CASE CheckRecord(r)
    <3>1. ~Bearer(r) /\ ~Hit(r, doc[r].key, "key")
      BY <2>2, BearerAnswers, HitAnswers
    <3>2. pc[r] = "check" /\ doc' = doc
      BY <2>4, <3>1 DEF CheckRecord
    <3> QED BY <1>1, <3>2 DEF Remembered
  <2>5. CASE Begin(r)
    BY <1>2, <2>5 DEF Begin, TypeOK
  <2>6. CASE TokenOnly(r) \/ Touch(r) \/ Raise(r)
    BY <2>2, <2>6, BearerAnswers, HitAnswers DEF TokenOnly, Touch, Raise
  <2>7. CASE \E q \in Req : q # r /\ (RequestStep(q) \/ Touch(q))
    <3>1. PICK q \in Req : q # r /\ (RequestStep(q) \/ Touch(q))
      BY <2>7
    <3>2. ASSUME \E a : Answer(q, a) PROVE pc'[r] = pc[r] /\ doc'[r] = doc[r]
      BY <3>1, <3>2 DEF Answer, TypeOK
    <3>3. CASE Bearer(q) \/ Touch(q) \/ Raise(q) \/ Hit(q, doc[q].key, "key")
      BY <2>1, <3>2, <3>3, BearerAnswers, HitAnswers DEF Touch, Raise
    <3>4. CASE Begin(q)
      BY <2>1, <3>1, <3>4 DEF Begin, TypeOK
    <3>5. CASE Find(q) /\ ~Bearer(q)
      BY <2>1, <3>1, <3>5 DEF Find, TypeOK
    <3>6. CASE CheckRecord(q) /\ ~Bearer(q) /\ ~Hit(q, doc[q].key, "key")
      BY <2>1, <3>1, <3>6 DEF CheckRecord, TypeOK
    <3> QED BY <3>1, <3>3, <3>4, <3>5, <3>6 DEF RequestStep, TokenOnly
  <2>8. ASSUME NEW a \in Key, AdminStep(a) PROVE pc' = pc /\ doc' = doc
    BY <2>8 DEF AdminStep, Create, RotateSet, BootCount, BootInsert, RotateFind, Revoke, Requests
  <2>9. CASE Tick \/ UNCHANGED vars
    BY <2>1, <2>9 DEF Tick, vars, Requests
  <2> QED BY <2>1, <2>3, <2>4, <2>5, <2>6, <2>7, <2>8, <2>9 DEF Next, RequestStep, AdminStep
<1>3. ASSUME NEW a \in Key
      PROVE  /\ apc'[a] = "rotate" => a \in Admin /\ aim'[a] \in Existing'
             /\ apc'[a] = "insert" => a \in Boot
  <2>1. CASE apc'[a] = apc[a] /\ aim'[a] = aim[a]
    BY <1>1, <2>1 DEF Remembered
  <2>2. ASSUME NEW b \in Key, AdminStep(b) PROVE <1>3!2
    <3>1. CASE b # a
      <4>1. apc'[a] = apc[a] /\ aim'[a] = aim[a]
        BY <2>2, <3>1 DEF TypeOK, AdminStep, Create, RotateSet, BootCount, BootInsert, RotateFind,
           Revoke, AGoto
      <4> QED BY <2>1, <4>1
    <3>2. CASE b = a /\ \E k \in Key : RotateFind(a, k)
      BY <1>1, <3>2 DEF TypeOK, RotateFind, AGoto
    <3>3. CASE b = a /\ (Create(a) \/ RotateSet(a) \/ BootCount(a) \/ BootInsert(a)
                          \/ \E k \in Key : Revoke(a, k))
      BY <3>3 DEF TypeOK, Create, RotateSet, BootCount, BootInsert, Revoke, AGoto
    <3> QED BY <2>2, <3>1, <3>2, <3>3 DEF AdminStep
  <2>3. ASSUME NEW r \in Req, RequestStep(r) \/ Touch(r) PROVE apc' = apc /\ aim' = aim
    BY <2>3, RequestLeavesKeys DEF Touch, Admins
  <2>4. CASE Tick \/ UNCHANGED vars
    BY <2>1, <2>4 DEF Tick, vars, Admins
  <2> QED BY <2>1, <2>2, <2>3, <2>4 DEF Next, RequestStep, AdminStep
<1> QED BY <1>2, <1>3 DEF Remembered

(* A step of request r, or another step, that leaves r as it is.           *)
LEMMA OthersStay ==
  ASSUME IInv, NEW r \in Req, NEW q \in Req, q # r, RequestStep(q) \/ Touch(q)
  PROVE  /\ pc'[r] = pc[r] /\ resp'[r] = resp[r] /\ dead'[r] = dead[r]
         /\ cred'[r] = cred[r] /\ doc'[r] = doc[r]
<1> USE DEF IInv
<1> DEFINE Same == /\ pc'[r] = pc[r] /\ resp'[r] = resp[r]
                   /\ cred'[r] = cred[r] /\ doc'[r] = doc[r]
<1>1. dead'[r] = dead[r]
  <2>1. CASE Begin(q)
    BY <2>1 DEF Begin, TypeOK
  <2>2. CASE TokenOnly(q) \/ Find(q)
    BY <2>2 DEF TokenOnly, Find
  <2>3. CASE CheckRecord(q)
    BY <2>3 DEF CheckRecord
  <2>4. CASE Raise(q) \/ Touch(q)
    BY <2>4 DEF Raise, Touch
  <2> QED BY <2>1, <2>2, <2>3, <2>4 DEF RequestStep
<1>2. ASSUME \E a : Answer(q, a) PROVE Same
  BY <1>2 DEF Answer, TypeOK
<1>3. CASE Bearer(q) \/ Touch(q) \/ Raise(q) \/ Hit(q, doc[q].key, "key")
  BY <1>1, <1>2, <1>3, BearerAnswers, HitAnswers DEF Touch, Raise
<1>4. CASE Begin(q)
  BY <1>1, <1>4 DEF Begin, TypeOK
<1>5. CASE Find(q) /\ ~Bearer(q)
  BY <1>1, <1>5 DEF Find, TypeOK
<1>6. CASE CheckRecord(q) /\ ~Bearer(q) /\ ~Hit(q, doc[q].key, "key")
  BY <1>1, <1>6 DEF CheckRecord, TypeOK
<1> QED BY <1>3, <1>4, <1>5, <1>6 DEF RequestStep, TokenOnly

LEMMA BarredKept ==
  ASSUME IInv, [Next]_vars
  PROVE  Barred'
<1> USE DEF IInv
<1>1. retired \subseteq retired' /\ now <= now' /\ now \in Nat /\ now' \in Nat
  <2>1. retired \subseteq retired'
    BY StepAge DEF KeysAge
  <2>2. now' = now \/ now' = now + 1
    BY RequestLeavesKeys
       DEF Next, RequestStep, Touch, Tick, vars, Create, RotateSet, BootCount, BootInsert,
           RotateFind, Revoke
  <2> QED BY <2>1, <2>2 DEF TypeOK
<1> SUFFICES ASSUME NEW r \in Req
             PROVE  /\ pc'[r] = "idle" => resp'[r] = "none"
                    /\ dead'[r] =>
                         /\ pc'[r] = "find" => cred'[r].secret \in retired' \ {Configured}
                         /\ pc'[r] = "check" => doc'[r].rec.expires <= now'
                         /\ pc'[r] # "touch" /\ resp'[r] # "key"
  BY DEF Barred
<1> DEFINE Good == /\ pc'[r] = "idle" => resp'[r] = "none"
                   /\ dead'[r] =>
                        /\ pc'[r] = "find" => cred'[r].secret \in retired' \ {Configured}
                        /\ pc'[r] = "check" => doc'[r].rec.expires <= now'
                        /\ pc'[r] # "touch" /\ resp'[r] # "key"
<1>2. ASSUME pc'[r] = pc[r], resp'[r] = resp[r], dead'[r] = dead[r],
             cred'[r] = cred[r], doc'[r] = doc[r]
      PROVE  Good
  <2>1. pc[r] = "check" => doc[r].rec.expires \in Nat
    BY DEF Remembered, Record
  <2> QED BY <1>1, <1>2, <2>1 DEF Barred
<1>3. ASSUME NEW a, a \in {"unauthorized", "limited", "token", "error"}, Answer(r, a)
      PROVE  Good
  BY <1>3 DEF Answer, TypeOK
<1>4. CASE Begin(r)
  <2>1. pc[r] = "idle" /\ resp[r] = "none" /\ resp' = resp
    BY <1>4 DEF Begin, Barred
  <2>2. PICK s \in {keys[k].secret : k \in Existing} \cup retired \cup {None},
             t \in Token \cup {None} :
          /\ cred' = [cred EXCEPT ![r] = [secret |-> s, token |-> t]]
          /\ dead' = [dead EXCEPT ![r] = s \in retired \ {Configured}]
          /\ pc' = [pc EXCEPT ![r] = IF s # None /\ "api_key" \in Modes THEN "find" ELSE "token"]
    BY <1>4 DEF Begin
  <2>3. cred'[r].secret = s /\ dead'[r] = (s \in retired \ {Configured}) /\ pc'[r] \in {"find", "token"}
    BY <2>2 DEF TypeOK
  <2> QED BY <1>1, <2>1, <2>3
<1>5. CASE TokenOnly(r) \/ Raise(r)
  BY <1>3, <1>5, BearerAnswers DEF TokenOnly, Raise
<1>6. CASE Find(r)
  <2>1. CASE Bearer(r)
    BY <1>3, <2>1, BearerAnswers
  <2>2. CASE ~Bearer(r)
    <3>1. /\ pc[r] = "find" /\ pc' = [pc EXCEPT ![r] = "check"]
          /\ resp' = resp /\ dead' = dead /\ now' = now
      BY <1>6, <2>2 DEF Find
    <3>2. PICK k \in Matches(cred[r].secret) : doc' = [doc EXCEPT ![r] = [key |-> k, rec |-> keys[k]]]
      BY <1>6, <2>2 DEF Find
    <3>3. k \in Existing /\ keys[k] \in Record /\ keys[k].secret = cred[r].secret /\ keys[k].active
      BY DEF Matches, TypeOK, Existing
    <3>4. doc'[r].rec = keys[k]
      BY <3>2 DEF TypeOK
    <3>5. dead[r] => cred[r].secret \in retired \ {Configured}
      BY <3>1 DEF Barred
    <3>6. dead[r] => ~Works(cred[r].secret)
      BY <3>5 DEF Gone
    <3>7. dead[r] => ~(now < keys[k].expires)
      BY <3>3, <3>6 DEF Works
    <3>8. keys[k].expires \in Nat
      BY <3>3 DEF Record
    <3>9. dead'[r] => doc'[r].rec.expires <= now'
      BY <1>1, <3>1, <3>4, <3>7, <3>8
    <3>10. pc'[r] = "check" /\ (dead'[r] => resp'[r] # "key")
      BY <3>1 DEF TypeOK, Barred
    <3> QED BY <3>9, <3>10
  <2> QED BY <2>1, <2>2
<1>7. CASE CheckRecord(r)
  <2>1. CASE Bearer(r)
    BY <1>3, <2>1, BearerAnswers
  <2>2. CASE ~Bearer(r)
    <3>1. ~(doc[r].rec.expires <= now) /\ pc[r] = "check" /\ dead' = dead
      <4>1. doc[r].rec.expires \in Nat
        BY <1>7 DEF CheckRecord, Remembered, Record
      <4> QED BY <1>1, <1>7, <2>2, <4>1 DEF CheckRecord
    <3>2. ~dead[r]
      BY <3>1 DEF Barred
    <3>3. pc'[r] # "idle"
      BY <1>7, <2>2, HitAnswers DEF CheckRecord, Answer, TypeOK
    <3> QED BY <3>1, <3>2, <3>3
  <2> QED BY <2>1, <2>2
<1>8. CASE Touch(r)
  <2>1. pc[r] = "touch" /\ dead' = dead /\ pc'[r] # "idle"
    BY <1>8, HitAnswers DEF Touch, Answer, TypeOK
  <2> QED BY <2>1 DEF Barred
<1>9. ASSUME NEW q \in Req, q # r, RequestStep(q) \/ Touch(q) PROVE Good
  BY <1>2, <1>9, OthersStay
<1>10. ASSUME NEW a \in Key, AdminStep(a) PROVE Good
  <2>1. UNCHANGED <<pc, resp, dead, cred, doc>>
    BY <1>10 DEF AdminStep, Create, RotateSet, BootCount, BootInsert, RotateFind, Revoke, Requests
  <2> QED BY <1>2, <2>1
<1>11. CASE Tick \/ UNCHANGED vars
  BY <1>2, <1>11 DEF Tick, vars, Requests
<1> QED BY <1>4, <1>5, <1>6, <1>7, <1>8, <1>9, <1>10, <1>11 DEF Next, RequestStep, AdminStep

LEMMA TypeKept ==
  ASSUME IInv, [Next]_vars
  PROVE  TypeOK'
<1>1. ASSUME NEW r \in Req, RequestStep(r) PROVE TypeOK'
  BY <1>1, RequestType DEF IInv, RequestStep
<1>2. ASSUME NEW r \in Req, Touch(r) PROVE TypeOK'
  BY <1>2, TouchType DEF IInv
<1>3. ASSUME NEW a \in Key, AdminStep(a) PROVE TypeOK'
  BY <1>3, AdminType DEF IInv
<1>4. CASE Tick
  BY <1>4, TickType DEF IInv
<1>5. CASE UNCHANGED vars
  BY <1>5 DEF IInv, TypeOK, vars
<1> QED BY <1>1, <1>2, <1>3, <1>4, <1>5 DEF Next, RequestStep, AdminStep

LEMMA StepIInv == IInv /\ [Next]_vars => IInv'
BY TypeKept, FreshKept, StepAge, GoneKept, RememberedKept, BarredKept DEF IInv

THEOREM Invariance == Spec => []IInv
BY InitIInv, StepIInv, PTL DEF Spec

(* The variables have the values the code gives them: authenticate, the    *)
(* key operations of security.py and the admin endpoints keep their types. *)
THEOREM TypeCorrect == Spec => []TypeOK
BY Invariance, PTL DEF IInv

(* What rotate_api_key promises ("the old secret stops working"), and      *)
(* revocation and expiry with it, holds under any interleaving of key      *)
(* operations: a secret that has stopped working never works again, and a  *)
(* revoked key stays revoked.                                              *)
THEOREM RetiredStaysRetiredHolds == Spec => RetiredStaysRetired
<1> DEFINE A == /\ \A s \in retired \ {Configured} : ~Works(s)'
                /\ \A k \in Existing : ~keys[k].active => ~keys'[k].active
<1>1. IInv /\ [Next]_vars => [A]_vars
  <2> SUFFICES ASSUME IInv, [Next]_vars PROVE A
    OBVIOUS
  <2>1. KeysAge /\ Gone'
    BY StepAge, GoneKept
  <2>2. retired \subseteq retired'
    BY <2>1 DEF KeysAge
  <2> QED BY <2>1, <2>2 DEF KeysAge, Gone
<1> QED BY <1>1, Invariance, PTL DEF Spec, RetiredStaysRetired

(* authenticate admits nobody by a secret that had stopped working before  *)
(* the request was sent.                                                   *)
THEOREM OnlyLiveSecretsHolds == Spec => []OnlyLiveSecrets
<1>1. IInv => OnlyLiveSecrets
  BY DEF IInv, Barred, OnlyLiveSecrets
<1> QED BY <1>1, Invariance, PTL
-----------------------------------------------------------------------------
(* The limiter.  What it promises is about stretches of time and about the *)
(* hit before; what it knows is one count since one moment.  They meet in  *)
(* how the hits of a principal fall into windows, each a run of hits that  *)
(* ends at the same time.                                                  *)
HitRecord == [at : Nat, ok : BOOLEAN, retryAfter : 1..Window]

Ends(hit) == hit.at + hit.retryAfter

(* Windows do not overlap, each begins with a hit at its very start, the   *)
(* first hit of one is admitted, and none is that Limit others precede.    *)
Begins(h, f) ==
  /\ h[f].at + Window = Ends(h[f])
  /\ \A j \in DOMAIN h : Ends(h[j]) = Ends(h[f]) => f <= j

Windows(h) ==
  /\ h \in Seq(HitRecord)
  /\ \A i, j \in DOMAIN h : i < j =>
       Ends(h[i]) = Ends(h[j]) \/ Ends(h[i]) + Window <= Ends(h[j])
  /\ \A i, j \in DOMAIN h :
       i < j /\ Ends(h[i]) = Ends(h[j]) /\ h[j].ok => j < i + Limit
  /\ \A i \in DOMAIN h : \E f \in DOMAIN h : Ends(h[f]) = Ends(h[i]) /\ Begins(h, f)
  /\ \A i \in DOMAIN h : i > 1 /\ Ends(h[i - 1]) # Ends(h[i]) => h[i].ok

(* A bucket is about the last window, and without one there is no window.  *)
Current(b, h) ==
  /\ b \in [start : Nat, count : Nat \ {0}] /\ b.count <= Len(h)
  /\ b.start + Window = Ends(h[Len(h)])
  /\ \A i \in DOMAIN h : Ends(h[i]) = Ends(h[Len(h)]) <=> Len(h) < i + b.count

Past(h, time) == \A i \in DOMAIN h : Ends(h[i]) <= time

Metered ==
  /\ DOMAIN buckets \subseteq Principal
  /\ hits \in [Principal -> Seq(HitRecord)]
  /\ \A p \in Principal :
       /\ Windows(hits[p])
       /\ p \in DOMAIN buckets => Current(buckets[p], hits[p]) /\ buckets[p].start <= now
       /\ p \notin DOMAIN buckets => Past(hits[p], now)

LEMMA EndsType ==
  ASSUME NEW h \in Seq(HitRecord), NEW i \in 1..Len(h)
  PROVE  /\ h[i] \in HitRecord /\ Ends(h[i]) \in Nat
         /\ h[i].at \in Nat /\ h[i].ok \in BOOLEAN
         /\ h[i].at < Ends(h[i]) /\ Ends(h[i]) <= h[i].at + Window
<1>1. h[i] \in HitRecord
  OBVIOUS
<1>2. h[i].at \in Nat /\ h[i].ok \in BOOLEAN /\ h[i].retryAfter \in 1..Window
  BY <1>1 DEF HitRecord
<1> QED BY <1>1, <1>2, LimiterAssumption DEF Ends

(* One more hit, in the window that is open or in a new one.               *)
LEMMA SameWindow ==
  ASSUME NEW h, NEW b, NEW at \in Nat, Windows(h), Current(b, h),
         b.start <= at, at < b.start + Window,
         NEW hit, hit = [at |-> at, ok |-> b.count + 1 <= Limit,
                         retryAfter |-> Window - (at - b.start)],
         NEW g, g = Append(h, hit)
  PROVE  Windows(g) /\ Current([b EXCEPT !.count = @ + 1], g)
<1> DEFINE n == Len(h)
<1>1. Limit \in Nat /\ Window \in Nat /\ Window > 0 /\ Limit > 0
  BY LimiterAssumption
<1>2. hit \in HitRecord /\ Ends(hit) = b.start + Window /\ (hit.ok <=> b.count + 1 <= Limit)
  <2>1. b.start \in Nat /\ Window - (at - b.start) \in 1..Window
    BY <1>1 DEF Current
  <2>2. /\ hit.at = at /\ hit.retryAfter = Window - (at - b.start)
        /\ (hit.ok <=> b.count + 1 <= Limit)
    OBVIOUS
  <2>3. hit \in HitRecord
    BY <2>1 DEF HitRecord
  <2> QED BY <1>1, <2>1, <2>2, <2>3 DEF Ends
<1>3. /\ h \in Seq(HitRecord) /\ n \in Nat /\ n > 0 /\ DOMAIN h = 1..n
      /\ b.count \in Nat /\ b.count > 0 /\ b.count <= n
  <2>1. h \in Seq(HitRecord)
    BY DEF Windows
  <2>2. b.count \in Nat \ {0} /\ b.count <= n
    BY DEF Current
  <2> QED BY <2>1, <2>2
<1>4. /\ g \in Seq(HitRecord) /\ Len(g) = n + 1 /\ DOMAIN g = 1..(n + 1)
      /\ g[n + 1] = hit /\ \A i \in 1..n : g[i] = h[i]
  BY <1>2, <1>3
<1>5. Ends(g[n + 1]) = Ends(h[n])
  BY <1>2, <1>4 DEF Current
<1>6. \A i \in 1..n : h[i] \in HitRecord /\ Ends(h[i]) \in Nat
  BY <1>3, EndsType
<1>7. ASSUME NEW i \in DOMAIN g, NEW j \in DOMAIN g, i < j
      PROVE  /\ Ends(g[i]) = Ends(g[j]) \/ Ends(g[i]) + Window <= Ends(g[j])
             /\ Ends(g[i]) = Ends(g[j]) /\ g[j].ok => j < i + Limit
  <2>1. CASE j <= n
    <3>1. i \in DOMAIN h /\ j \in DOMAIN h /\ g[i] = h[i] /\ g[j] = h[j]
      BY <1>3, <1>4, <1>7, <2>1
    <3> QED BY <1>7, <3>1 DEF Windows
  <2>2. CASE j = n + 1
    <3>1. i \in DOMAIN h /\ g[i] = h[i] /\ n \in DOMAIN h /\ (i < n \/ i = n)
      BY <1>3, <1>4, <1>7, <2>2
    <3>2. Ends(g[i]) = Ends(g[j]) \/ Ends(g[i]) + Window <= Ends(g[j])
      BY <1>5, <2>2, <3>1 DEF Windows
    <3>3. ASSUME Ends(g[i]) = Ends(g[j]), g[j].ok PROVE j < i + Limit
      <4>1. n < i + b.count
        BY <1>5, <2>2, <3>1, <3>3 DEF Current
      <4>2. b.count + 1 <= Limit
        BY <1>2, <1>4, <2>2, <3>3
      <4> QED BY <1>1, <1>3, <1>4, <2>2, <4>1, <4>2
    <3> QED BY <3>2, <3>3
  <2> QED BY <1>3, <1>4, <2>1, <2>2
<1>8. ASSUME NEW i \in DOMAIN g
      PROVE  \E f \in DOMAIN g : Ends(g[f]) = Ends(g[i]) /\ Begins(g, f)
  <2>1. PICK k \in DOMAIN h : Ends(h[k]) = Ends(g[i])
    BY <1>3, <1>4, <1>5
  <2>2. PICK f \in DOMAIN h : Ends(h[f]) = Ends(h[k]) /\ Begins(h, f)
    BY DEF Windows
  <2>3. f \in DOMAIN g /\ g[f] = h[f]
    BY <1>3, <1>4
  <2>4. ASSUME NEW j \in DOMAIN g, Ends(g[j]) = Ends(g[f]) PROVE f <= j
    BY <1>3, <1>4, <2>2, <2>3, <2>4 DEF Begins
  <2> QED BY <2>1, <2>2, <2>3, <2>4 DEF Begins
<1>9. ASSUME NEW i \in DOMAIN g, i > 1, Ends(g[i - 1]) # Ends(g[i])
      PROVE  g[i].ok
  <2>1. i \in DOMAIN h /\ i - 1 \in DOMAIN h /\ g[i] = h[i] /\ g[i - 1] = h[i - 1]
    BY <1>3, <1>4, <1>5, <1>9
  <2> QED BY <1>9, <2>1 DEF Windows
<1>10. Windows(g)
  <2>1. \A i, j \in DOMAIN g : i < j =>
          Ends(g[i]) = Ends(g[j]) \/ Ends(g[i]) + Window <= Ends(g[j])
    BY <1>7
  <2>2. \A i, j \in DOMAIN g :
          i < j /\ Ends(g[i]) = Ends(g[j]) /\ g[j].ok => j < i + Limit
    BY <1>7
  <2> QED BY <1>4, <1>8, <1>9, <2>1, <2>2 DEF Windows
<1>11. Current([b EXCEPT !.count = @ + 1], g)
  <2> DEFINE c == [b EXCEPT !.count = @ + 1]
  <2>1. /\ c \in [start : Nat, count : Nat \ {0}] /\ c.start = b.start /\ c.count = b.count + 1
    BY <1>3 DEF Current
  <2>2. c.count <= Len(g) /\ c.start + Window = Ends(g[Len(g)])
    BY <1>2, <1>3, <1>4, <2>1
  <2>3. ASSUME NEW i \in DOMAIN g
        PROVE  Ends(g[i]) = Ends(g[Len(g)]) <=> Len(g) < i + c.count
    <3>1. CASE i \in DOMAIN h
      <4>1. Ends(h[i]) = Ends(h[n]) <=> n < i + b.count
        BY <3>1 DEF Current
      <4> QED BY <1>3, <1>4, <1>5, <2>1, <3>1, <4>1
    <3>2. CASE i = n + 1
      BY <1>3, <1>4, <2>1, <3>2
    <3> QED BY <1>3, <1>4, <3>1, <3>2
  <2> QED BY <2>1, <2>2, <2>3 DEF Current
<1> QED BY <1>10, <1>11

LEMMA NewWindow ==
  ASSUME NEW h, NEW at \in Nat, Windows(h), \A i \in DOMAIN h : Ends(h[i]) <= at,
         NEW hit, hit = [at |-> at, ok |-> TRUE, retryAfter |-> Window],
         NEW g, g = Append(h, hit)
  PROVE  Windows(g) /\ Current([start |-> at, count |-> 1], g)
<1> DEFINE n == Len(h)
<1>1. Limit \in Nat /\ Window \in Nat /\ Window > 0 /\ Limit > 0
  BY LimiterAssumption
<1>2. hit \in HitRecord /\ Ends(hit) = at + Window /\ hit.ok /\ hit.at = at
  BY <1>1 DEF HitRecord, Ends
<1>3. h \in Seq(HitRecord) /\ n \in Nat /\ DOMAIN h = 1..n
  BY DEF Windows
<1>4. /\ g \in Seq(HitRecord) /\ Len(g) = n + 1 /\ DOMAIN g = 1..(n + 1)
      /\ g[n + 1] = hit /\ \A i \in 1..n : g[i] = h[i]
  BY <1>2, <1>3
<1>5. \A i \in 1..n : Ends(g[i]) \in Nat /\ Ends(g[i]) + Window <= Ends(g[n + 1])
  BY <1>1, <1>2, <1>3, <1>4, EndsType
<1>6. \A i \in 1..n : Ends(g[i]) # Ends(g[n + 1])
  BY <1>1, <1>2, <1>4, <1>5
<1>7. ASSUME NEW i \in DOMAIN g, NEW j \in DOMAIN g, i < j
      PROVE  /\ Ends(g[i]) = Ends(g[j]) \/ Ends(g[i]) + Window <= Ends(g[j])
             /\ Ends(g[i]) = Ends(g[j]) /\ g[j].ok => j < i + Limit
  <2>1. CASE j <= n
    <3>1. i \in DOMAIN h /\ j \in DOMAIN h /\ g[i] = h[i] /\ g[j] = h[j]
      BY <1>3, <1>4, <1>7, <2>1
    <3> QED BY <1>7, <3>1 DEF Windows
  <2>2. CASE j = n + 1
    <3>1. i \in 1..n
      BY <1>3, <1>4, <1>7, <2>2
    <3> QED BY <1>5, <1>6, <2>2, <3>1
  <2> QED BY <1>3, <1>4, <2>1, <2>2
<1>8. ASSUME NEW i \in DOMAIN g
      PROVE  \E f \in DOMAIN g : Ends(g[f]) = Ends(g[i]) /\ Begins(g, f)
  <2>0. i \in DOMAIN h \/ i = n + 1
    BY <1>3, <1>4
  <2>1. CASE i \in DOMAIN h
    <3>1. PICK f \in DOMAIN h : Ends(h[f]) = Ends(h[i]) /\ Begins(h, f)
      BY <2>1 DEF Windows
    <3>2. f \in DOMAIN g /\ g[f] = h[f] /\ g[i] = h[i]
      BY <1>3, <1>4, <2>1
    <3>3. ASSUME NEW j \in DOMAIN g, Ends(g[j]) = Ends(g[f]) PROVE f <= j
      BY <1>3, <1>4, <3>1, <3>2, <3>3 DEF Begins
    <3> QED BY <3>1, <3>2, <3>3 DEF Begins
  <2>2. CASE i = n + 1
    <3>1. g[i].at + Window = Ends(g[i])
      BY <1>2, <1>4, <2>2
    <3>2. ASSUME NEW j \in DOMAIN g, Ends(g[j]) = Ends(g[i]) PROVE i <= j
      <4>1. j \notin 1..n
        BY <1>6, <2>2, <3>2
      <4> QED BY <1>3, <1>4, <2>2, <4>1
    <3> QED BY <3>1, <3>2 DEF Begins
  <2> QED BY <2>0, <2>1, <2>2
<1>9. ASSUME NEW i \in DOMAIN g, i > 1, Ends(g[i - 1]) # Ends(g[i])
      PROVE  g[i].ok
  <2>1. CASE i \in DOMAIN h
    <3>1. i - 1 \in DOMAIN h /\ g[i] = h[i] /\ g[i - 1] = h[i - 1]
      BY <1>3, <1>4, <1>9, <2>1
    <3> QED BY <1>9, <2>1, <3>1 DEF Windows
  <2>2. CASE i = n + 1
    BY <1>2, <1>4, <2>2
  <2> QED BY <1>3, <1>4, <2>1, <2>2
<1>10. Windows(g)
  <2>1. \A i, j \in DOMAIN g : i < j =>
          Ends(g[i]) = Ends(g[j]) \/ Ends(g[i]) + Window <= Ends(g[j])
    BY <1>7
  <2>2. \A i, j \in DOMAIN g :
          i < j /\ Ends(g[i]) = Ends(g[j]) /\ g[j].ok => j < i + Limit
    BY <1>7
  <2> QED BY <1>4, <1>8, <1>9, <2>1, <2>2 DEF Windows
<1>11. Current([start |-> at, count |-> 1], g)
  <2>1. Len(g) \in Nat /\ 1 <= Len(g)
    BY <1>3, <1>4
  <2>2. at + Window = Ends(g[Len(g)])
    BY <1>2, <1>4
  <2>3. \A i \in DOMAIN g : Ends(g[i]) = Ends(g[Len(g)]) <=> Len(g) < i + 1
    <3> SUFFICES ASSUME NEW i \in 1..(n + 1)
                 PROVE  Ends(g[i]) = Ends(g[n + 1]) <=> n + 1 < i + 1
      BY <1>4
    <3>1. CASE i = n + 1
      BY <1>3, <3>1
    <3>2. CASE i \in 1..n
      <4>1. ~(n + 1 < i + 1)
        BY <1>3, <3>2
      <4> QED BY <1>6, <3>2, <4>1
    <3> QED BY <1>3, <3>1, <3>2
  <2>4. [start |-> at, count |-> 1] \in [start : Nat, count : Nat \ {0}]
    OBVIOUS
  <2> QED BY <2>1, <2>2, <2>3, <2>4 DEF Current
<1> QED BY <1>10, <1>11

(* What the windows promise.                                               *)
LEMMA WindowsAreHonest ==
  ASSUME NEW h, Windows(h), NEW i \in DOMAIN h, i > 1,
         h[i].at >= h[i - 1].at + h[i - 1].retryAfter
  PROVE  h[i].ok
<1>1. h \in Seq(HitRecord) /\ DOMAIN h = 1..Len(h) /\ Len(h) \in Nat
  BY DEF Windows
<1>2. Ends(h[i - 1]) <= h[i].at
  BY DEF Ends
<1>3. i \in 1..Len(h) /\ i - 1 \in 1..Len(h)
  BY <1>1
<1>4. Ends(h[i]) \in Nat /\ h[i].at \in Nat /\ h[i].at < Ends(h[i]) /\ Ends(h[i - 1]) \in Nat
  BY <1>1, <1>3, EndsType
<1>5. Ends(h[i - 1]) # Ends(h[i])
  BY <1>2, <1>4
<1> QED BY <1>5 DEF Windows

(* The admitted hits of one window, from its first on.                     *)
LEMMA AdmittedInOneWindow ==
  ASSUME NEW h, Windows(h), NEW f \in DOMAIN h, Begins(h, f),
         NEW i \in DOMAIN h, h[i].ok, Ends(h[i]) = Ends(h[f])
  PROVE  i \in f..(f + (Limit - 1))
<1>1. h \in Seq(HitRecord) /\ DOMAIN h = 1..Len(h) /\ Limit \in Nat /\ Limit > 0
  BY LimiterAssumption DEF Windows
<1>2. f <= i
  BY DEF Begins
<1>3. f < i => i < f + Limit
  BY DEF Windows
<1> QED BY <1>1, <1>2, <1>3

(* Of three hits within the length of a window, two share theirs.          *)
LEMMA TwoWindows ==
  ASSUME NEW h, Windows(h), NEW from \in Nat,
         NEW i \in DOMAIN h, NEW j \in DOMAIN h, NEW k \in DOMAIN h,
         h[i].at >= from, h[k].at < from + Window,
         Ends(h[i]) < Ends(h[j]), Ends(h[j]) < Ends(h[k])
  PROVE  FALSE
<1>1. h \in Seq(HitRecord) /\ DOMAIN h = 1..Len(h) /\ Len(h) \in Nat /\ Window \in Nat
  BY LimiterAssumption DEF Windows
<1>2. /\ Ends(h[i]) \in Nat /\ Ends(h[j]) \in Nat /\ Ends(h[k]) \in Nat
      /\ h[i].at \in Nat /\ h[k].at \in Nat
      /\ h[i].at < Ends(h[i]) /\ Ends(h[k]) <= h[k].at + Window
  BY <1>1, EndsType
<1>3. ASSUME NEW a \in DOMAIN h, NEW b \in DOMAIN h, Ends(h[a]) < Ends(h[b])
      PROVE  Ends(h[a]) + Window <= Ends(h[b])
  <2>1. Ends(h[a]) \in Nat /\ Ends(h[b]) \in Nat /\ a \in Nat /\ b \in Nat
    <3>1. a \in 1..Len(h) /\ b \in 1..Len(h)
      BY <1>1
    <3>2. Ends(h[a]) \in Nat /\ Ends(h[b]) \in Nat
      BY <1>1, <3>1, EndsType
    <3> QED BY <1>1, <3>1, <3>2
  <2>2. a < b => Ends(h[a]) = Ends(h[b]) \/ Ends(h[a]) + Window <= Ends(h[b])
    BY DEF Windows
  <2>3. b < a => Ends(h[b]) = Ends(h[a]) \/ Ends(h[b]) + Window <= Ends(h[a])
    BY DEF Windows
  <2>4. a # b
    BY <1>3, <2>1
  <2> QED BY <1>1, <1>3, <2>1, <2>2, <2>3, <2>4
<1>4. Ends(h[i]) + Window <= Ends(h[j]) /\ Ends(h[j]) + Window <= Ends(h[k])
  BY <1>3
<1> QED BY <1>1, <1>2, <1>3, <1>4

(* A window that begins before a stretch, and one that follows it, give it *)
(* Limit - 1 and Limit admitted hits.                                      *)
LEMMA WindowsAreBounded ==
  ASSUME NEW h, Windows(h), NEW from \in Nat
  PROVE  Cardinality({i \in DOMAIN h : h[i].ok /\ h[i].at \in from..(from + Window - 1)})
           <= 2 * Limit - 1
<1> DEFINE S == {i \in DOMAIN h : h[i].ok /\ h[i].at \in from..(from + Window - 1)}
           OfWindow(f) == f..(f + (Limit - 1))
<1>1. /\ h \in Seq(HitRecord) /\ DOMAIN h = 1..Len(h) /\ Len(h) \in Nat
      /\ Limit \in Nat /\ Limit > 0 /\ Window \in Nat /\ Window > 0
  BY LimiterAssumption DEF Windows
<1>2. \A i \in DOMAIN h : \E f \in DOMAIN h : Ends(h[f]) = Ends(h[i]) /\ Begins(h, f)
  BY DEF Windows
<1>0. /\ S \subseteq DOMAIN h
      /\ \A i \in S : h[i].ok /\ h[i].at >= from /\ h[i].at < from + Window
  <2> SUFFICES ASSUME NEW i \in S PROVE h[i].at >= from /\ h[i].at < from + Window
    OBVIOUS
  <2>1. h[i].at \in Nat
    BY <1>1, EndsType
  <2> QED BY <1>1, <2>1
<1> SUFFICES Cardinality(S) <= 2 * Limit - 1
  OBVIOUS
<1> HIDE DEF S
<1>3. ASSUME NEW f \in DOMAIN h, Begins(h, f), \A i \in S : Ends(h[i]) = Ends(h[f])
      PROVE  Cardinality(S) <= 2 * Limit - 1
  <2>1. S \subseteq OfWindow(f)
    BY <1>0, <1>3, AdmittedInOneWindow
  <2>2. IsFiniteSet(OfWindow(f)) /\ Cardinality(OfWindow(f)) = Limit
    <3>1. f \in Int /\ f + (Limit - 1) \in Int /\ ~(f > f + (Limit - 1))
      BY <1>1
    <3>2. IsFiniteSet(OfWindow(f)) /\ Cardinality(OfWindow(f)) = (f + (Limit - 1)) - f + 1
      BY <3>1, FS_Interval
    <3> QED BY <1>1, <3>1, <3>2
  <2>3. IsFiniteSet(S) /\ Cardinality(S) <= Cardinality(OfWindow(f))
    BY <2>1, <2>2, FS_Subset
  <2>4. Cardinality(S) \in Nat
    BY <2>3, FS_CardinalityType
  <2> QED BY <1>1, <2>2, <2>3, <2>4
<1>4. ASSUME NEW a \in S, NEW b \in S, Ends(h[a]) < Ends(h[b])
      PROVE  Cardinality(S) <= 2 * Limit - 1
  <2>1. PICK f \in DOMAIN h : Ends(h[f]) = Ends(h[a]) /\ Begins(h, f)
    BY <1>0, <1>2
  <2>2. PICK g \in DOMAIN h : Ends(h[g]) = Ends(h[b]) /\ Begins(h, g)
    BY <1>0, <1>2
  <2> DEFINE A == (f + 1)..(f + (Limit - 1))
             B == OfWindow(g)
  <2>3. ASSUME NEW i \in S PROVE Ends(h[i]) = Ends(h[f]) \/ Ends(h[i]) = Ends(h[g])
    <3>1. /\ Ends(h[i]) \in Nat /\ Ends(h[a]) \in Nat /\ Ends(h[b]) \in Nat
          /\ h[i].at \in Nat /\ h[a].at \in Nat /\ h[b].at \in Nat
      BY <1>0, <1>1, EndsType
    <3>2. \A j \in S : j \in DOMAIN h /\ h[j].at >= from /\ h[j].at < from + Window
      BY <1>0
    <3>3. ~(Ends(h[i]) < Ends(h[a]))
      BY <1>4, <3>2, TwoWindows
    <3>4. ~(Ends(h[b]) < Ends(h[i]))
      BY <1>4, <3>2, TwoWindows
    <3>5. ~(Ends(h[a]) < Ends(h[i]) /\ Ends(h[i]) < Ends(h[b]))
      BY <3>2, TwoWindows
    <3> QED BY <2>1, <2>2, <3>1, <3>3, <3>4, <3>5
  <2>4. f \notin S
    <3>1. /\ Ends(h[a]) \in Nat /\ Ends(h[b]) \in Nat /\ Ends(h[b]) <= h[b].at + Window
          /\ h[b].at \in Nat /\ h[f].at \in Nat /\ a \in Nat /\ b \in Nat
      <4>1. a \in 1..Len(h) /\ b \in 1..Len(h) /\ f \in 1..Len(h)
        BY <1>0, <1>1
      <4>2. Ends(h[a]) \in Nat /\ h[f].at \in Nat
        BY <1>1, <4>1, EndsType
      <4>3. Ends(h[b]) \in Nat /\ Ends(h[b]) <= h[b].at + Window /\ h[b].at \in Nat
        BY <1>1, <4>1, EndsType
      <4> QED BY <1>1, <4>1, <4>2, <4>3
    <3>2. Ends(h[a]) + Window <= Ends(h[b])
      <4>1. a < b => Ends(h[a]) = Ends(h[b]) \/ Ends(h[a]) + Window <= Ends(h[b])
        BY <1>0 DEF Windows
      <4>2. b < a => Ends(h[b]) = Ends(h[a]) \/ Ends(h[b]) + Window <= Ends(h[a])
        BY <1>0 DEF Windows
      <4>3. a # b
        BY <1>4, <3>1
      <4> QED BY <1>1, <1>4, <3>1, <4>1, <4>2, <4>3
    <3>3. h[f].at + Window = Ends(h[a])
      BY <2>1 DEF Begins
    <3>4. h[b].at < from + Window
      BY <1>0
    <3>5. h[f].at < from
      <4>1. Ends(h[a]) + Window <= h[b].at + Window
        BY <1>1, <3>1, <3>2
      <4>2. Ends(h[a]) <= h[b].at
        BY <1>1, <3>1, <4>1
      <4>3. h[f].at + Window < from + Window
        BY <1>1, <3>1, <3>3, <3>4, <4>2
      <4> QED BY <1>1, <3>1, <4>3
    <3> QED BY <1>0, <1>1, <3>1, <3>5
  <2>5. S \subseteq A \cup B
    <3> SUFFICES ASSUME NEW i \in S PROVE i \in A \cup B
      OBVIOUS
    <3>1. CASE Ends(h[i]) = Ends(h[g])
      BY <1>0, <2>2, <3>1, AdmittedInOneWindow
    <3>2. CASE Ends(h[i]) = Ends(h[f])
      <4>1. i \in OfWindow(f)
        BY <1>0, <2>1, <3>2, AdmittedInOneWindow
      <4>2. i # f
        BY <2>4
      <4> QED BY <1>1, <4>1, <4>2
    <3> QED BY <2>3, <3>1, <3>2
  <2>6. IsFiniteSet(A) /\ Cardinality(A) = Limit - 1
    <3>1. f \in Int /\ f + 1 \in Int /\ f + (Limit - 1) \in Int
      BY <1>1
    <3>2. /\ IsFiniteSet(A)
          /\ Cardinality(A) = IF f + 1 > f + (Limit - 1) THEN 0 ELSE (f + (Limit - 1)) - (f + 1) + 1
      BY <3>1, FS_Interval
    <3> QED BY <1>1, <3>1, <3>2
  <2>7. IsFiniteSet(B) /\ Cardinality(B) = Limit
    <3>1. g \in Int /\ g + (Limit - 1) \in Int /\ ~(g > g + (Limit - 1))
      BY <1>1
    <3>2. IsFiniteSet(B) /\ Cardinality(B) = (g + (Limit - 1)) - g + 1
      BY <3>1, FS_Interval
    <3> QED BY <1>1, <3>1, <3>2
  <2>8. IsFiniteSet(A \cup B) /\ Cardinality(A \cup B) <= 2 * Limit - 1
    <3>1. /\ IsFiniteSet(A \cup B)
          /\ Cardinality(A \cup B) = Cardinality(A) + Cardinality(B) - Cardinality(A \cap B)
      BY <2>6, <2>7, FS_Union
    <3>2. Cardinality(A \cap B) \in Nat
      BY <2>6, FS_Intersection, FS_CardinalityType
    <3> QED BY <1>1, <2>6, <2>7, <3>1, <3>2
  <2>9. IsFiniteSet(S) /\ Cardinality(S) <= Cardinality(A \cup B)
    BY <2>5, <2>8, FS_Subset
  <2>10. Cardinality(S) \in Nat /\ Cardinality(A \cup B) \in Nat
    BY <2>8, <2>9, FS_CardinalityType
  <2> QED BY <1>1, <2>8, <2>9, <2>10
<1>5. CASE S = {}
  <2>1. Cardinality(S) = 0
    BY <1>5, FS_EmptySet
  <2> QED BY <1>1, <2>1
<1>6. CASE S # {}
  <2>1. PICK a \in S : TRUE
    BY <1>6
  <2>2. PICK f \in DOMAIN h : Ends(h[f]) = Ends(h[a]) /\ Begins(h, f)
    BY <1>0, <1>2, <2>1
  <2>3. CASE \A i \in S : Ends(h[i]) = Ends(h[a])
    BY <1>3, <2>2, <2>3
  <2>4. ASSUME NEW b \in S, Ends(h[b]) # Ends(h[a]) PROVE Cardinality(S) <= 2 * Limit - 1
    <3>1. Ends(h[a]) \in Nat /\ Ends(h[b]) \in Nat
      BY <1>0, <1>1, EndsType
    <3>2. Ends(h[a]) < Ends(h[b]) \/ Ends(h[b]) < Ends(h[a])
      BY <2>4, <3>1
    <3> QED BY <1>4, <3>2
  <2> QED BY <2>3, <2>4
<1> QED BY <1>5, <1>6

-----------------------------------------------------------------------------
(* What eviction spares.                                                   *)
LEMMA KeptBuckets ==
  ASSUME NEW all, NEW p, NEW at
  PROVE  /\ p \in Kept(all, p, at) /\ Kept(all, p, at) \subseteq DOMAIN all \cup {p}
         /\ \A q \in DOMAIN all : q \in Kept(all, p, at) \/ (q # p /\ Over(all[q], at))
<1> DEFINE every == DOMAIN all \cup {p}
           open == {q \in every : q = p \/ ~Over(all[q], at)}
<1>1. Kept(all, p, at) = every \/ Kept(all, p, at) = open
  BY DEF Kept
<1>2. p \in every /\ p \in open /\ open \subseteq every
  OBVIOUS
<1>3. \A q \in DOMAIN all : q \in every /\ (q \in open \/ (q # p /\ Over(all[q], at)))
  OBVIOUS
<1> HIDE DEF every, open
<1>4. p \in Kept(all, p, at) /\ Kept(all, p, at) \subseteq every
  BY <1>1, <1>2
<1>5. ASSUME NEW q \in DOMAIN all PROVE q \in Kept(all, p, at) \/ (q # p /\ Over(all[q], at))
  BY <1>1, <1>3
<1> QED BY <1>4, <1>5 DEF every

(* A bucket that is over stands for windows that all are.                  *)
LEMMA OverIsPast ==
  ASSUME NEW h, NEW b, NEW at \in Nat, Windows(h), Current(b, h), b.start <= at, Over(b, at)
  PROVE  \A i \in DOMAIN h : Ends(h[i]) <= at
<1>1. h \in Seq(HitRecord) /\ Len(h) \in Nat /\ DOMAIN h = 1..Len(h)
  BY DEF Windows
<1>2. /\ b.start \in Nat /\ b.count \in Nat \ {0} /\ b.count <= Len(h)
      /\ b.start + Window = Ends(h[Len(h)])
  BY DEF Current
<1>3. Ends(h[Len(h)]) <= at
  BY <1>2, LimiterAssumption DEF Over
<1> SUFFICES ASSUME NEW i \in DOMAIN h PROVE Ends(h[i]) <= at
  OBVIOUS
<1>4. Len(h) \in DOMAIN h /\ (i = Len(h) \/ i < Len(h))
  BY <1>1, <1>2
<1>5. Ends(h[i]) \in Nat /\ Ends(h[Len(h)]) \in Nat
  <2>1. i \in 1..Len(h) /\ Len(h) \in 1..Len(h)
    BY <1>1, <1>4
  <2> QED BY <1>1, <2>1, EndsType
<1>6. i < Len(h) => Ends(h[i]) = Ends(h[Len(h)]) \/ Ends(h[i]) + Window <= Ends(h[Len(h)])
  BY <1>4 DEF Windows
<1> QED BY <1>3, <1>4, <1>5, <1>6, LimiterAssumption

(* What the limiter does with one more hit.                                *)
LEMMA HitKeeps ==
  ASSUME TypeOK, Metered, NEW r, NEW p \in Principal, NEW by, Hit(r, p, by), now' = now
  PROVE  Metered'
<1> DEFINE b == Counted(buckets, p, now)
<1>1. now \in Nat /\ Limit \in Nat /\ Window \in Nat /\ Limit > 0 /\ Window > 0
  BY KeysAssumption, LimiterAssumption DEF TypeOK
<1>2. PICK hit : /\ hit = [at |-> now, ok |-> b.count <= Limit,
                           retryAfter |-> Window - (now - b.start)]
                 /\ hits' = [hits EXCEPT ![p] = Append(@, hit)]
  BY DEF Hit, Check
<1>3. /\ buckets' = [q \in Kept(buckets, p, now) |-> IF q = p THEN b ELSE buckets[q]]
      /\ p \in Kept(buckets, p, now)
      /\ Kept(buckets, p, now) \subseteq DOMAIN buckets \cup {p}
      /\ \A q \in DOMAIN buckets :
           q \in Kept(buckets, p, now) \/ (q # p /\ Over(buckets[q], now))
  BY KeptBuckets DEF Hit, Check
<1>4. hits'[p] = Append(hits[p], hit) /\ \A q \in Principal \ {p} : hits'[q] = hits[q]
  BY <1>2 DEF Metered
<1>5. Windows(hits'[p]) /\ Current(b, hits'[p]) /\ b.start <= now
  <2>1. CASE p \in DOMAIN buckets /\ ~Over(buckets[p], now)
    <3>1. /\ Windows(hits[p]) /\ Current(buckets[p], hits[p])
          /\ buckets[p] \in [start : Nat, count : Nat \ {0}] /\ buckets[p].start <= now
      BY <2>1 DEF Metered, Current
    <3>2. now < buckets[p].start + Window
      BY <1>1, <2>1, <3>1 DEF Over
    <3>3. b = [buckets[p] EXCEPT !.count = @ + 1]
      BY <2>1 DEF Counted
    <3>4. b.start = buckets[p].start /\ b.count = buckets[p].count + 1
      BY <3>1, <3>3
    <3>5. hit = [at |-> now, ok |-> buckets[p].count + 1 <= Limit,
                 retryAfter |-> Window - (now - buckets[p].start)]
      BY <1>2, <3>4
    <3>6. /\ Windows(hits'[p])
          /\ Current([buckets[p] EXCEPT !.count = @ + 1], hits'[p])
      BY <1>1, <1>4, <3>1, <3>2, <3>5, SameWindow
    <3> QED BY <3>1, <3>3, <3>4, <3>6
  <2>2. CASE ~(p \in DOMAIN buckets /\ ~Over(buckets[p], now))
    <3>1. b = [start |-> now, count |-> 1]
      BY <2>2 DEF Counted
    <3>2. Windows(hits[p]) /\ \A i \in DOMAIN hits[p] : Ends(hits[p][i]) <= now
      <4>1. Windows(hits[p])
        BY DEF Metered
      <4>2. CASE p \notin DOMAIN buckets
        BY <4>1, <4>2 DEF Metered, Past
      <4>3. CASE p \in DOMAIN buckets
        BY <1>1, <2>2, <4>1, <4>3, OverIsPast DEF Metered
      <4> QED BY <4>1, <4>2, <4>3
    <3>3. hit = [at |-> now, ok |-> TRUE, retryAfter |-> Window]
      <4>1. (b.count <= Limit) = TRUE /\ Window - (now - b.start) = Window
        BY <1>1, <3>1
      <4> QED BY <1>2, <4>1
    <3>4. Windows(hits'[p]) /\ Current([start |-> now, count |-> 1], hits'[p])
      BY <1>1, <1>4, <3>2, <3>3, NewWindow
    <3> QED BY <1>1, <3>1, <3>4
  <2> QED BY <2>1, <2>2
<1>6. DOMAIN buckets' \subseteq Principal
  BY <1>3 DEF Metered
<1>7. hits' \in [Principal -> Seq(HitRecord)]
  BY <1>2, <1>4, <1>5 DEF Metered, Windows
<1>8. ASSUME NEW q \in Principal
      PROVE  /\ Windows(hits'[q])
             /\ q \in DOMAIN buckets' => Current(buckets'[q], hits'[q]) /\ buckets'[q].start <= now'
             /\ q \notin DOMAIN buckets' => Past(hits'[q], now')
  <2>1. CASE q = p
    <3>1. q \in DOMAIN buckets' /\ buckets'[q] = b
      BY <1>3, <2>1
    <3> QED BY <1>5, <2>1, <3>1
  <2>2. CASE q # p
    <3>1. hits'[q] = hits[q] /\ Windows(hits[q])
      BY <1>4, <2>2 DEF Metered
    <3>2. CASE q \in DOMAIN buckets'
      <4>1. q \in DOMAIN buckets /\ buckets'[q] = buckets[q]
        BY <1>3, <2>2, <3>2
      <4> QED BY <3>1, <3>2, <4>1 DEF Metered
    <3>3. CASE q \notin DOMAIN buckets'
      <4>1. q \in DOMAIN buckets => Over(buckets[q], now)
        BY <1>3, <3>3
      <4>2. \A i \in DOMAIN hits[q] : Ends(hits[q][i]) <= now
        <5>1. CASE q \in DOMAIN buckets
          BY <1>1, <3>1, <4>1, <5>1, OverIsPast DEF Metered
        <5>2. CASE q \notin DOMAIN buckets
          BY <5>2 DEF Metered, Past
        <5> QED BY <5>1, <5>2
      <4> QED BY <3>1, <3>3, <4>2 DEF Past
    <3> QED BY <3>2, <3>3
  <2> QED BY <2>1, <2>2
<1> QED BY <1>6, <1>7, <1>8 DEF Metered

LEMMA BearerHits ==
  ASSUME TypeOK, Metered, NEW r \in Req, Bearer(r), now' = now
  PROVE  Metered'
<1>1. CASE Proves(cred[r].token) /\ Hit(r, cred[r].token, "token")
  <2>1. cred[r].token \in Principal
    BY <1>1 DEF TypeOK, Proves, Principal
  <2> QED BY <1>1, <2>1, HitKeeps
<1>2. CASE UNCHANGED Limiter
  BY <1>2 DEF Metered, Limiter
<1> QED BY <1>1, <1>2 DEF Bearer

LEMMA MeteredKept ==
  ASSUME IInv, Metered, [Next]_vars
  PROVE  Metered'
<1>1. TypeOK /\ Remembered /\ now \in Nat
  BY KeysAssumption DEF IInv, TypeOK
<1>2. ASSUME UNCHANGED <<buckets, hits, now>> PROVE Metered'
  BY <1>2 DEF Metered
<1>3. ASSUME NEW r \in Req, pc[r] \in {"check", "touch"} PROVE doc[r].key \in Principal
  BY <1>1, <1>3 DEF Remembered, Principal
<1>4. ASSUME NEW r \in Req, Begin(r) \/ Raise(r) PROVE Metered'
  BY <1>2, <1>4 DEF Begin, Raise, Limiter
<1>5. ASSUME NEW r \in Req, TokenOnly(r) PROVE Metered'
  BY <1>1, <1>5, BearerHits DEF TokenOnly
<1>6. ASSUME NEW r \in Req, Find(r) PROVE Metered'
  BY <1>1, <1>2, <1>6, BearerHits DEF Find, Limiter
<1>7. ASSUME NEW r \in Req, CheckRecord(r) PROVE Metered'
  BY <1>1, <1>2, <1>3, <1>7, BearerHits, HitKeeps DEF CheckRecord, Limiter
<1>8. ASSUME NEW r \in Req, Touch(r) PROVE Metered'
  BY <1>1, <1>3, <1>8, HitKeeps DEF Touch
<1>9. ASSUME NEW a \in Key, AdminStep(a) PROVE Metered'
  BY <1>2, <1>9
     DEF AdminStep, Create, RotateSet, BootCount, BootInsert, RotateFind, Revoke, Limiter
<1>10. CASE Tick
  <2>1. UNCHANGED <<buckets, hits>> /\ now' = now + 1
    BY <1>10 DEF Tick, Limiter
  <2>2. ASSUME NEW p \in Principal, p \in DOMAIN buckets PROVE buckets[p].start <= now'
    BY <1>1, <2>1, <2>2 DEF Metered, Current
  <2>3. ASSUME NEW p \in Principal, p \notin DOMAIN buckets PROVE Past(hits[p], now')
    <3>1. hits[p] \in Seq(HitRecord) /\ Past(hits[p], now)
      BY <2>3 DEF Metered
    <3>2. \A i \in DOMAIN hits[p] : Ends(hits[p][i]) \in Nat
      <4>1. DOMAIN hits[p] = 1..Len(hits[p])
        BY <3>1
      <4> QED BY <3>1, <4>1, EndsType
    <3> QED BY <1>1, <2>1, <3>1, <3>2 DEF Past
  <2> QED BY <2>1, <2>2, <2>3 DEF Metered
<1>11. CASE UNCHANGED vars
  BY <1>2, <1>11 DEF vars
<1> QED BY <1>4, <1>5, <1>6, <1>7, <1>8, <1>9, <1>10, <1>11 DEF Next, AdminStep

LEMMA InitMetered == Init => Metered
<1> SUFFICES ASSUME Init PROVE Metered
  OBVIOUS
<1>1. /\ DOMAIN buckets = {} /\ hits \in [Principal -> Seq(HitRecord)]
      /\ \A p \in Principal : hits[p] = <<>>
  BY DEF Init, NoBuckets
<1>2. Windows(<<>>) /\ Past(<<>>, now)
  BY DEF Windows, Past
<1> QED BY <1>1, <1>2 DEF Metered

LEMMA MeteredInvariance == Spec => []Metered
BY InitMetered, MeteredKept, Invariance, PTL DEF Spec

(* FixedWindowRateLimiter.check keeps its promise to the service, with any *)
(* limit, window and number of buckets: in a stretch of one window's       *)
(* length a principal is admitted fewer than twice Limit times, though     *)
(* the counts of windows that are over are dropped and evicted.            *)
THEOREM RateBoundedHolds == Spec => []RateBounded
<1>1. Metered => RateBounded
  <2> SUFFICES ASSUME Metered, NEW p \in Principal, NEW from \in 0..MaxTime
               PROVE  Cardinality({i \in DOMAIN hits[p] :
                        hits[p][i].ok /\ hits[p][i].at \in from..(from + Window - 1)})
                          <= 2 * Limit - 1
    BY DEF RateBounded
  <2>1. Windows(hits[p]) /\ from \in Nat
    BY KeysAssumption DEF Metered
  <2> QED BY <2>1, WindowsAreBounded
<1> QED BY <1>1, MeteredInvariance, PTL

(* And its promise to the client: the Retry-After of a refusal is when the *)
(* next hit is admitted.                                                   *)
THEOREM RetryAfterIsHonestHolds == Spec => []RetryAfterIsHonest
<1>1. Metered => RetryAfterIsHonest
  BY WindowsAreHonest DEF Metered, RetryAfterIsHonest
<1> QED BY <1>1, MeteredInvariance, PTL
=============================================================================
