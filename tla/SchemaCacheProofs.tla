------------------------- MODULE SchemaCacheProofs --------------------------
(***************************************************************************)
(* Proofs about SchemaCache, for any workers, changes, CI writes and time  *)
(* to live: a CI is stamped with the version it was validated under; and   *)
(* while changes come one at a time (Serial), what a CI is validated with  *)
(* is no older than Ttl.                                                   *)
(*                                                                         *)
(* The argument: every cache and every read holds a pair of version and    *)
(* definition that was stored.  An entry of the type cache has been out of *)
(* date for no longer than the ticks it has lived, and the model that is   *)
(* used has the version of the entry, so it has its definition, too.       *)
(*                                                                         *)
(* The last part is about SchemaEvolution, one CI under a schema that      *)
(* changes, for any fields and values: what is stored is what a payload    *)
(* validated against the schema it is stamped with was converted to.       *)
(***************************************************************************)
EXTENDS SchemaCache, SchemaEvolution, TLAPS

Pair(doc) == <<doc.version, doc.def>>

(* All that is held was stored.                                            *)
HeldWasStored ==
  /\ type # None => Pair(type) \in named
  /\ \A w \in Worker : \A e \in tcache[w] : e.doc # None => Pair(e.doc) \in named
  /\ \A w \in Worker : \A m \in mcache[w] : Pair(m) \in named
  /\ \A r \in Req : read[r] # None => Pair(read[r]) \in named

(* One change at a time: the version it will write is the next one.        *)
Busy(a) == apc[a] \notin {"idle", "done"}

OneAtATime ==
  /\ \A a, b \in Admin : Busy(a) /\ Busy(b) => a = b
  /\ \A a \in Admin : apc[a] \in {"stamp", "write"} /\ act[a].kind = "update" =>
       type # None /\ act[a].version = type.version + 1
  /\ \A n \in named : type # None /\ n[1] <= type.version

(* No two definitions of one version, which is what _model_cache goes by.  *)
OneDefinition == \A m, n \in named : m[1] = n[1] => m[2] = n[2]

(* What is held is out of date for no longer than it has been held.        *)
Fresh ==
  /\ age[DefOf(Active)] = 0
  /\ \A r \in Req : pc[r] = "put" => age[DefOf(read[r])] = 0
  /\ \A w \in Worker : \A e \in tcache[w] : age[DefOf(e.doc)] + e.left <= Ttl

IInv ==
  /\ TypeOK /\ HeldWasStored /\ StampedAsValidated /\ Fresh
  /\ Serial => OneAtATime /\ OneDefinition

USE SchemaAssumption

LEMMA InitIInv == Init => IInv
BY DEF Init, IInv, TypeOK, HeldWasStored, StampedAsValidated, Fresh, OneAtATime,
       OneDefinition, Busy, Validated, Unanswered, Active, DefOf, Versions, Stamps

-----------------------------------------------------------------------------
(* What a document says, and what a CI write is validated with.            *)
LEMMA ActiveIsStored ==
  ASSUME IInv
  PROVE  /\ Active \in Type \cup {None} /\ DefOf(Active) \in Admin \cup {None}
         /\ Active # None => Active = type /\ type.active /\ Pair(Active) \in named
  BY DEF IInv, TypeOK, HeldWasStored, Active, DefOf, Type

Answers == [kind : {"none", "notfound", "validated"}, version : Nat, def : Admin \cup {None}]

(* A step of a CI write that has its document.                             *)
LEMMA GotAnswer ==
  ASSUME IInv, NEW r \in Req, NEW w \in Worker, home[r] = w,
         NEW doc \in Type \cup {None}, doc # None => Pair(doc) \in named, Got(r, doc)
  PROVE  /\ mcache' \in [Worker -> SUBSET Model]
         /\ \A u \in Worker : \A m, n \in mcache'[u] : m = n
         /\ \A u \in Worker : \A m \in mcache'[u] : Pair(m) \in named
         /\ pc' = [pc EXCEPT ![r] = "done"]
         /\ \E a : /\ resp' = [resp EXCEPT ![r] = a]
                   /\ a \in Answers
                   /\ a.kind = "validated" => <<a.version, a.def>> \in named
                   /\ Serial => a.def = DefOf(doc)
<1>1. CASE doc = None
  <2>1. mcache' = mcache /\ Answer(r, NotFound)
    BY <1>1 DEF Got
  <2>2. mcache \in [Worker -> SUBSET Model] /\ \A u \in Worker : \A m, n \in mcache[u] : m = n
    BY DEF IInv, TypeOK
  <2>3. NotFound \in Answers /\ NotFound.kind # "validated" /\ NotFound.def = DefOf(doc)
    BY <1>1 DEF NotFound, Answers, DefOf
  <2>4. resp' = [resp EXCEPT ![r] = NotFound] /\ pc' = [pc EXCEPT ![r] = "done"]
    BY <2>1 DEF Answer
  <2>5. \A u \in Worker : \A m \in mcache'[u] : Pair(m) \in named
    BY <2>1 DEF IInv, HeldWasStored
  <2> QED BY <2>1, <2>2, <2>3, <2>4, <2>5
<1>2. CASE doc # None
  <2> DEFINE hits == {m \in mcache[w] : m.version = doc.version}
             model == ModelFor(doc, hits)
  <2>1. mcache' = [mcache EXCEPT ![w] = {model}] /\ Answer(r, ValidatedBy(doc.version, model.def))
    BY <1>2 DEF Got, Compile
  <2>2. /\ mcache \in [Worker -> SUBSET Model] /\ doc \in Type /\ Pair(doc) \in named
        /\ \A u \in Worker : \A m, n \in mcache[u] : m = n
        /\ \A u \in Worker : \A m \in mcache[u] : Pair(m) \in named
    BY <1>2 DEF IInv, TypeOK, HeldWasStored
  <2>3. model \in Model /\ model.version = doc.version /\ Pair(model) \in named
    <3>1. CASE hits # {}
      <4>1. model \in hits
        BY <3>1 DEF ModelFor
      <4> QED BY <4>1, <2>2
    <3>2. CASE hits = {}
      <4>1. model = [version |-> doc.version, def |-> doc.def]
        BY <3>2 DEF ModelFor
      <4>2. doc.version \in Versions /\ doc.def \in Admin
        BY <2>2 DEF Type
      <4>3. model.version = doc.version /\ model.def = doc.def
        BY <4>1
      <4> QED BY <4>1, <4>2, <4>3, <2>2 DEF Model, Pair
    <3> QED BY <3>1, <3>2
  <2> HIDE DEF model, hits
  <2>4. Serial => model.def = doc.def
    <3> SUFFICES ASSUME Serial PROVE model.def = doc.def
      OBVIOUS
    <3>1. Pair(model)[1] = Pair(doc)[1] /\ Pair(model)[2] = model.def /\ Pair(doc)[2] = doc.def
      BY <2>3 DEF Pair
    <3> QED BY <3>1, <2>2, <2>3 DEF IInv, OneDefinition
  <2>5. <<doc.version, model.def>> \in named
    BY <2>3 DEF Pair
  <2>6. doc.version \in Nat /\ model.def \in Admin
    BY <2>2, <2>3 DEF Type, Model, Versions
  <2>7. /\ mcache' \in [Worker -> SUBSET Model]
        /\ \A u \in Worker : mcache'[u] = mcache[u] \/ mcache'[u] = {model}
    BY <2>1, <2>2, <2>3
  <2> DEFINE a == ValidatedBy(doc.version, model.def)
  <2>8. a \in Answers /\ a.version = doc.version /\ a.def = model.def
    BY <2>6 DEF Answers, ValidatedBy
  <2>9. resp' = [resp EXCEPT ![r] = a] /\ pc' = [pc EXCEPT ![r] = "done"]
    BY <2>1 DEF Answer
  <2>10. Serial => a.def = DefOf(doc)
    BY <1>2, <2>4, <2>8 DEF DefOf
  <2>11. <<a.version, a.def>> \in named
    BY <2>5, <2>8
  <2>12. \A u \in Worker : /\ \A m, n \in mcache'[u] : m = n
                           /\ \A m \in mcache'[u] : Pair(m) \in named
    BY <2>2, <2>3, <2>7
  <2> HIDE DEF a
  <2> QED BY <2>7, <2>8, <2>9, <2>10, <2>11, <2>12
<1> QED BY <1>1, <1>2

-----------------------------------------------------------------------------
(* Steps that write nothing to the database and put nothing in a cache.    *)
Preparing(a) ==
  \/ \E kind \in Kinds, w \in Worker : Change(a, kind, w)
  \/ ReadStrict(a) \/ TakeStamp(a) \/ Invalidate(a) \/ GiveUp(a)
Poll(w) == Scan(w) \/ Sweep(w)

(* The records act and the caches keep their types.                        *)
LEMMA PreparingType ==
  ASSUME IInv, NEW a \in Admin, Preparing(a)
  PROVE  /\ TypeOK' /\ UNCHANGED <<type, named, age, Writes>>
         /\ \A w \in Worker : tcache'[w] \subseteq tcache[w] /\ mcache'[w] \subseteq mcache[w]
<1> DEFINE P == {"idle", "read", "stamp", "write", "invalidate", "done"}
<1>0. /\ apc \in [Admin -> P] /\ act \in [Admin -> Request \cup {None}] /\ clock \in Nat
      /\ \A b \in Admin : apc[b] # "idle" => act[b] \in Request
  BY DEF IInv, TypeOK, Stamps
<1>1. UNCHANGED <<type, named, age, Writes, Poller>>
  BY DEF Preparing, Change, ReadStrict, TakeStamp, Invalidate, GiveUp, Db
<1>2. /\ tcache' \in [Worker -> SUBSET Entry] /\ mcache' \in [Worker -> SUBSET Model]
      /\ \A w \in Worker : tcache'[w] \subseteq tcache[w] /\ mcache'[w] \subseteq mcache[w]
  <2>1. UNCHANGED Caches \/ \E w : Drop(w)
    BY DEF Preparing, Change, ReadStrict, TakeStamp, Invalidate, GiveUp
  <2>2. tcache \in [Worker -> SUBSET Entry] /\ mcache \in [Worker -> SUBSET Model]
    BY DEF IInv, TypeOK
  <2> QED BY <2>1, <2>2 DEF Caches, Drop
<1>3. \E step \in P : apc' = [apc EXCEPT ![a] = step]
  BY DEF Preparing, Change, ReadStrict, TakeStamp, Invalidate, GiveUp, AGoto
<1>4. clock' \in Nat /\ ((act' = act /\ apc[a] # "idle") \/ \E q \in Request : act' = [act EXCEPT ![a] = q])
  <2>1. ASSUME NEW kind \in Kinds, NEW w \in Worker, Change(a, kind, w)
        PROVE  clock' \in Nat /\ \E q \in Request : act' = [act EXCEPT ![a] = q]
    <3>1. [kind |-> kind, worker |-> w, version |-> 1, stamp |-> 0] \in Request
      BY DEF Request, Versions, Stamps
    <3> QED BY <1>0, <2>1, <3>1 DEF Change, Db
  <2>2. CASE ReadStrict(a)
    <3>1. clock' = clock /\ apc[a] # "idle"
      BY <2>2 DEF ReadStrict, Db
    <3>2. CASE Active = None
      BY <1>0, <2>2, <3>1, <3>2 DEF ReadStrict
    <3>3. CASE Active # None
      <4>1. act' = [act EXCEPT ![a] = [act[a] EXCEPT !.version = Active.version + 1]]
        BY <2>2, <3>3 DEF ReadStrict
      <4>2. Active.version + 1 \in Versions /\ act[a] \in Request
        BY <1>0, <3>1, <3>3, ActiveIsStored DEF Type, Versions
      <4>3. [act[a] EXCEPT !.version = Active.version + 1] \in Request
        BY <4>2 DEF Request
      <4> QED BY <1>0, <3>1, <4>1, <4>3
    <3> QED BY <3>2, <3>3
  <2>3. CASE TakeStamp(a)
    <3>1. PICK now \in {t \in {clock, clock + 1} : t # 0} :
            clock' = now /\ act' = [act EXCEPT ![a] = [act[a] EXCEPT !.stamp = now]]
      BY <2>3 DEF TakeStamp
    <3>2. act[a] \in Request /\ now \in Nat
      BY <1>0, <2>3 DEF TakeStamp
    <3>3. [act[a] EXCEPT !.stamp = now] \in Request
      BY <3>2 DEF Request, Stamps
    <3> QED BY <3>1, <3>2, <3>3
  <2>4. CASE Invalidate(a) \/ GiveUp(a)
    BY <1>0, <2>4 DEF Invalidate, GiveUp, Db
  <2> QED BY <2>1, <2>2, <2>3, <2>4 DEF Preparing
<1>5. /\ apc' \in [Admin -> P] /\ act' \in [Admin -> Request \cup {None}]
      /\ \A b \in Admin : apc'[b] # "idle" => act'[b] \in Request
  BY <1>0, <1>3, <1>4
<1>6. \A w \in Worker : /\ \A d, e \in tcache'[w] : d = e
                        /\ \A m, n \in mcache'[w] : m = n
  BY <1>2 DEF IInv, TypeOK
<1> QED BY <1>1, <1>2, <1>4, <1>5, <1>6 DEF IInv, TypeOK, Stamps, Writes, Poller

(* So what is held stays as it was, or is dropped.                         *)
LEMMA KeepsHeld ==
  ASSUME IInv, UNCHANGED <<type, named, age, Writes>>,
         \A w \in Worker : tcache'[w] \subseteq tcache[w] /\ mcache'[w] \subseteq mcache[w]
  PROVE  HeldWasStored' /\ StampedAsValidated' /\ Fresh' /\ (Serial => OneDefinition')
<1>1. UNCHANGED <<pc, read, resp>>
  BY DEF Writes
<1> QED BY <1>1 DEF IInv, HeldWasStored, StampedAsValidated, Validated, Fresh, Active, OneDefinition

LEMMA PreparingOneAtATime ==
  ASSUME IInv, NEW a \in Admin, Preparing(a), Serial
  PROVE  OneAtATime'
<1> DEFINE P == {"idle", "read", "stamp", "write", "invalidate", "done"}
<1>0. /\ apc \in [Admin -> P] /\ act \in [Admin -> Request \cup {None}]
      /\ \A b \in Admin : apc[b] # "idle" => act[b] \in Request
  BY DEF IInv, TypeOK
<1>1. OneAtATime
  BY DEF IInv
<1>2. UNCHANGED <<type, named>>
  BY PreparingType
<1>3. \A b \in Admin : b # a => apc'[b] = apc[b] /\ act'[b] = act[b]
  BY <1>0 DEF Preparing, Change, ReadStrict, TakeStamp, Invalidate, GiveUp, AGoto
<1>4. Busy(a)' => Busy(a) \/ \A b \in Admin : ~Busy(b)
  BY DEF Preparing, Change, ReadStrict, TakeStamp, Invalidate, GiveUp, Busy
<1>5. \A b, c \in Admin : Busy(b)' /\ Busy(c)' => b = c
  BY <1>1, <1>3, <1>4 DEF OneAtATime, Busy
<1>6. apc'[a] \in {"stamp", "write"} /\ act'[a].kind = "update" =>
        type # None /\ act'[a].version = type.version + 1
  <2>1. ASSUME NEW kind \in Kinds, NEW w \in Worker, Change(a, kind, w)
        PROVE  ~(apc'[a] \in {"stamp", "write"} /\ act'[a].kind = "update")
    <3>1. act'[a].kind = kind /\ apc'[a] = IF kind = "update" THEN "read" ELSE "stamp"
      BY <1>0, <2>1 DEF Change, AGoto
    <3> QED BY <3>1
  <2>2. CASE ReadStrict(a)
    <3>1. CASE Active = None
      BY <1>0, <2>2, <3>1 DEF ReadStrict, AGoto
    <3>2. CASE Active # None
      <4>1. act' = [act EXCEPT ![a] = [act[a] EXCEPT !.version = Active.version + 1]] /\ act[a] \in Request
        BY <1>0, <2>2, <3>2 DEF ReadStrict
      <4>2. act'[a].version = Active.version + 1
        BY <1>0, <4>1 DEF Request
      <4> QED BY <3>2, <4>2, ActiveIsStored
    <3> QED BY <3>1, <3>2
  <2>3. CASE TakeStamp(a)
    <3>1. PICK now : act' = [act EXCEPT ![a] = [act[a] EXCEPT !.stamp = now]]
      BY <2>3 DEF TakeStamp
    <3>2. act[a] \in Request /\ apc[a] = "stamp"
      BY <1>0, <2>3 DEF TakeStamp
    <3>3. act'[a].kind = act[a].kind /\ act'[a].version = act[a].version
      BY <1>0, <3>1, <3>2 DEF Request
    <3> QED BY <1>1, <3>2, <3>3 DEF OneAtATime
  <2>4. CASE Invalidate(a) \/ GiveUp(a)
    BY <1>0, <2>4 DEF Invalidate, GiveUp, AGoto
  <2> QED BY <2>1, <2>2, <2>3, <2>4 DEF Preparing
<1> QED BY <1>1, <1>2, <1>3, <1>5, <1>6 DEF OneAtATime

LEMMA PollType ==
  ASSUME IInv, NEW w \in Worker, Poll(w)
  PROVE  /\ TypeOK' /\ UNCHANGED <<type, named, age, Writes, Changes>>
         /\ \A u \in Worker : tcache'[u] \subseteq tcache[u] /\ mcache'[u] \subseteq mcache[u]
<1>1. UNCHANGED <<Db, Writes, Changes>>
  BY DEF Poll, Scan, Sweep
<1>2. /\ tcache' \in [Worker -> SUBSET Entry] /\ mcache' \in [Worker -> SUBSET Model]
      /\ \A u \in Worker : tcache'[u] \subseteq tcache[u] /\ mcache'[u] \subseteq mcache[u]
  <2>1. UNCHANGED Caches \/ Drop(w)
    BY DEF Poll, Scan, Sweep
  <2>2. tcache \in [Worker -> SUBSET Entry] /\ mcache \in [Worker -> SUBSET Model]
    BY DEF IInv, TypeOK
  <2> QED BY <2>1, <2>2 DEF Caches, Drop
<1>3. mark' \in [Worker -> Stamps] /\ found' \in [Worker -> Stamps]
  <2>1. mark \in [Worker -> Nat] /\ found \in [Worker -> Nat]
    BY DEF IInv, TypeOK, Stamps
  <2>2. CASE Scan(w)
    <3>1. type.stamp \in Nat
      BY <2>2 DEF Scan, IInv, TypeOK, Type, Stamps
    <3> QED BY <2>1, <2>2, <3>1 DEF Scan, Stamps
  <2>3. CASE Sweep(w)
    BY <2>1, <2>3 DEF Sweep, Stamps
  <2> QED BY <2>2, <2>3 DEF Poll
<1>4. \A u \in Worker : /\ \A d, e \in tcache'[u] : d = e
                        /\ \A m, n \in mcache'[u] : m = n
  BY <1>2 DEF IInv, TypeOK
<1> QED BY <1>1, <1>2, <1>3, <1>4 DEF IInv, TypeOK, Db, Writes, Changes

-----------------------------------------------------------------------------
(* The write of a change: of a new type, of the next version, or of the    *)
(* document as it was but for "active".                                    *)
LEMMA WriteStores ==
  ASSUME IInv, NEW a \in Admin, Write(a)
  PROVE  \/ UNCHANGED <<type, named, age>>
         \/ \E doc \in Type :
              /\ StoreType(doc)
              /\ \/ type = None
                 \/ type # None /\ act[a].kind = "update" /\ doc.version = act[a].version
                 \/ type # None /\ Pair(doc) = Pair(type)
<1>0. act[a] \in Request /\ act[a].version \in Versions /\ act[a].stamp \in Stamps
  BY DEF Write, IInv, TypeOK, Request
<1>1. CASE act[a].kind = "create"
  <2>1. [version |-> 1, def |-> a, active |-> TRUE, stamp |-> act[a].stamp] \in Type
    BY <1>0 DEF Type, Versions
  <2> QED BY <1>1, <2>1 DEF Write
<1>2. CASE act[a].kind = "update"
  <2> DEFINE doc == [version |-> act[a].version, def |-> a, active |-> TRUE, stamp |-> act[a].stamp]
  <2>1. doc \in Type /\ doc.version = act[a].version
    BY <1>0 DEF Type
  <2>2. Active # None => type # None
    BY ActiveIsStored
  <2> QED BY <1>2, <2>1, <2>2 DEF Write
<1>3. CASE act[a].kind = "deactivate"
  <2> DEFINE doc == [type EXCEPT !.active = FALSE, !.stamp = act[a].stamp]
  <2>1. CASE Active = None
    BY <1>3, <2>1 DEF Write
  <2>2. CASE Active # None
    <3>1. type \in Type /\ type # None
      BY <2>2, ActiveIsStored
    <3>2. doc \in Type /\ Pair(doc) = Pair(type)
      BY <1>0, <3>1 DEF Type, Pair
    <3> QED BY <1>3, <2>2, <3>1, <3>2 DEF Write
  <2> QED BY <2>1, <2>2
<1> QED BY <1>1, <1>2, <1>3 DEF Write

LEMMA WriteIInv ==
  ASSUME IInv, NEW a \in Admin, Write(a)
  PROVE  IInv' /\ UNCHANGED resp
<1> DEFINE P == {"idle", "read", "stamp", "write", "invalidate", "done"}
<1>0. /\ UNCHANGED <<clock, act, Caches, Poller, Writes>> /\ apc[a] = "write"
      /\ apc' \in [Admin -> P] /\ apc'[a] \in {"invalidate", "done"} /\ \A b \in Admin : b # a => apc'[b] = apc[b]
  BY DEF Write, AGoto, IInv, TypeOK
<1>1. OneAtATime => (\A b, c \in Admin : Busy(b)' /\ Busy(c)' => b = c)
                    /\ \A b \in Admin : ~(apc'[b] \in {"stamp", "write"})
  BY <1>0 DEF OneAtATime, Busy
<1>2. CASE UNCHANGED <<type, named, age>>
  <2>1. TypeOK'
    BY <1>0, <1>2 DEF IInv, TypeOK, Caches, Poller, Writes
  <2>2. HeldWasStored' /\ StampedAsValidated' /\ Fresh' /\ (Serial => OneDefinition')
    BY <1>0, <1>2, KeepsHeld DEF Caches
  <2>3. Serial => OneAtATime'
    BY <1>1, <1>2 DEF IInv, OneAtATime
  <2> QED BY <1>0, <2>1, <2>2, <2>3 DEF IInv, Writes
<1>3. ASSUME NEW doc \in Type, StoreType(doc),
             \/ type = None
             \/ type # None /\ act[a].kind = "update" /\ doc.version = act[a].version
             \/ type # None /\ Pair(doc) = Pair(type)
      PROVE  IInv'
  <2> DEFINE d == IF doc.active THEN doc.def ELSE None
  <2>1. type' = doc /\ named' = named \cup {Pair(doc)} /\ age' = [age EXCEPT ![d] = 0] /\ doc # None
    BY <1>3, NoneAssumption DEF StoreType, Pair
  <2>2. doc.version \in Nat \ {0} /\ doc.def \in Admin /\ d \in Admin \cup {None}
    BY DEF Type, Versions
  <2>3. Active' \in {doc, None} /\ DefOf(Active)' = d
    BY <2>1 DEF Active, DefOf
  <2> HIDE DEF d
  <2>4. /\ age' \in [Admin \cup {None} -> 0..(Ttl + 1)] /\ age'[d] = 0
        /\ \A x \in Admin \cup {None} : age'[x] = age[x] \/ age'[x] = 0
    BY <2>1, <2>2 DEF IInv, TypeOK
  <2>5. TypeOK'
    <3>1. named' \subseteq Versions \X Admin /\ type' \in Type
      BY <2>1, <2>2 DEF IInv, TypeOK, Pair, Versions
    <3> QED BY <1>0, <2>4, <3>1 DEF IInv, TypeOK, Caches, Poller, Writes
  <2>6. HeldWasStored' /\ StampedAsValidated'
    BY <1>0, <2>1 DEF IInv, HeldWasStored, StampedAsValidated, Validated, Caches, Writes
  <2>7. Fresh'
    <3>1. \A r \in Req : DefOf(read[r]) \in Admin \cup {None}
      BY DEF IInv, TypeOK, DefOf, Type
    <3>2. \A w \in Worker : \A e \in tcache[w] : DefOf(e.doc) \in Admin \cup {None} /\ e.left \in 1..Ttl
      BY DEF IInv, TypeOK, DefOf, Entry, Type
    <3>3. \A r \in Req : pc[r] = "put" => age'[DefOf(read[r])] = 0
      BY <2>4, <3>1 DEF IInv, Fresh
    <3>4. \A w \in Worker : \A e \in tcache[w] : age'[DefOf(e.doc)] + e.left <= Ttl
      BY <2>4, <3>2 DEF IInv, Fresh
    <3> QED BY <1>0, <2>3, <2>4, <3>3, <3>4 DEF Fresh, Caches, Writes, DefOf
  <2>8. ASSUME Serial PROVE OneAtATime' /\ OneDefinition'
    <3>0. OneAtATime /\ OneDefinition /\ named \subseteq (Nat \ {0}) \X Admin
      BY <2>8 DEF IInv, TypeOK, Versions
    <3>1. Pair(doc)[1] = doc.version /\ Pair(doc)[2] = doc.def
      BY DEF Pair
    <3>2. \A n \in named : \/ n[1] < doc.version
                           \/ n[1] <= doc.version /\ Pair(doc) \in named
      <4>1. CASE type = None
        BY <3>0, <4>1 DEF OneAtATime
      <4>2. CASE type # None /\ act[a].kind = "update" /\ doc.version = act[a].version
        <5>1. doc.version = type.version + 1 /\ type.version \in Nat
          BY <1>0, <3>0, <4>2 DEF OneAtATime, IInv, TypeOK, Type, Versions
        <5>2. \A n \in named : n[1] \in Nat /\ n[1] <= type.version
          BY <3>0 DEF OneAtATime
        <5> QED BY <5>1, <5>2
      <4>3. CASE type # None /\ Pair(doc) = Pair(type)
        <5>1. Pair(doc) \in named /\ doc.version = type.version
          BY <4>3 DEF Pair, IInv, HeldWasStored
        <5> QED BY <3>0, <5>1 DEF OneAtATime
      <4> QED BY <1>3, <4>1, <4>2, <4>3
    <3>3. \A n \in named : n[1] \in Nat
      BY <3>0
    <3>4. \A n \in named' : n[1] <= doc.version
      BY <2>1, <2>2, <3>1, <3>2, <3>3
    <3>5. OneAtATime'
      BY <1>1, <2>1, <3>0, <3>4 DEF OneAtATime
    <3>6. \A n \in named : n[1] = doc.version => n[2] = doc.def
      BY <2>2, <3>0, <3>1, <3>2, <3>3 DEF OneDefinition
    <3>7. OneDefinition'
      BY <2>1, <3>0, <3>1, <3>6 DEF OneDefinition
    <3> QED BY <3>5, <3>7
  <2> QED BY <2>5, <2>6, <2>7, <2>8 DEF IInv
<1> QED BY <1>0, <1>2, <1>3, WriteStores DEF Writes

-----------------------------------------------------------------------------
(* CI writes.  An answer is as the schema says, or said at most Ttl ago.   *)
Timely == \A r \in Req : resp'[r] # resp[r] => age[resp'[r].def] <= Ttl

LEMMA GotIInv ==
  ASSUME IInv, NEW r \in Req, NEW doc \in Type \cup {None}, pc[r] \in {"typedoc", "put"}, Got(r, doc),
         doc # None => Pair(doc) \in named,
         age[DefOf(doc)] \in 0..Ttl,
         UNCHANGED <<Db, Poller, Changes, home>>,
         \/ UNCHANGED <<tcache, read>>
         \/ /\ age[DefOf(doc)] = 0
            /\ tcache' = [tcache EXCEPT ![home[r]] = {[doc |-> doc, left |-> Ttl]}]
            /\ read' = [read EXCEPT ![r] = None]
  PROVE  IInv' /\ (Serial => Timely)
<1>1. PICK w \in Worker : w = home[r]
  BY DEF IInv, TypeOK
<1>2. /\ mcache' \in [Worker -> SUBSET Model]
      /\ \A u \in Worker : \A m, n \in mcache'[u] : m = n
      /\ \A u \in Worker : \A m \in mcache'[u] : Pair(m) \in named
      /\ pc' = [pc EXCEPT ![r] = "done"]
      /\ \E a : /\ resp' = [resp EXCEPT ![r] = a]
                /\ a \in Answers
                /\ a.kind = "validated" => <<a.version, a.def>> \in named
                /\ Serial => a.def = DefOf(doc)
  BY <1>1, GotAnswer
<1>3. PICK a : /\ resp' = [resp EXCEPT ![r] = a]
               /\ a \in Answers
               /\ a.kind = "validated" => <<a.version, a.def>> \in named
               /\ Serial => a.def = DefOf(doc)
  BY <1>2
<1>4. /\ resp' \in [Req -> Answers] /\ resp'[r] = a /\ \A q \in Req : q # r => resp'[q] = resp[q]
  BY <1>3 DEF IInv, TypeOK, Answers
<1>5. Serial => Timely
  BY <1>3, <1>4 DEF Timely
<1>6. StampedAsValidated'
  BY <1>3, <1>4 DEF IInv, StampedAsValidated, Validated, Db
<1>7. /\ pc' \in [Req -> {"idle", "typedoc", "put", "done"}]
      /\ \A q \in Req : pc'[q] = "put" => q # r /\ pc[q] = "put"
      /\ \A q \in Req : pc'[q] # "idle" => pc[q] # "idle"
  BY <1>2 DEF IInv, TypeOK
<1>8. /\ read' \in [Req -> Type \cup {None}]
      /\ \A q \in Req : read'[q] = read[q] \/ (q = r /\ read'[q] = None)
  BY DEF IInv, TypeOK
<1>9. /\ tcache' \in [Worker -> SUBSET Entry]
      /\ \A u \in Worker : \/ tcache'[u] = tcache[u]
                           \/ /\ age[DefOf(doc)] = 0
                              /\ tcache'[u] = {[doc |-> doc, left |-> Ttl]}
  <2>1. [doc |-> doc, left |-> Ttl] \in Entry /\ tcache \in [Worker -> SUBSET Entry]
    BY DEF IInv, TypeOK, Entry
  <2> QED BY <1>1, <2>1
<1>10. TypeOK'
  <2>1. \A u \in Worker : \A d, e \in tcache'[u] : d = e
    BY <1>9 DEF IInv, TypeOK
  <2> QED BY <1>2, <1>4, <1>7, <1>8, <1>9, <2>1 DEF IInv, TypeOK, Answers, Db, Poller, Changes
<1>11. HeldWasStored'
  <2>1. \A u \in Worker : \A e \in tcache'[u] : e.doc # None => Pair(e.doc) \in named
    BY <1>9 DEF IInv, HeldWasStored
  <2>2. \A q \in Req : read'[q] # None => Pair(read'[q]) \in named
    BY <1>8 DEF IInv, HeldWasStored
  <2> QED BY <1>2, <2>1, <2>2 DEF IInv, HeldWasStored, Db
<1>12. Fresh'
  <2>1. \A u \in Worker : \A e \in tcache'[u] : age[DefOf(e.doc)] + e.left <= Ttl
    BY <1>9 DEF IInv, Fresh
  <2>2. \A q \in Req : pc'[q] = "put" => age[DefOf(read'[q])] = 0
    <3>1. \A q \in Req : q # r => read'[q] = read[q]
      BY <1>8
    <3> QED BY <1>7, <3>1 DEF IInv, Fresh
  <2>3. age' = age /\ DefOf(Active)' = DefOf(Active) /\ age[DefOf(Active)] = 0
    BY DEF IInv, Fresh, Db, Active, DefOf
  <2> QED BY <2>1, <2>2, <2>3 DEF Fresh, DefOf
<1>13. Serial => OneAtATime' /\ OneDefinition'
  BY DEF IInv, OneAtATime, OneDefinition, Busy, Db, Changes
<1> QED BY <1>5, <1>6, <1>10, <1>11, <1>12, <1>13 DEF IInv

CIWrite(r) == (\E w \in Worker : Begin(r, w)) \/ Hit(r) \/ Query(r) \/ Put(r)

LEMMA CIWriteIInv ==
  ASSUME IInv, NEW r \in Req, CIWrite(r)
  PROVE  IInv' /\ (Serial => Timely)
<1>1. CASE (\E w \in Worker : Begin(r, w)) \/ Query(r)
  <2>1. UNCHANGED <<Db, Caches, Poller, Changes, resp>>
    BY <1>1 DEF Begin, Query
  <2>2. Active \in Type \cup {None} /\ (Active # None => Pair(Active) \in named)
    BY ActiveIsStored
  <2>3. TypeOK'
    <3> DEFINE P == {"idle", "typedoc", "put", "done"}
    <3>1. /\ pc \in [Req -> P] /\ home \in [Req -> Worker \cup {None}] /\ read \in [Req -> Type \cup {None}]
          /\ \A q \in Req : pc[q] # "idle" => home[q] \in Worker
      BY DEF IInv, TypeOK
    <3>2. CASE Query(r)
      <4>1. pc' = [pc EXCEPT ![r] = "put"] /\ read' = [read EXCEPT ![r] = Active] /\ home' = home /\ pc[r] = "typedoc"
        BY <3>2 DEF Query
      <4>2. /\ pc' \in [Req -> P] /\ read' \in [Req -> Type \cup {None}]
            /\ \A q \in Req : pc'[q] # "idle" => pc[q] # "idle"
        BY <2>2, <3>1, <4>1
      <4> QED BY <2>1, <3>1, <4>1, <4>2 DEF IInv, TypeOK, Db, Caches, Poller, Changes
    <3>3. ASSUME NEW w \in Worker, Begin(r, w) PROVE TypeOK'
      <4>1. pc' = [pc EXCEPT ![r] = "typedoc"] /\ home' = [home EXCEPT ![r] = w] /\ read' = read
        BY <3>3 DEF Begin
      <4>2. /\ pc' \in [Req -> P] /\ home' \in [Req -> Worker \cup {None}]
            /\ \A q \in Req : pc'[q] # "idle" => home'[q] \in Worker
        BY <3>1, <4>1
      <4> QED BY <2>1, <3>1, <4>1, <4>2 DEF IInv, TypeOK, Db, Caches, Poller, Changes
    <3> QED BY <1>1, <3>2, <3>3
  <2>4. HeldWasStored' /\ StampedAsValidated'
    BY <1>1, <2>1, <2>2 DEF Begin, Query, IInv, TypeOK, HeldWasStored, StampedAsValidated, Validated, Db, Caches
  <2>5. Fresh'
    <3>1. age[DefOf(Active)] = 0 /\ \A q \in Req : pc'[q] = "put" => age[DefOf(read'[q])] = 0
      BY <1>1 DEF Begin, Query, IInv, TypeOK, Fresh
    <3>2. age' = age /\ tcache' = tcache /\ DefOf(Active)' = DefOf(Active)
      BY <2>1 DEF Db, Caches, Active, DefOf
    <3> QED BY <3>1, <3>2 DEF IInv, Fresh, DefOf
  <2>6. Serial => OneAtATime' /\ OneDefinition' /\ Timely
    BY <2>1 DEF IInv, OneAtATime, OneDefinition, Busy, Db, Changes, Timely
  <2> QED BY <2>3, <2>4, <2>5, <2>6 DEF IInv
<1>2. CASE Hit(r)
  <2>1. PICK e \in tcache[home[r]] : Got(r, e.doc)
    BY <1>2 DEF Hit
  <2>2. home[r] \in Worker /\ e \in Entry
    BY <1>2 DEF Hit, IInv, TypeOK
  <2>3. e.doc \in Type \cup {None} /\ e.left \in 1..Ttl /\ (e.doc # None => Pair(e.doc) \in named)
        /\ age[DefOf(e.doc)] + e.left <= Ttl
    BY <2>2 DEF Entry, IInv, HeldWasStored, Fresh
  <2>4. age[DefOf(e.doc)] \in 0..(Ttl + 1)
    BY <2>3 DEF IInv, TypeOK, DefOf, Type
  <2>5. age[DefOf(e.doc)] \in 0..Ttl
    BY <2>3, <2>4
  <2>6. UNCHANGED <<Db, tcache, Poller, Changes, home, read>> /\ pc[r] = "typedoc"
    BY <1>2 DEF Hit
  <2> QED BY <2>1, <2>3, <2>5, <2>6, GotIInv
<1>3. CASE Put(r)
  <2>1. /\ pc[r] = "put" /\ Got(r, read[r]) /\ UNCHANGED <<Db, Poller, Changes, home>>
        /\ tcache' = [tcache EXCEPT ![home[r]] = {[doc |-> read[r], left |-> Ttl]}]
        /\ read' = [read EXCEPT ![r] = None]
    BY <1>3 DEF Put
  <2>2. read[r] \in Type \cup {None} /\ (read[r] # None => Pair(read[r]) \in named)
        /\ age[DefOf(read[r])] = 0
    BY <2>1 DEF IInv, TypeOK, HeldWasStored, Fresh
  <2>3. age[DefOf(read[r])] \in 0..Ttl
    BY <2>2
  <2>4. PICK doc \in Type \cup {None} : doc = read[r]
    BY <2>2
  <2> QED BY <2>1, <2>2, <2>3, <2>4, GotIInv
<1> QED BY <1>1, <1>2, <1>3 DEF CIWrite

-----------------------------------------------------------------------------
(* A tick.                                                                 *)
LEMMA TickIInv ==
  ASSUME IInv, Tick
  PROVE  IInv' /\ UNCHANGED resp
<1>1. /\ UNCHANGED <<type, clock, named, mcache, Poller, Changes, Writes>>
      /\ age' = [d \in Admin \cup {None} |-> Grow(d)]
      /\ \A r \in Req : pc[r] # "put"
      /\ \A w \in Worker : tcache'[w] = {[e EXCEPT !.left = @ - 1] : e \in {d \in tcache[w] : d.left > 1}}
      /\ tcache' = [w \in Worker |-> tcache'[w]]
  BY DEF Tick
<1>2. \A d \in Admin \cup {None} : /\ age[d] \in Nat /\ age[d] <= Ttl + 1 /\ age'[d] \in 0..(Ttl + 1)
                                   /\ age'[d] <= age[d] + 1
                                   /\ d = DefOf(Active) => age'[d] = age[d]
  BY <1>1 DEF Grow, IInv, TypeOK
<1>3. \A w \in Worker : \A e \in tcache'[w] : \E d \in tcache[w] :
        /\ d \in Entry /\ d.left > 1 /\ e = [d EXCEPT !.left = d.left - 1]
        /\ e \in Entry /\ e.doc = d.doc /\ e.left = d.left - 1
  <2> SUFFICES ASSUME NEW w \in Worker, NEW e \in tcache'[w]
               PROVE  \E d \in tcache[w] :
                        /\ d \in Entry /\ d.left > 1 /\ e = [d EXCEPT !.left = d.left - 1]
                        /\ e \in Entry /\ e.doc = d.doc /\ e.left = d.left - 1
    OBVIOUS
  <2>1. PICK d \in tcache[w] : d.left > 1 /\ e = [d EXCEPT !.left = d.left - 1]
    BY <1>1
  <2>2. d \in Entry
    BY DEF IInv, TypeOK
  <2>3. d.left - 1 \in 1..Ttl
    BY <2>1, <2>2 DEF Entry
  <2>4. e \in Entry /\ e.doc = d.doc /\ e.left = d.left - 1
    BY <2>1, <2>2, <2>3 DEF Entry
  <2> QED BY <2>1, <2>2, <2>4
<1>4. TypeOK'
  <2>1. tcache' \in [Worker -> SUBSET Entry]
    BY <1>1, <1>3
  <2>2. \A w \in Worker : \A d, e \in tcache'[w] : d = e
    <3>1. ASSUME NEW w \in Worker, NEW d \in tcache'[w], NEW e \in tcache'[w] PROVE d = e
      <4>1. PICK x \in tcache[w] : d = [x EXCEPT !.left = x.left - 1]
        BY <1>3
      <4>2. PICK y \in tcache[w] : e = [y EXCEPT !.left = y.left - 1]
        BY <1>3
      <4>3. x = y
        BY DEF IInv, TypeOK
      <4> QED BY <4>1, <4>2, <4>3
    <3> QED BY <3>1
  <2>3. age' \in [Admin \cup {None} -> 0..(Ttl + 1)]
    BY <1>1, <1>2
  <2> QED BY <1>1, <2>1, <2>2, <2>3 DEF IInv, TypeOK, Poller, Changes, Writes
<1>5. HeldWasStored' /\ StampedAsValidated'
  <2>1. \A w \in Worker : \A e \in tcache'[w] : e.doc # None => Pair(e.doc) \in named
    BY <1>3 DEF IInv, HeldWasStored
  <2> QED BY <1>1, <2>1 DEF IInv, HeldWasStored, StampedAsValidated, Validated, Writes
<1>6. Fresh'
  <2>1. \A w \in Worker : \A e \in tcache'[w] : age'[DefOf(e.doc)] + e.left <= Ttl
    <3>1. ASSUME NEW w \in Worker, NEW e \in tcache'[w] PROVE age'[DefOf(e.doc)] + e.left <= Ttl
      <4>1. PICK d \in tcache[w] : d \in Entry /\ e.doc = d.doc /\ e.left = d.left - 1
        BY <1>3
      <4>2. DefOf(d.doc) \in Admin \cup {None} /\ d.left \in Nat /\ age[DefOf(d.doc)] + d.left <= Ttl
        BY <4>1 DEF Entry, DefOf, Type, IInv, Fresh
      <4>3. age'[DefOf(d.doc)] <= age[DefOf(d.doc)] + 1 /\ age[DefOf(d.doc)] \in Nat
            /\ age'[DefOf(d.doc)] \in Nat
        BY <1>2, <4>2
      <4> QED BY <4>1, <4>2, <4>3
    <3> QED BY <3>1
  <2>2. DefOf(Active)' = DefOf(Active) /\ age'[DefOf(Active)] = 0 /\ \A r \in Req : pc'[r] # "put"
    BY <1>1, <1>2, ActiveIsStored DEF Active, DefOf, Writes, IInv, Fresh
  <2> QED BY <2>1, <2>2 DEF Fresh, DefOf
<1>7. Serial => OneAtATime' /\ OneDefinition'
  BY <1>1 DEF IInv, OneAtATime, OneDefinition, Busy, Changes
<1> QED BY <1>1, <1>4, <1>5, <1>6, <1>7 DEF IInv, Writes

-----------------------------------------------------------------------------
(* Every step keeps the invariant, and every answer is timely.             *)
LEMMA StepIInv == IInv /\ [Next]_vars => IInv' /\ (Serial => Timely)
<1> SUFFICES ASSUME IInv, [Next]_vars PROVE IInv' /\ (Serial => Timely)
  OBVIOUS
<1>1. ASSUME NEW a \in Admin, Preparing(a) PROVE IInv' /\ (Serial => Timely)
  <2>1. HeldWasStored' /\ StampedAsValidated' /\ Fresh' /\ (Serial => OneDefinition')
    BY <1>1, PreparingType, KeepsHeld
  <2> QED BY <1>1, <2>1, PreparingType, PreparingOneAtATime DEF IInv, Writes, Timely
<1>2. ASSUME NEW a \in Admin, Write(a) PROVE IInv' /\ (Serial => Timely)
  BY <1>2, WriteIInv DEF Timely
<1>3. ASSUME NEW r \in Req, CIWrite(r) PROVE IInv' /\ (Serial => Timely)
  BY <1>3, CIWriteIInv
<1>4. ASSUME NEW w \in Worker, Poll(w) PROVE IInv' /\ (Serial => Timely)
  <2>1. HeldWasStored' /\ StampedAsValidated' /\ Fresh' /\ (Serial => OneDefinition')
    BY <1>4, PollType, KeepsHeld
  <2>2. UNCHANGED <<type, named, Changes>>
    BY <1>4, PollType
  <2>3. OneAtATime => OneAtATime'
    BY <2>2 DEF OneAtATime, Busy, Changes
  <2> QED BY <1>4, <2>1, <2>3, PollType DEF IInv, Writes, Timely
<1>5. CASE Tick
  BY <1>5, TickIInv DEF Timely
<1>6. CASE UNCHANGED vars
  BY <1>6 DEF vars, IInv, TypeOK, HeldWasStored, StampedAsValidated, Validated, Fresh, OneAtATime, Busy,
       OneDefinition, Active, DefOf, Timely
<1> QED BY <1>1, <1>2, <1>3, <1>4, <1>5, <1>6 DEF Next, Preparing, CIWrite, Poll

THEOREM Invariance == Spec => []IInv
<1>1. Init => IInv
  BY InitIInv
<1>2. IInv /\ [Next]_vars => IInv'
  BY StepIInv
<1> QED BY <1>1, <1>2, PTL DEF Spec

(* The variables keep their types.                                         *)
THEOREM TypeCorrect == Spec => []TypeOK
<1>1. IInv => TypeOK
  BY DEF IInv
<1> QED BY <1>1, Invariance, PTL

(* However changes, caches, pollers and CI writes interleave, changes at   *)
(* the same time included, a CI is validated by a definition that was      *)
(* stored under the version recorded with it (_type_doc, then compile).    *)
THEOREM StampedAsValidatedHolds == Spec => []StampedAsValidated
<1>1. IInv => StampedAsValidated
  BY DEF IInv
<1> QED BY <1>1, Invariance, PTL

(* While changes come one at a time, no CI write is validated by, or       *)
(* refused for, what the schema has not been for more than Ttl, with or    *)
(* without the poller (the expiry of _type_cache, the versions of          *)
(* _model_cache).                                                          *)
THEOREM BoundedStalenessHolds ==
  ASSUME Serial
  PROVE  Spec => BoundedStaleness
<1>1. IInv /\ [Next]_vars => [\A r \in Req : resp'[r] # resp[r] => age[resp'[r].def] <= Ttl]_vars
  BY StepIInv DEF Timely
<1> QED BY <1>1, Invariance, PTL DEF Spec, BoundedStaleness

-----------------------------------------------------------------------------
(* SchemaEvolution, for every set of fields, values and specifications:    *)
(* what a CI holds is what its schema_version says, and CIs stay writable  *)
(* while schemas only grow.                                                *)
(*                                                                         *)
(* The values a document holds, and the specifications of a schema.        *)
Plain(data) == \A f \in DOMAIN data : data[f] \in Value \cup {Null}
Specified(schema) == \A f \in DOMAIN schema : schema[f] \in Specs

Written(schema, data) ==
  \A f \in DOMAIN schema :
    /\ f \in DOMAIN data
    /\ \/ Accepts(schema[f], data[f])
       \/ ~schema[f].required /\ data[f] = schema[f].default

(* What Create, Put, Patch and Discover have in common: they store, over   *)
(* what was there, the dump of a payload they have validated.              *)
Stores(payload) ==
  /\ Compiles(fields) /\ Validates(fields, payload) /\ Plain(payload)
  /\ Store(Dump(fields, payload))

LEMMA DefaultsArePlain ==
  ASSUME NEW schema, Specified(schema)
  PROVE  \A f \in DOMAIN schema : schema[f].default \in Value \cup {Null}
BY EvolutionAssumption DEF Specified, FieldSpec

(* A dump is as it was validated, and plain.                               *)
LEMMA DumpIsWritten ==
  ASSUME NEW schema, NEW payload, Validates(schema, payload)
  PROVE  Written(schema, Dump(schema, payload))
<1>1. DOMAIN Dump(schema, payload) = DOMAIN schema
  BY DEF Dump
<1>2. ASSUME NEW f \in DOMAIN schema
      PROVE  \/ Accepts(schema[f], Dump(schema, payload)[f])
             \/ ~schema[f].required /\ Dump(schema, payload)[f] = schema[f].default
  BY DEF Dump, Validates
<1> QED BY <1>1, <1>2 DEF Written

LEMMA DumpIsPlain ==
  ASSUME NEW schema, NEW payload, Specified(schema), Plain(payload)
  PROVE  Plain(Dump(schema, payload))
BY DefaultsArePlain DEF Dump, Plain

(* With sound defaults, a dump is accepted in every field.                 *)
LEMMA DumpIsAccepted ==
  ASSUME NEW schema, NEW payload, SoundDefaults(schema), Validates(schema, payload)
  PROVE  \A f \in DOMAIN schema : Accepts(schema[f], Dump(schema, payload)[f])
BY DEF Dump, Validates, SoundDefaults

LEMMA OverIsPlain ==
  ASSUME NEW old, NEW new, Plain(old), Plain(new)
  PROVE  Plain(Over(old, new))
BY DEF Plain, Over

LEMMA PayloadsArePlain ==
  ASSUME NEW payload \in Payloads
  PROVE  Plain(payload)
BY DEF Payloads, Plain

LEMMA SchemasAreSpecified ==
  ASSUME NEW schema \in Schemas
  PROVE  Specified(schema)
BY DEF Schemas, Specified

-----------------------------------------------------------------------------
(* The inductive invariant: while schemas have only grown, the active one  *)
(* compiles, accepts its own defaults, and accepts the CI as it stands.    *)
Grown ==
  compatible =>
    /\ Compiles(fields) /\ SoundDefaults(fields)
    /\ ci # Null => Validates(fields, ci)

SEInv ==
  /\ Specified(fields)
  /\ ci # Null => Plain(ci)
  /\ WrittenAsStamped
  /\ Grown

LEMMA InitSEInv == SEInit => SEInv
BY SchemasAreSpecified DEF SEInit, SEInv, WrittenAsStamped, Grown

(* Growing a schema keeps what the one before accepted.                    *)
LEMMA GrowingKeeps ==
  ASSUME NEW old, NEW new, NEW data,
         CompatibleWith(old, new), Plain(data), Validates(old, data)
  PROVE  Validates(new, data)
<1>1. DOMAIN data \subseteq DOMAIN new
  BY DEF Validates, CompatibleWith
<1>2. ASSUME NEW f \in DOMAIN new, f \in DOMAIN data
      PROVE  Accepts(new[f], data[f])
  <2>1. f \in DOMAIN old /\ Accepts(old[f], data[f]) /\ data[f] \in Value \cup {Null}
    BY <1>2 DEF Validates, Plain
  <2> QED BY <2>1 DEF CompatibleWith
<1>3. ASSUME NEW f \in DOMAIN new, f \notin DOMAIN data
      PROVE  ~new[f].required
  <2>1. CASE f \notin DOMAIN old
    BY <2>1 DEF CompatibleWith
  <2>2. CASE f \in DOMAIN old
    <3>1. Accepts(old[f], Null)
      BY <1>3, <2>2 DEF Validates, Accepts
    <3>2. Accepts(new[f], Null)
      BY <2>2, <3>1 DEF CompatibleWith
    <3> QED BY <3>2 DEF Accepts
  <2> QED BY <2>1, <2>2
<1> QED BY <1>1, <1>2, <1>3 DEF Validates

LEMMA UpdateKeepsSEInv ==
  ASSUME SEInv, NEW new \in Schemas, UpdateType(new)
  PROVE  SEInv'
<1>1. Specified(fields')
  BY SchemasAreSpecified DEF UpdateType
<1>2. (ci # Null => Plain(ci))' /\ WrittenAsStamped'
  BY DEF SEInv, UpdateType, WrittenAsStamped
<1>3. Grown'
  BY GrowingKeeps DEF SEInv, UpdateType, Grown, CompatibleWith
<1> QED BY <1>1, <1>2, <1>3 DEF SEInv

LEMMA StoreKeepsSEInv ==
  ASSUME SEInv, NEW payload, Stores(payload)
  PROVE  SEInv'
<1> DEFINE data == Dump(fields, payload)
<1>1. fields' = fields /\ stamped' = fields /\ compatible' = compatible
  BY DEF Stores, Store
<1>2. DOMAIN data = DOMAIN fields
  BY DEF Dump
<1>3. ci' = IF ci = Null THEN data ELSE Over(ci, data)
  BY DEF Stores, Store
<1>4. Plain(data) /\ Written(fields, data)
  BY DumpIsPlain, DumpIsWritten DEF SEInv, Stores
<1>5. Plain(ci')
  BY <1>3, <1>4, OverIsPlain DEF SEInv
<1>6. \A f \in DOMAIN fields : f \in DOMAIN ci' /\ ci'[f] = data[f]
  BY <1>2, <1>3 DEF Over
<1>7. WrittenAsStamped'
  BY <1>1, <1>4, <1>6 DEF WrittenAsStamped, Written
<1>8. ASSUME compatible
      PROVE  Validates(fields, ci')
  <2>1. ci # Null => DOMAIN ci \subseteq DOMAIN fields
    BY <1>8 DEF SEInv, Grown, Validates
  <2>2. DOMAIN ci' \subseteq DOMAIN fields
    BY <1>2, <1>3, <2>1 DEF Over
  <2>3. \A f \in DOMAIN fields : Accepts(fields[f], data[f])
    BY <1>8, DumpIsAccepted DEF SEInv, Grown, Stores
  <2> QED BY <1>6, <2>2, <2>3 DEF Validates
<1>9. Grown'
  BY <1>1, <1>8 DEF SEInv, Grown
<1> QED BY <1>1, <1>5, <1>7, <1>9 DEF SEInv

LEMMA StepSEInv ==
  SEInv /\ [SENext]_seVars => SEInv'
<1> SUFFICES ASSUME SEInv, [SENext]_seVars PROVE SEInv'
  OBVIOUS
<1>1. ASSUME NEW new \in Schemas, UpdateType(new) PROVE SEInv'
  BY <1>1, UpdateKeepsSEInv
<1>2. ASSUME NEW payload \in Payloads, NEW by \in BOOLEAN, Create(payload, by) PROVE SEInv'
  BY <1>2, PayloadsArePlain, StoreKeepsSEInv DEF Create, Stores
<1>3. ASSUME NEW payload \in Payloads, Replace(payload) PROVE SEInv'
  BY <1>3, PayloadsArePlain, StoreKeepsSEInv DEF Replace, Stores
<1>4. ASSUME NEW payload \in Payloads, Patch(payload) PROVE SEInv'
  <2>1. Plain(Over(ci, payload))
    BY <1>4, PayloadsArePlain, OverIsPlain DEF SEInv, Patch
  <2> QED BY <1>4, <2>1, StoreKeepsSEInv DEF Patch, Stores
<1>5. ASSUME NEW payload \in Payloads, Discover(payload) PROVE SEInv'
  <2>1. Plain(Over(ci, payload))
    BY <1>5, PayloadsArePlain, OverIsPlain DEF SEInv, Discover
  <2> QED BY <1>5, <2>1, StoreKeepsSEInv DEF Discover, Stores
<1>6. CASE Delete
  BY <1>6 DEF SEInv, Delete, WrittenAsStamped, Grown
<1>7. CASE UNCHANGED seVars
  BY <1>7 DEF SEInv, seVars, WrittenAsStamped, Grown
<1> QED BY <1>1, <1>2, <1>3, <1>4, <1>5, <1>6, <1>7 DEF SENext

(* The inductive invariant of SchemaEvolution holds.                       *)
THEOREM SEInvariance == SESpec => []SEInv
<1>1. SEInit => SEInv
  BY InitSEInv
<1>2. SEInv /\ [SENext]_seVars => SEInv'
  BY StepSEInv
<1> QED BY <1>1, <1>2, PTL DEF SESpec

(* The lineage a CI carries is true: every field of the schema named by    *)
(* its schema_version is there, accepted by that schema or its default     *)
(* (what create, update and apply_discovery store of what they validated). *)
THEOREM WrittenAsStampedHolds == SESpec => []WrittenAsStamped
BY SEInvariance, PTL DEF SEInv

(* Forward-only schema changes need no migration: while each schema only   *)
(* grows, the stored CI validates by the active one, so that update and    *)
(* apply_discovery, which validate what is stored, go on accepting it.     *)
THEOREM CompatibleStaysWritableHolds == SESpec => []CompatibleStaysWritable
<1>1. SEInv => CompatibleStaysWritable
  BY DEF SEInv, Grown, CompatibleStaysWritable
<1> QED BY <1>1, SEInvariance, PTL
=============================================================================
