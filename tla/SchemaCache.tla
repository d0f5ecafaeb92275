---------------------------- MODULE SchemaCache -----------------------------
(***************************************************************************)
(* The schema of one CI type, as SchemaRegistry (src/cmdboss/registry.py)  *)
(* stores and caches it, and the poller that invalidates the caches of     *)
(* the other workers (src/cmdboss/invalidator.py).                         *)
(*                                                                         *)
(* Members of Admin are the requests that change the type: the definition  *)
(* that a create or an update writes is named after its request.  Members  *)
(* of Req are CI writes, which read the type to know the version to record *)
(* and the model to validate with.  A worker runs its coroutines one at a  *)
(* time: other requests get in only where one awaits MongoDB.              *)
(*                                                                         *)
(* Time passes in ticks.  A cache entry lives for Ttl ticks; a read of the *)
(* type takes less than one.  updated_at is a stamp of its own, taken when *)
(* the request prepares its update: stamps may be equal, and updates reach *)
(* the database in any order.                                              *)
(***************************************************************************)
EXTENDS Naturals

CONSTANTS Worker, Admin, Req,
          Ttl,        \* schema_cache_ttl_seconds
          Serial,     \* does a change start only when no other is under way
          Polling,    \* cache_invalidation_enabled
          Kinds,      \* the kinds of change that occur
          None

ASSUME SchemaAssumption ==
  /\ Ttl \in Nat \ {0}
  /\ Serial \in BOOLEAN /\ Polling \in BOOLEAN
  /\ Kinds \subseteq {"create", "update", "deactivate"}
  /\ None \notin Admin

VARIABLES
  type,    \* the document in _ci_types, or None
  clock,   \* the last stamp taken
  named,   \* every (version, definition) that was ever stored
  age,     \* age[d]: for how many ticks d has not been the active definition
  tcache,  \* tcache[w]: _type_cache, no entry or one
  mcache,  \* mcache[w]: _model_cache, no entry or one
  mark,    \* mark[w]: the watermark of w's poller
  found,   \* found[w]: the stamp a poll of w has found and not yet applied
  apc,     \* apc[a]: the next step of change a
  act,     \* act[a]: what a is: its kind, worker, version and stamp
  pc,      \* pc[r]: the next step of CI write r
  home,    \* home[r]: the worker that runs r
  read,    \* read[r]: what find_one returned
  resp     \* resp[r]: what r was validated with, if it was

vars == <<type, clock, named, age, tcache, mcache, mark, found, apc, act,
          pc, home, read, resp>>

Versions == Nat \ {0}
Stamps == Nat
Type == [version : Versions, def : Admin, active : BOOLEAN, stamp : Stamps]
Entry == [doc : Type \cup {None}, left : 1..Ttl]
Model == [version : Versions, def : Admin]
Request == [kind : Kinds, worker : Worker, version : Versions, stamp : Stamps]

(* No document is None.                                                    *)
ASSUME NoneAssumption == None \notin Type

(* What a CI write was told: no answer yet, no such type, or validated by  *)
(* the definition def and recorded under version.                          *)
Unanswered == [kind |-> "none", version |-> 0, def |-> None]
NotFound == [kind |-> "notfound", version |-> 0, def |-> None]
ValidatedBy(version, def) == [kind |-> "validated", version |-> version, def |-> def]

(* find_one({"name": name, "active": True})                                *)
Active == IF type # None /\ type.active THEN type ELSE None
DefOf(doc) == IF doc = None THEN None ELSE doc.def

Init ==
  /\ type = None /\ clock = 0 /\ named = {}
  /\ age = [d \in Admin \cup {None} |-> 0]
  /\ tcache = [w \in Worker |-> {}] /\ mcache = [w \in Worker |-> {}]
  /\ mark = [w \in Worker |-> 0] /\ found = [w \in Worker |-> 0]
  /\ apc = [a \in Admin |-> "idle"]
  /\ act = [a \in Admin |-> None]
  /\ pc = [r \in Req |-> "idle"] /\ home = [r \in Req |-> None]
  /\ read = [r \in Req |-> None]
  /\ resp = [r \in Req |-> Unanswered]

Db == <<type, clock, named, age>>
Caches == <<tcache, mcache>>
Poller == <<mark, found>>
Changes == <<apc, act>>
Writes == <<pc, home, read, resp>>

(***************************************************************************)
(* create_type, update_type, deactivate_type.                              *)
(***************************************************************************)
AGoto(a, step) == apc' = [apc EXCEPT ![a] = step]

Change(a, kind, w) ==
  /\ apc[a] = "idle" /\ kind \in Kinds
  /\ Serial => \A b \in Admin : apc[b] \in {"idle", "done"}
  /\ act' = [act EXCEPT ![a] = [kind |-> kind, worker |-> w, version |-> 1, stamp |-> 0]]
  /\ AGoto(a, IF kind = "update" THEN "read" ELSE "stamp")
  /\ UNCHANGED <<Db, Caches, Poller, Writes>>

(* get_type_strict, and new_version; a type that is not there is refused.  *)
ReadStrict(a) ==
  /\ apc[a] = "read"
  /\ \/ Active = None /\ AGoto(a, "done") /\ UNCHANGED act
     \/ /\ Active # None
        /\ act' = [act EXCEPT ![a].version = Active.version + 1]
        /\ AGoto(a, "stamp")
  /\ UNCHANGED <<Db, Caches, Poller, Writes>>

(* utcnow(), within the same millisecond as the last one or later.         *)
TakeStamp(a) ==
  /\ apc[a] = "stamp"
  /\ \E now \in {t \in {clock, clock + 1} : t # 0} :
       /\ clock' = now
       /\ act' = [act EXCEPT ![a].stamp = now]
  /\ AGoto(a, "write")
  /\ UNCHANGED <<type, named, age, Caches, Poller, Writes>>

(* The new document, and how long each definition has been out of use.     *)
StoreType(doc) ==
  /\ type' = doc
  /\ named' = named \cup {<<doc.version, doc.def>>}
  /\ age' = [age EXCEPT ![IF doc.active THEN doc.def ELSE None] = 0]

(* insert_one under a unique name; update_one of the active document by    *)
(* name alone, which may match nothing.                                    *)
Write(a) ==
  /\ apc[a] = "write"
  /\ \/ /\ act[a].kind = "create" /\ type = None
        /\ StoreType([version |-> 1, def |-> a, active |-> TRUE, stamp |-> act[a].stamp])
        /\ AGoto(a, "invalidate")
     \/ /\ act[a].kind = "create" /\ type # None
        /\ AGoto(a, "done") /\ UNCHANGED <<type, named, age>>
     \/ /\ act[a].kind = "update" /\ Active # None
        /\ StoreType([version |-> act[a].version, def |-> a, active |-> TRUE,
                      stamp |-> act[a].stamp])
        /\ AGoto(a, "invalidate")
     \/ /\ act[a].kind = "update" /\ Active = None
        /\ AGoto(a, "invalidate") /\ UNCHANGED <<type, named, age>>
     \/ /\ act[a].kind = "deactivate" /\ Active # None
        /\ StoreType([type EXCEPT !.active = FALSE, !.stamp = act[a].stamp])
        /\ AGoto(a, "invalidate")
     \/ /\ act[a].kind = "deactivate" /\ Active = None
        /\ AGoto(a, "done") /\ UNCHANGED <<type, named, age>>
  /\ UNCHANGED <<clock, act, Caches, Poller, Writes>>

Drop(w) ==
  /\ tcache' = [tcache EXCEPT ![w] = {}]
  /\ mcache' = [mcache EXCEPT ![w] = {}]

(* ensure_ci_indexes, then invalidate: the local worker's caches only.     *)
Invalidate(a) ==
  /\ apc[a] = "invalidate"
  /\ Drop(act[a].worker)
  /\ AGoto(a, "done")
  /\ UNCHANGED <<Db, act, Poller, Writes>>

(* Any await raises, or the request is cancelled.                          *)
GiveUp(a) ==
  /\ apc[a] \in {"read", "write", "invalidate"}
  /\ AGoto(a, "done")
  /\ UNCHANGED <<Db, act, Caches, Poller, Writes>>

(***************************************************************************)
(* CI writes: _type_doc, then compile.                                     *)
(***************************************************************************)
Begin(r, w) ==
  /\ pc[r] = "idle"
  /\ pc' = [pc EXCEPT ![r] = "typedoc"]
  /\ home' = [home EXCEPT ![r] = w]
  /\ UNCHANGED <<Db, Caches, Poller, Changes, read, resp>>

Answer(r, a) ==
  /\ pc' = [pc EXCEPT ![r] = "done"]
  /\ resp' = [resp EXCEPT ![r] = a]

ModelFor(doc, hits) ==
  IF hits # {} THEN CHOOSE m \in hits : TRUE ELSE [version |-> doc.version, def |-> doc.def]

(* Fault: the compiled model is looked up by name, whatever its version.   *)
CompileByName(r, doc) ==
  LET model == ModelFor(doc, mcache[home[r]])
  IN  /\ mcache' = [mcache EXCEPT ![home[r]] = {model}]
      /\ Answer(r, ValidatedBy(doc.version, model.def))

(* _type_doc, which gives the version to record, and then compile, which   *)
(* asks for the type again: its entry is there, without an await between.  *)
(* The cached model is used if it has the version of doc.                  *)
Compile(r, doc) ==
  LET model == ModelFor(doc, {m \in mcache[home[r]] : m.version = doc.version})
  IN  /\ mcache' = [mcache EXCEPT ![home[r]] = {model}]
      /\ Answer(r, ValidatedBy(doc.version, model.def))

(* get_type returned doc.                                                  *)
Got(r, doc) ==
  \/ doc = None /\ Answer(r, NotFound) /\ UNCHANGED mcache
  \/ doc # None /\ Compile(r, doc)

Hit(r) ==
  /\ pc[r] = "typedoc"
  /\ \E e \in tcache[home[r]] : Got(r, e.doc)
  /\ UNCHANGED <<Db, tcache, Poller, Changes, home, read>>

(* A miss: find_one, and later, when the coroutine resumes, _cache_put.    *)
Query(r) ==
  /\ pc[r] = "typedoc" /\ tcache[home[r]] = {}
  /\ read' = [read EXCEPT ![r] = Active]
  /\ pc' = [pc EXCEPT ![r] = "put"]
  /\ UNCHANGED <<Db, Caches, Poller, Changes, home, resp>>

Put(r) ==
  /\ pc[r] = "put"
  /\ tcache' = [tcache EXCEPT ![home[r]] = {[doc |-> read[r], left |-> Ttl]}]
  /\ Got(r, read[r])
  /\ read' = [read EXCEPT ![r] = None]
  /\ UNCHANGED <<Db, Poller, Changes, home>>

(***************************************************************************)
(* poll_once, and time.                                                    *)
(***************************************************************************)
Scan(w) ==
  /\ Polling /\ found[w] = 0
  /\ type # None /\ type.stamp > mark[w]
  /\ found' = [found EXCEPT ![w] = type.stamp]
  /\ UNCHANGED <<Db, Caches, mark, Changes, Writes>>

Sweep(w) ==
  /\ found[w] # 0
  /\ Drop(w)
  /\ mark' = [mark EXCEPT ![w] = found[w]]
  /\ found' = [found EXCEPT ![w] = 0]
  /\ UNCHANGED <<Db, Changes, Writes>>

Grow(d) == IF d = DefOf(Active) \/ age[d] > Ttl THEN age[d] ELSE age[d] + 1

Tick ==
  /\ \A r \in Req : pc[r] # "put"
  /\ age' = [d \in Admin \cup {None} |-> Grow(d)]
  /\ tcache' = [w \in Worker |->
       {[e EXCEPT !.left = @ - 1] : e \in {d \in tcache[w] : d.left > 1}}]
  /\ UNCHANGED <<type, clock, named, mcache, Poller, Changes, Writes>>

Next ==
  \/ \E a \in Admin :
       \/ \E kind \in Kinds, w \in Worker : Change(a, kind, w)
       \/ ReadStrict(a) \/ TakeStamp(a) \/ Write(a) \/ Invalidate(a) \/ GiveUp(a)
  \/ \E r \in Req :
       \/ \E w \in Worker : Begin(r, w)
       \/ Hit(r) \/ Query(r) \/ Put(r)
  \/ \E w \in Worker : Scan(w) \/ Sweep(w)
  \/ Tick

Spec == Init /\ [][Next]_vars

(***************************************************************************)
(* Properties.                                                             *)
(***************************************************************************)
TypeOK ==
  /\ type \in Type \cup {None} /\ clock \in Stamps
  /\ named \subseteq Versions \X Admin
  /\ age \in [Admin \cup {None} -> 0..(Ttl + 1)]
  /\ tcache \in [Worker -> SUBSET Entry] /\ mcache \in [Worker -> SUBSET Model]
  /\ \A w \in Worker : \A d, e \in tcache[w] : d = e
  /\ \A w \in Worker : \A m, n \in mcache[w] : m = n
  /\ mark \in [Worker -> Stamps] /\ found \in [Worker -> Stamps]
  /\ apc \in [Admin -> {"idle", "read", "stamp", "write", "invalidate", "done"}]
  /\ act \in [Admin -> Request \cup {None}]
  /\ \A a \in Admin : apc[a] # "idle" => act[a] \in Request
  /\ pc \in [Req -> {"idle", "typedoc", "put", "done"}]
  /\ home \in [Req -> Worker \cup {None}]
  /\ \A r \in Req : pc[r] # "idle" => home[r] \in Worker
  /\ read \in [Req -> Type \cup {None}]
  /\ resp \in [Req -> [kind : {"none", "notfound", "validated"}, version : Nat,
                       def : Admin \cup {None}]]

Validated(r) == resp[r].kind = "validated"

(* Bounded staleness: whatever a worker's caches hold, a CI write is       *)
(* validated (or refused) as the schema says, or said at most Ttl ago.     *)
BoundedStaleness ==
  [][\A r \in Req : resp'[r] # resp[r] =>
       age[resp'[r].def] <= Ttl]_vars

(* The version recorded with a CI is the one it was validated under.       *)
StampedAsValidated ==
  \A r \in Req : Validated(r) => <<resp[r].version, resp[r].def>> \in named

(* The version recorded with a CI preserves its lineage: CIs recorded      *)
(* under one version were validated by one definition (update_type writes  *)
(* a new version for every new definition).                                *)
LineageIsPreserved ==
  \A q, r \in Req :
    Validated(q) /\ Validated(r) /\ resp[q].version = resp[r].version
      => resp[q].def = resp[r].def
=============================================================================
