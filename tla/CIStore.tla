------------------------------ MODULE CIStore ------------------------------
(***************************************************************************)
(* The write path of the CI repository (src/cmdboss/repository.py): POST,  *)
(* PUT, PATCH and DELETE, and the two entry points that discovery uses     *)
(* (apply_discovery and mark_missing), over one CI type's collection.      *)
(*                                                                         *)
(* Each member of Req is one request, run by some worker process.  Every   *)
(* "await" on MongoDB is a step of its own, so that requests interleave at *)
(* those points and may stop (an exception or a dead worker) at any.       *)
(* TxnEnabled is CIRepository._txn: with it the steps of a request share a *)
(* snapshot transaction, without it each step takes effect at once.        *)
(*                                                                         *)
(* A CI's user data is a function from Field to Val.  Validation is        *)
(* abstracted: a payload that fails it is one of the causes of Fail.       *)
(***************************************************************************)
EXTENDS Naturals, Sequences

CONSTANTS Req,         \* requests
          Ci,          \* CI ids (ObjectIds), those existing and those to come
          Existing,    \* the CIs that exist initially, a subset of Ci
          Ext,         \* external ids of the discovery source
          Field, Val,  \* the type's fields and their values
          Bodies,      \* the payloads requests carry, partial functions on Field
          Kinds,       \* the kinds of request that occur
          Guesses,     \* revisions a client may put in If-Match unseen
          TxnEnabled,  \* does the deployment support transactions
          None         \* "nothing": no document, no header, no value yet

Payload == UNION {[F -> Val] : F \in SUBSET Field}
Content == [Field -> Val]
Statuses == {"none", "present", "missing"}

(* A stored CI: _meta.revision, the user data, _meta.external_id (None for *)
(* a CI created through the API) and _meta.discovery_status.               *)
Doc == [rev : Nat \ {0}, content : Content, ext : Ext \cup {None}, status : Statuses]

(* An audit record and an outbox event.                                    *)
Entry == [req : Req \cup {None}, before : Doc \cup {None}, after : Doc \cup {None}]
Event == [kind : {"created", "updated", "deleted", "missing"}, payload : Doc]

AllKinds == {"put", "patch", "delete", "create", "discover", "missing"}
ClientKinds == {"put", "patch", "delete"}

ASSUME ConstantsAssumption ==
  /\ Existing \subseteq Ci
  /\ Bodies \subseteq Payload
  /\ Kinds \subseteq AllKinds
  /\ Guesses \subseteq Nat
  /\ TxnEnabled \in BOOLEAN
  /\ None \notin Doc /\ None \notin Ext /\ None \notin Nat /\ None \notin Ci
  /\ None \notin Req
  /\ None \notin Entry /\ None \notin Event
  /\ None \notin [rev : Nat \ {0}, content : Content]

VARIABLES
  doc,     \* doc[c]: the stored document of CI c, or None
  used,    \* ids generated so far; an ObjectId is never generated twice
  audit,   \* audit[c]: the audit records of c, oldest first
  outbox,  \* outbox[c]: the events enqueued for c, oldest first
  pc,      \* pc[r]: the next step of request r
  op,      \* op[r]: what r asks for
  seen,    \* seen[r]: the representation r's client fetched before, or None
  target,  \* target[r]: the CI r works on
  before,  \* before[r]: the local variable "existing"
  after,   \* after[r]: the document the write returned
  pend,    \* pend[r]: the effects r's open session holds back
  stale,   \* stale[r]: target[r] was rewritten since r's snapshot
  resp     \* resp[r]: the answer r's client received

vars == <<doc, used, audit, outbox, pc, op, seen, target, before, after,
          pend, stale, resp>>

(***************************************************************************)
(* Shapes.                                                                 *)
(***************************************************************************)
Steps == {"idle", "read", "write", "recheck", "audit", "outbox", "commit", "done"}
Replies == {"none", "ok", "notfound", "precondition", "error"}

NoBody == [x \in {} |-> x]
NoOp == [kind |-> "none", ext |-> None, body |-> NoBody, etag |-> None]
Request == [kind : AllKinds, ext : Ext \cup {None}, body : Payload,
            etag : Nat \cup {None}]
Pending == [doc : SUBSET (Doc \cup {None}), entry : Entry \cup {None},
            event : Event \cup {None}]
NothingPending == [doc |-> {}, entry |-> None, event |-> None]

Live(c) == doc[c] # None

(* merged = {**existing, **payload}; a PUT's payload covers every field.   *)
Merge(content, body) ==
  [f \in Field |-> IF f \in DOMAIN body THEN body[f] ELSE content[f]]

FirstDoc(x, v) ==
  [rev |-> 1, content |-> v, ext |-> x, status |-> IF x = None THEN "none" ELSE "present"]

Init ==
  /\ \E x \in [Existing -> Ext \cup {None}], v \in Bodies \cap Content :
       /\ \A c, d \in Existing : c # d /\ x[c] # None => x[c] # x[d]
       /\ doc = [c \in Ci |-> IF c \in Existing THEN FirstDoc(x[c], v) ELSE None]
  /\ used = Existing
  /\ audit = [c \in Ci |-> IF c \in Existing
                THEN <<[req |-> None, before |-> None, after |-> doc[c]]>> ELSE <<>>]
  /\ outbox = [c \in Ci |-> IF c \in Existing
                 THEN <<[kind |-> "created", payload |-> doc[c]]>> ELSE <<>>]
  /\ pc = [r \in Req |-> "idle"]
  /\ op = [r \in Req |-> NoOp]
  /\ seen = [r \in Req |-> None]
  /\ target = [r \in Req |-> None]
  /\ before = [r \in Req |-> None]
  /\ after = [r \in Req |-> None]
  /\ pend = [r \in Req |-> NothingPending]
  /\ stale = [r \in Req |-> FALSE]
  /\ resp = [r \in Req |-> "none"]

(***************************************************************************)
(* The session.  A step that passes session=session takes effect at once   *)
(* without transactions and is held back until Commit with them.           *)
(***************************************************************************)
(* What an operation of r on its target sees: the snapshot, or the store.  *)
View(r) == IF TxnEnabled THEN before[r] ELSE doc[target[r]]

(* MongoDB aborts a transaction that writes a document another one has     *)
(* written since the snapshot, or is writing.                              *)
Conflict(r) ==
  TxnEnabled /\ (stale[r] \/ \E q \in Req \ {r} : target[q] = target[r] /\ pend[q].doc # {})

StoreDoc(r, d) ==
  IF TxnEnabled
    THEN /\ pend' = [pend EXCEPT ![r].doc = {d}]
         /\ UNCHANGED doc
    ELSE /\ doc' = [doc EXCEPT ![target[r]] = d]
         /\ UNCHANGED pend

(* Fault: AuditLog.record without session=session.                         *)
StoreEntryNoSession(r, e) ==
  audit' = [audit EXCEPT ![target[r]] = Append(@, e)] /\ UNCHANGED pend

StoreEntry(r, e) ==
  IF TxnEnabled
    THEN /\ pend' = [pend EXCEPT ![r].entry = e]
         /\ UNCHANGED audit
    ELSE /\ audit' = [audit EXCEPT ![target[r]] = Append(@, e)]
         /\ UNCHANGED pend

(* Fault: Outbox.add without session=session.                              *)
StoreEventNoSession(r, e) ==
  outbox' = [outbox EXCEPT ![target[r]] = Append(@, e)] /\ UNCHANGED pend

StoreEvent(r, e) ==
  IF TxnEnabled
    THEN /\ pend' = [pend EXCEPT ![r].event = e]
         /\ UNCHANGED outbox
    ELSE /\ outbox' = [outbox EXCEPT ![target[r]] = Append(@, e)]
         /\ UNCHANGED pend

(* The request ends with answer a: its locals go, and so does a            *)
(* transaction that is still open.                                         *)
Finish(r, a) ==
  /\ pc' = [pc EXCEPT ![r] = "done"]
  /\ resp' = [resp EXCEPT ![r] = a]
  /\ pend' = [pend EXCEPT ![r] = NothingPending]
  /\ before' = [before EXCEPT ![r] = None]
  /\ after' = [after EXCEPT ![r] = None]

(***************************************************************************)
(* The client.  It may GET the CI first and send the ETag it got back in   *)
(* If-Match; a client that did not may still send a number of its own.     *)
(***************************************************************************)
Get(r, c) ==
  /\ pc[r] = "idle" /\ seen[r] = None /\ Kinds \cap ClientKinds # {}
  /\ Live(c)
  /\ seen' = [seen EXCEPT ![r] = [rev |-> doc[c].rev, content |-> doc[c].content]]
  /\ target' = [target EXCEPT ![r] = c]
  /\ UNCHANGED <<doc, used, audit, outbox, pc, op, before, after, pend, stale, resp>>

(* What _parse_if_match can hand the handler: None is "If-Match: *" and,   *)
(* for DELETE, a missing header (which PUT and PATCH refuse with 428).     *)
IfMatch(r) ==
  Guesses \cup {None} \cup (IF seen[r] # None THEN {seen[r].rev} ELSE {})

Start(r, c, request) ==
  /\ pc' = [pc EXCEPT ![r] = "read"]
  /\ op' = [op EXCEPT ![r] = request]
  /\ target' = [target EXCEPT ![r] = c]
  /\ UNCHANGED <<doc, used, audit, outbox, seen, before, after, pend, stale, resp>>

Send(r, c, kind, body, etag) ==
  /\ pc[r] = "idle" /\ kind \in Kinds \cap ClientKinds
  /\ c \in used /\ target[r] \in {None, c}
  /\ etag \in IfMatch(r)
  /\ CASE kind = "put" -> DOMAIN body = Field
       [] kind = "patch" -> TRUE
       [] kind = "delete" -> body = NoBody
  /\ Start(r, c, [kind |-> kind, ext |-> None, body |-> body, etag |-> etag])

(* POST without an Idempotency-Key (CICreate models the key).              *)
SendCreate(r, body) ==
  /\ pc[r] = "idle" /\ "create" \in Kinds /\ seen[r] = None
  /\ DOMAIN body = Field
  /\ Start(r, None, [kind |-> "create", ext |-> None, body |-> body, etag |-> None])

(* A discovery run applies one item, or flags one CI it no longer sees.    *)
SendDiscover(r, x, body) ==
  /\ pc[r] = "idle" /\ "discover" \in Kinds /\ seen[r] = None
  /\ Start(r, None, [kind |-> "discover", ext |-> x, body |-> body, etag |-> None])

SendMissing(r, c) ==
  /\ pc[r] = "idle" /\ "missing" \in Kinds /\ seen[r] = None
  /\ Live(c) /\ doc[c].ext # None
  /\ Start(r, c, [kind |-> "missing", ext |-> None, body |-> NoBody, etag |-> None])

(***************************************************************************)
(* The first find_one, which also fixes the transaction's snapshot.        *)
(***************************************************************************)
Continue(r, c) ==
  /\ pc' = [pc EXCEPT ![r] = "write"]
  /\ target' = [target EXCEPT ![r] = c]
  /\ before' = [before EXCEPT ![r] = doc[c]]
  /\ stale' = [stale EXCEPT ![r] = FALSE]
  /\ UNCHANGED <<doc, used, audit, outbox, op, seen, after, pend, resp>>

Reject(r, a) ==
  /\ Finish(r, a)
  /\ UNCHANGED <<doc, used, audit, outbox, op, seen, target, stale>>

ReadById(r) ==
  /\ pc[r] = "read" /\ op[r].kind \in {"put", "patch", "delete", "missing"}
  /\ LET c == target[r] IN
     \/ ~Live(c) /\ Reject(r, IF op[r].kind = "missing" THEN "ok" ELSE "notfound")
     \/ /\ Live(c) /\ op[r].kind = "delete"
        /\ op[r].etag \in Nat /\ op[r].etag # doc[c].rev
        /\ Reject(r, "precondition")
     \/ /\ Live(c)
        /\ op[r].kind = "delete" /\ op[r].etag \in Nat => op[r].etag = doc[c].rev
        /\ Continue(r, c)

(* find_one by (source, external_id), or the new document's _id.           *)
FreshId(r) ==
  \E c \in Ci \ used :
    /\ used' = used \cup {c}
    /\ target' = [target EXCEPT ![r] = c]
    /\ before' = [before EXCEPT ![r] = None]
    /\ pc' = [pc EXCEPT ![r] = "write"]
    /\ stale' = [stale EXCEPT ![r] = FALSE]
    /\ UNCHANGED <<doc, audit, outbox, op, seen, after, pend, resp>>

ReadByExt(r) ==
  /\ pc[r] = "read" /\ op[r].kind = "discover"
  /\ LET found == {c \in Ci : Live(c) /\ doc[c].ext = op[r].ext} IN
     \/ \E c \in found : Continue(r, c)
     \/ /\ found = {} /\ DOMAIN op[r].body = Field
        /\ FreshId(r)

NewId(r) ==
  /\ pc[r] = "read" /\ op[r].kind = "create"
  /\ FreshId(r)

(***************************************************************************)
(* The write.  new_revision is computed from the document that was read.   *)
(***************************************************************************)
Written(r, d) ==
  /\ ~Conflict(r)
  /\ StoreDoc(r, d)
  /\ after' = [after EXCEPT ![r] = d]
  /\ UNCHANGED <<used, audit, outbox, op, seen, target, before, stale, resp>>

InsertDoc(r) ==
  /\ pc[r] = "write" /\ before[r] = None
  /\ Written(r, FirstDoc(op[r].ext, op[r].body))
  /\ pc' = [pc EXCEPT ![r] = "audit"]

(* Fault: the filter names the _id only.                                   *)
CasMatchesById(r) == View(r) # None

(* find_one_and_update filtered by _id and the expected revision.          *)
CasMatches(r) == View(r) # None /\ View(r).rev = op[r].etag

(* Fault: the revision is written back as it was read.                     *)
UpdateDocSameRevision(r) ==
  /\ pc[r] = "write" /\ op[r].kind \in {"put", "patch"}
  /\ CasMatches(r)
  /\ Written(r, [View(r) EXCEPT !.content = Merge(before[r].content, op[r].body)])
  /\ pc' = [pc EXCEPT ![r] = "audit"]

UpdateDoc(r) ==
  /\ pc[r] = "write" /\ op[r].kind \in {"put", "patch"}
  /\ CasMatches(r)
  /\ Written(r, [View(r) EXCEPT !.rev = before[r].rev + 1,
                                !.content = Merge(before[r].content, op[r].body)])
  /\ pc' = [pc EXCEPT ![r] = "audit"]

CasMisses(r) ==
  /\ pc[r] = "write" /\ op[r].kind \in {"put", "patch"}
  /\ ~CasMatches(r)
  /\ pc' = [pc EXCEPT ![r] = "recheck"]
  /\ UNCHANGED <<doc, used, audit, outbox, op, seen, target, before, after, pend, stale, resp>>

Recheck(r) ==
  /\ pc[r] = "recheck"
  /\ Reject(r, IF View(r) = None THEN "notfound" ELSE "precondition")

(* delete_one by _id alone: no error when nothing matches.                 *)
DeleteDoc(r) ==
  /\ pc[r] = "write" /\ op[r].kind = "delete"
  /\ Written(r, None)
  /\ pc' = [pc EXCEPT ![r] = "audit"]

Unchanged(r) == Merge(before[r].content, op[r].body) = before[r].content

(* apply_discovery on an existing CI: an unconditional update by _id, that *)
(* fails (in _serialize) when the document is gone.                        *)
DiscoverDoc(r) ==
  /\ pc[r] = "write" /\ op[r].kind = "discover" /\ before[r] # None /\ ~Unchanged(r)
  /\ View(r) # None
  /\ Written(r, [View(r) EXCEPT !.rev = before[r].rev + 1,
                                !.content = Merge(before[r].content, op[r].body),
                                !.status = "present"])
  /\ pc' = [pc EXCEPT ![r] = "audit"]

(* ... and when nothing changed: provenance only, no audit and no event.   *)
RefreshDoc(r) ==
  /\ pc[r] = "write" /\ op[r].kind = "discover" /\ before[r] # None /\ Unchanged(r)
  /\ Written(r, IF View(r) = None THEN None ELSE [View(r) EXCEPT !.status = "present"])
  /\ pc' = [pc EXCEPT ![r] = "commit"]

(* Fault: mark_missing flags the CI without a new revision.                *)
MissingDocSameRevision(r) ==
  /\ pc[r] = "write" /\ op[r].kind = "missing"
  /\ View(r) # None
  /\ Written(r, [View(r) EXCEPT !.status = "missing"])
  /\ pc' = [pc EXCEPT ![r] = "audit"]

MissingDoc(r) ==
  /\ pc[r] = "write" /\ op[r].kind = "missing"
  /\ View(r) # None
  /\ Written(r, [View(r) EXCEPT !.rev = before[r].rev + 1, !.status = "missing"])
  /\ pc' = [pc EXCEPT ![r] = "audit"]

(***************************************************************************)
(* AuditLog.record, Outbox.add, and the end of the "async with" block.     *)
(***************************************************************************)
RecordAudit(r) ==
  /\ pc[r] = "audit"
  /\ StoreEntry(r, [req |-> r, before |-> before[r], after |-> after[r]])
  /\ pc' = [pc EXCEPT ![r] = "outbox"]
  /\ UNCHANGED <<doc, used, outbox, op, seen, target, before, after, stale, resp>>

(* Fault: the event carries the document as it was before the update.      *)
EventOfBefore(r) ==
  [kind |-> "updated", payload |-> IF before[r] = None THEN after[r] ELSE before[r]]

EventOf(r) ==
  IF after[r] = None THEN [kind |-> "deleted", payload |-> before[r]]
  ELSE [kind |-> CASE before[r] = None -> "created"
                   [] op[r].kind = "missing" -> "missing"
                   [] OTHER -> "updated",
        payload |-> after[r]]

AddToOutbox(r) ==
  /\ pc[r] = "outbox"
  /\ StoreEvent(r, EventOf(r))
  /\ pc' = [pc EXCEPT ![r] = "commit"]
  /\ UNCHANGED <<doc, used, audit, op, seen, target, before, after, stale, resp>>

Extend(log, x) == IF x = None THEN log ELSE Append(log, x)

(* The commit may succeed and its acknowledgement be lost.                 *)
Commit(r) ==
  /\ pc[r] = "commit"
  /\ LET c == target[r] IN
     /\ doc' = IF pend[r].doc = {} THEN doc
               ELSE [doc EXCEPT ![c] = CHOOSE d \in pend[r].doc : TRUE]
     /\ audit' = [audit EXCEPT ![c] = Extend(@, pend[r].entry)]
     /\ outbox' = [outbox EXCEPT ![c] = Extend(@, pend[r].event)]
     /\ stale' = [q \in Req |-> stale[q] \/ (pc[q] = "write" /\ target[q] = c /\ pend[r].doc # {})]
  /\ \E a \in {"ok", "error"} : Finish(r, a)
  /\ UNCHANGED <<used, op, seen, target>>

(* Any await may raise, and the worker may die: the steps that remain are  *)
(* not taken.  A transaction leaves nothing behind.                        *)
Fail(r) ==
  /\ pc[r] \in {"read", "write", "recheck", "audit", "outbox", "commit"}
  /\ Reject(r, "error")

(* Every request that was sent is answered.                                *)
Quiet == (\A r \in Req : pc[r] \in {"idle", "done"}) /\ UNCHANGED vars

Handle(r) ==
  \/ ReadById(r) \/ ReadByExt(r) \/ NewId(r)
  \/ InsertDoc(r) \/ UpdateDoc(r) \/ CasMisses(r) \/ Recheck(r)
  \/ DeleteDoc(r) \/ DiscoverDoc(r) \/ RefreshDoc(r) \/ MissingDoc(r)
  \/ RecordAudit(r) \/ AddToOutbox(r) \/ Commit(r) \/ Fail(r)

Next ==
  \/ \E r \in Req :
       \/ \E c \in Ci : Get(r, c) \/ SendMissing(r, c)
       \/ \E c \in Ci, kind \in ClientKinds, body \in Bodies \cup {NoBody} :
            \E etag \in IfMatch(r) : Send(r, c, kind, body, etag)
       \/ \E body \in Bodies : SendCreate(r, body)
       \/ \E x \in Ext, body \in Bodies : SendDiscover(r, x, body)
       \/ Handle(r)
  \/ Quiet

Spec == Init /\ [][Next]_vars

(***************************************************************************)
(* Properties.                                                             *)
(***************************************************************************)
(* Every variable keeps its shape.                                         *)
TypeOK ==
  /\ doc \in [Ci -> Doc \cup {None}]
  /\ used \in SUBSET Ci
  /\ audit \in [Ci -> Seq(Entry)]
  /\ outbox \in [Ci -> Seq(Event)]
  /\ pc \in [Req -> Steps]
  /\ op \in [Req -> Request \cup {NoOp}]
  /\ seen \in [Req -> [rev : Nat \ {0}, content : Content] \cup {None}]
  /\ target \in [Req -> Ci \cup {None}]
  /\ before \in [Req -> Doc \cup {None}]
  /\ after \in [Req -> Doc \cup {None}]
  /\ pend \in [Req -> Pending]
  /\ stale \in [Req -> BOOLEAN]
  /\ resp \in [Req -> Replies]

(* The CI change, its audit record and its outbox event are one unit of    *)
(* work: the records and the events of a CI pair up, at any moment.        *)
UnitOfWork ==
  \A c \in Ci :
    /\ Len(audit[c]) = Len(outbox[c])
    /\ \A i \in DOMAIN audit[c] :
         outbox[c][i].payload =
           IF audit[c][i].after = None THEN audit[c][i].before ELSE audit[c][i].after

(* What an audit record says of a version: provenance, which an unchanged  *)
(* discovery refreshes without a record, is left out.                      *)
SameVersion(d, e) ==
  \/ d = None /\ e = None
  \/ d # None /\ e # None /\ d.rev = e.rev /\ d.content = e.content

(* The audit log is the whole lineage of a CI: it starts with a creation,  *)
(* each record starts from what the one before left, a CI is deleted at    *)
(* most once, and the last record leaves what is stored now.               *)
AuditChain ==
  \A c \in Ci :
    /\ audit[c] = <<>> => doc[c] = None
    /\ audit[c] # <<>> => /\ audit[c][1].before = None
                         /\ SameVersion(audit[c][Len(audit[c])].after, doc[c])
    /\ \A i \in 1..(Len(audit[c]) - 1) :
         /\ audit[c][i].after # None
         /\ SameVersion(audit[c][i].after, audit[c][i + 1].before)

(* An ETag names one version: a client that still holds the current        *)
(* revision number has the current content.                                *)
RevisionIdentifiesContent ==
  \A r \in Req :
    (seen[r] # None /\ Live(target[r]) /\ doc[target[r]].rev = seen[r].rev)
       => doc[target[r]].content = seen[r].content

(* The request that this step advances.                                    *)
Moves(r) == pc'[r] # pc[r]

(* Optimistic concurrency: a write whose If-Match is the ETag its client   *)
(* fetched replaces or deletes exactly the version that client saw.        *)
NoLostUpdate ==
  [][\A r \in Req :
       (/\ Moves(r) /\ op[r].kind \in ClientKinds
        /\ seen[r] # None /\ op[r].etag = seen[r].rev
        /\ doc'[target[r]] # doc[target[r]])
       => /\ doc[target[r]].rev = seen[r].rev
          /\ doc[target[r]].content = seen[r].content]_vars

(* _meta.revision is monotonic, and new content has a new revision.        *)
RevisionsOnlyGrow ==
  [][\A c \in Ci :
       (Live(c) /\ doc'[c] # None)
       => /\ doc'[c].rev >= doc[c].rev
          /\ doc'[c].content # doc[c].content => doc'[c].rev > doc[c].rev]_vars

Recorded(r) == {i \in DOMAIN audit[target[r]] : audit[target[r]][i].req = r}

(* A client's 2xx means that its write has its audit record, exactly one,  *)
(* and its event; a 404 or a precondition failure that it left no record.  *)
AnswersAreTrue ==
  \A r \in Req : op[r].kind \in ClientKinds =>
    /\ resp[r] = "ok" =>
         \E i \in Recorded(r) :
           /\ Recorded(r) = {i}
           /\ \E k \in DOMAIN outbox[target[r]] :
                outbox[target[r]][k].payload =
                  IF op[r].kind = "delete" THEN audit[target[r]][i].before
                                           ELSE audit[target[r]][i].after
    /\ resp[r] \in {"notfound", "precondition"} => Recorded(r) = {}

(***************************************************************************)
(* Refinement: with transactions the store is the ledger of CILedger.      *)
(***************************************************************************)
Version(d) == IF d = None THEN None ELSE [rev |-> d.rev, content |-> d.content]

Ledger == INSTANCE CILedger WITH
  version <- [c \in Ci |-> Version(doc[c])],
  log <- [c \in Ci |-> [i \in DOMAIN audit[c] |->
            [before |-> Version(audit[c][i].before), after |-> Version(audit[c][i].after)]]],
  feed <- [c \in Ci |-> [i \in DOMAIN outbox[c] |-> Version(outbox[c][i].payload)]]

(* Every step of a request changes one CI together with its lineage and    *)
(* its feed, or none of them.                                              *)
ImplementsLedger == Ledger!Spec
=============================================================================
