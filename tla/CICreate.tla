------------------------------ MODULE CICreate -----------------------------
(***************************************************************************)
(* POST with an Idempotency-Key: CIRepository.create and IdempotencyStore  *)
(* (src/cmdboss/repository.py, idempotency.py).                            *)
(*                                                                         *)
(* A client that gets no answer, or an error, sends the request again with *)
(* the same key, and the attempts of one operation may run at the same     *)
(* time on several workers.  An attempt creates at most one CI, so the CI  *)
(* it creates is named after it.  The key record of k is None when there   *)
(* is none, Pending while claimed, and the CI whose creation it replays    *)
(* once done.                                                              *)
(***************************************************************************)
EXTENDS Naturals, FiniteSets

CONSTANTS Req,         \* attempts
          Key,         \* idempotency keys
          KeyOf,       \* the key each attempt carries
          TxnEnabled,  \* does the deployment support transactions
          Expiring,    \* the keys that may expire within the time observed
          None, Pending

ASSUME CreateAssumption ==
  /\ KeyOf \in [Req -> Key]
  /\ TxnEnabled \in BOOLEAN /\ Expiring \subseteq Key
  /\ \A r \in Req : r \notin {None, Pending, "none", "conflict", "error"}
  /\ None # Pending

VARIABLES
  idem,    \* idem[k]: the record of key k
  cis,     \* the CIs that exist
  audit,   \* those with a "create" audit record
  outbox,  \* those with a "ci.created" event
  pc,      \* pc[r]: the next step of attempt r
  pend,    \* pend[r]: the writes held back by r's open session
  resp     \* resp[r]: the CI answered, or "conflict", "error", "none"

vars == <<idem, cis, audit, outbox, pc, pend, resp>>

Steps == {"idle", "get", "claim", "reget", "insert", "audit", "outbox", "store",
          "commit", "release", "orphan", "done"}
Inside == {"insert", "audit", "outbox", "store", "commit"}
Claiming == Inside \cup {"release"}
Writes == {"ci", "audit", "event", "key"}

Init ==
  /\ idem = [k \in Key |-> None]
  /\ cis = {} /\ audit = {} /\ outbox = {}
  /\ pc = [r \in Req |-> "idle"]
  /\ pend = [r \in Req |-> {}]
  /\ resp = [r \in Req |-> "none"]

Goto(r, step) == pc' = [pc EXCEPT ![r] = step]

Answer(r, a) ==
  /\ Goto(r, "done")
  /\ resp' = [resp EXCEPT ![r] = a]

Store == <<idem, cis, audit, outbox>>

Send(r) ==
  /\ pc[r] = "idle"
  /\ Goto(r, "get")
  /\ UNCHANGED <<Store, pend, resp>>

(***************************************************************************)
(* _idempotency_precheck.                                                  *)
(***************************************************************************)
(* A record that is done is replayed, one that is pending is a conflict.   *)
Found(r) ==
  /\ idem[KeyOf[r]] # None
  /\ Answer(r, IF idem[KeyOf[r]] = Pending THEN "conflict" ELSE idem[KeyOf[r]])
  /\ UNCHANGED <<Store, pend>>

GetKey(r) ==
  /\ pc[r] = "get"
  /\ \/ Found(r)
     \/ /\ idem[KeyOf[r]] = None
        /\ Goto(r, "claim")
        /\ UNCHANGED <<Store, pend, resp>>

(* Fault: the claim overwrites (an upsert, or no unique _id).              *)
ClaimBlindly(r) ==
  /\ pc[r] = "claim"
  /\ idem' = [idem EXCEPT ![KeyOf[r]] = Pending]
  /\ Goto(r, "insert")
  /\ UNCHANGED <<cis, audit, outbox, pend, resp>>

(* The claim is an insert under a unique _id, outside the transaction.     *)
Claim(r) ==
  /\ pc[r] = "claim"
  /\ IF idem[KeyOf[r]] = None
       THEN /\ idem' = [idem EXCEPT ![KeyOf[r]] = Pending]
            /\ Goto(r, "insert")
       ELSE /\ UNCHANGED idem
            /\ Goto(r, "reget")
  /\ UNCHANGED <<cis, audit, outbox, pend, resp>>

(* The loser of the claim reads the record again; it may be gone by then.  *)
GetAgain(r) ==
  /\ pc[r] = "reget"
  /\ \/ Found(r)
     \/ /\ idem[KeyOf[r]] = None
        /\ Answer(r, "conflict")
        /\ UNCHANGED <<Store, pend>>

(***************************************************************************)
(* The unit of work.                                                       *)
(***************************************************************************)
(* The effect of the writes w of attempt r on the store; store_result is   *)
(* an update without upsert, by key alone.                                 *)
Apply(r, w) ==
  /\ cis' = IF "ci" \in w THEN cis \cup {r} ELSE cis
  /\ audit' = IF "audit" \in w THEN audit \cup {r} ELSE audit
  /\ outbox' = IF "event" \in w THEN outbox \cup {r} ELSE outbox
  /\ idem' = IF "key" \in w /\ idem[KeyOf[r]] # None
               THEN [idem EXCEPT ![KeyOf[r]] = r] ELSE idem

Write(r, here, write, next) ==
  /\ pc[r] = here
  /\ IF TxnEnabled
       THEN /\ pend' = [pend EXCEPT ![r] = @ \cup {write}]
            /\ UNCHANGED Store
       ELSE /\ Apply(r, {write})
            /\ UNCHANGED pend
  /\ Goto(r, next)
  /\ UNCHANGED resp

InsertCi(r) == Write(r, "insert", "ci", "audit")
RecordAudit(r) == Write(r, "audit", "audit", "outbox")

(* Fault: Outbox.add is left out of create.                                *)
AddToOutboxForgotten(r) ==
  pc[r] = "outbox" /\ Goto(r, "store") /\ UNCHANGED <<Store, pend, resp>>

AddToOutbox(r) == Write(r, "outbox", "event", "store")

(* Fault: store_result without the session.                                *)
StoreResultNoSession(r) ==
  /\ pc[r] = "store"
  /\ Apply(r, {"key"})
  /\ Goto(r, "commit")
  /\ UNCHANGED <<pend, resp>>

(* Fault: store_result is left out of create.                              *)
StoreResultForgotten(r) ==
  pc[r] = "store" /\ Goto(r, "commit") /\ UNCHANGED <<Store, pend, resp>>

StoreResult(r) == Write(r, "store", "key", "commit")

(* The commit may succeed and still raise, its acknowledgement lost: then  *)
(* the claim is released like after any exception.                         *)
Commit(r) ==
  /\ pc[r] = "commit"
  /\ Apply(r, pend[r])
  /\ pend' = [pend EXCEPT ![r] = {}]
  /\ \/ Answer(r, r)
     \/ TxnEnabled /\ Goto(r, "release") /\ UNCHANGED resp

(* Fault: an exception is passed on without a release.                     *)
RaiseUnreleased(r) ==
  /\ pc[r] \in Inside /\ (TxnEnabled \/ pc[r] # "commit")
  /\ pend' = [pend EXCEPT ![r] = {}]
  /\ Answer(r, "error")
  /\ UNCHANGED Store

(* Any await of the unit of work may raise; the transaction aborts.        *)
(* Without transactions there is nothing to await after store_result.      *)
Raise(r) ==
  /\ pc[r] \in Inside /\ (TxnEnabled \/ pc[r] # "commit")
  /\ pend' = [pend EXCEPT ![r] = {}]
  /\ Goto(r, "release")
  /\ UNCHANGED <<Store, resp>>

(* release deletes the record if it is still pending.                      *)
Release(r) ==
  /\ pc[r] = "release"
  /\ idem' = [idem EXCEPT ![KeyOf[r]] = IF @ = Pending THEN None ELSE @]
  /\ Answer(r, "error")
  /\ UNCHANGED <<cis, audit, outbox, pend>>

(* The worker dies, the request is cancelled (CancelledError is no         *)
(* Exception), or release itself fails: nothing more is done, and a claim  *)
(* the attempt had made is orphaned.                                       *)
Die(r) ==
  /\ pc[r] \notin {"idle", "orphan", "done"}
  /\ pend' = [pend EXCEPT ![r] = {}]
  /\ Goto(r, IF pc[r] \in Claiming THEN "orphan" ELSE "done")
  /\ resp' = [resp EXCEPT ![r] = "error"]
  /\ UNCHANGED Store

(* The TTL index removes a record, whatever its status.                    *)
Expire(k) ==
  /\ k \in Expiring /\ idem[k] # None
  /\ idem' = [idem EXCEPT ![k] = None]
  /\ UNCHANGED <<cis, audit, outbox, pc, pend, resp>>

AllDone == (\A r \in Req : pc[r] \in {"orphan", "done"}) /\ UNCHANGED vars

Handle(r) ==
  \/ GetKey(r) \/ Claim(r) \/ GetAgain(r)
  \/ InsertCi(r) \/ RecordAudit(r) \/ AddToOutbox(r) \/ StoreResult(r)
  \/ Commit(r) \/ Raise(r) \/ Release(r)

Next ==
  \/ \E r \in Req : Send(r) \/ Handle(r) \/ Die(r)
  \/ \E k \in Key : Expire(k)
  \/ AllDone

Spec == Init /\ [][Next]_vars

(* A worker that runs goes on with its requests.  Nothing is assumed of    *)
(* the TTL: a record may outlive every request.                            *)
FairSpec == Spec /\ \A r \in Req : WF_vars(Handle(r))

(***************************************************************************)
(* Properties.                                                             *)
(***************************************************************************)
TypeOK ==
  /\ idem \in [Key -> Req \cup {None, Pending}]
  /\ cis \subseteq Req /\ audit \subseteq Req /\ outbox \subseteq Req
  /\ pc \in [Req -> Steps]
  /\ pend \in [Req -> SUBSET Writes]
  /\ resp \in [Req -> Req \cup {"none", "conflict", "error"}]

(* Retried POSTs do not duplicate CIs, as long as their key lives.         *)
AtMostOneCi ==
  \A q, r \in cis : KeyOf[q] = KeyOf[r] /\ KeyOf[q] \notin Expiring => q = r

(* Whatever attempt is answered with a CI is answered with a CI of its     *)
(* key, the one CI if the key lives, and that CI exists with its audit     *)
(* record and its event.                                                   *)
ReplayIsFaithful ==
  \A r \in Req : resp[r] \in Req =>
    /\ KeyOf[resp[r]] = KeyOf[r]
    /\ resp[r] \in cis /\ resp[r] \in audit /\ resp[r] \in outbox
    /\ \A q \in Req :
         (KeyOf[q] = KeyOf[r] /\ KeyOf[r] \notin Expiring /\ resp[q] \in Req)
           => resp[q] = resp[r]

(* A key that is done replays a creation that is complete.                 *)
DoneIsDurable ==
  \A k \in Key : idem[k] \in Req => idem[k] \in cis /\ idem[k] \in audit /\ idem[k] \in outbox

(* No claim is left behind by an attempt that ran to its end, however its  *)
(* unit of work ended: it is in use, or its attempt died and only the TTL  *)
(* index can end it.                                                       *)
ClaimsAreHeld ==
  \A k \in Key : idem[k] = Pending =>
    \E r \in Req : KeyOf[r] = k /\ pc[r] \in Claiming \cup {"orphan"}

(* So a retry is not refused for ever as "in progress": every claim ends,  *)
(* completed or released, without the TTL, unless its attempt died.        *)
ClaimsEnd ==
  \A k \in Key : (idem[k] = Pending) ~>
    (idem[k] # Pending \/ \E r \in Req : KeyOf[r] = k /\ pc[r] = "orphan")
=============================================================================
