--------------------------- MODULE CICreateProofs ---------------------------
(***************************************************************************)
(* Idempotent creation, for any number of attempts and keys, any of which  *)
(* may expire, when the deployment has transactions.                       *)
(*                                                                         *)
(* AtMostOneCi alone is not inductive: that a second CI cannot be created  *)
(* depends on the key record, which an attempt in its unit of work holds   *)
(* as Pending, alone, until its commit turns it into the CI it created.    *)
(***************************************************************************)
EXTENDS CICreate, TLAPS

Lasting(r) == KeyOf[r] \notin Expiring
Holds(r) == pc[r] \in Claiming /\ Lasting(r)
Complete(r) == r \in cis /\ r \in audit /\ r \in outbox

(* The writes an attempt has made when it is about to take a given step.   *)
Made(step) ==
  CASE step = "audit" -> {"ci"}
    [] step = "outbox" -> {"ci", "audit"}
    [] step = "store" -> {"ci", "audit", "event"}
    [] step = "commit" -> Writes
    [] OTHER -> {}

(* One attempt at a time holds a key that lives.                           *)
Alone ==
  /\ \A r \in Req : Holds(r) => idem[KeyOf[r]] # None
  /\ \A r \in Req : pc[r] \in Inside /\ Lasting(r) => idem[KeyOf[r]] = Pending
  /\ \A q, r \in Req : Holds(q) /\ Holds(r) /\ KeyOf[q] = KeyOf[r] => q = r

(* The key of a CI says so, and a key that is done has a complete CI.      *)
Keyed ==
  /\ \A r \in cis : Lasting(r) => idem[KeyOf[r]] = r
  /\ \A k \in Key : idem[k] \in Req =>
       KeyOf[idem[k]] = k /\ Complete(idem[k])

Held == \A r \in Req : pend[r] = Made(pc[r])

Answered ==
  \A r \in Req : resp[r] \in Req =>
    /\ KeyOf[resp[r]] = KeyOf[r] /\ Complete(resp[r])
    /\ Lasting(r) => idem[KeyOf[r]] = resp[r]

IInv == TypeOK /\ Alone /\ Keyed /\ Held /\ Answered /\ ClaimsAreHeld

LEMMA InitHolds == Init => IInv
<1>1. Init => ClaimsAreHeld
  BY CreateAssumption DEF Init, ClaimsAreHeld
<1>2. Init => TypeOK /\ Alone /\ Keyed /\ Held /\ Answered
  BY CreateAssumption
     DEF Init, TypeOK, Alone, Keyed, Held, Answered, Holds, Made, Claiming, Inside, Steps
<1> QED BY <1>1, <1>2 DEF IInv

(* A step that leaves the store and the held writes alone, and moves one   *)
(* attempt that holds no key, or keeps its hold, preserves the invariant.  *)
LEMMA QuietStep ==
  ASSUME IInv, NEW r \in Req, NEW step \in Steps, NEW a \in Req \cup {"none", "conflict", "error"},
         pc' = [pc EXCEPT ![r] = step],
         UNCHANGED Store,
         pend' = [pend EXCEPT ![r] = {}],
         Made(step) = {},
         step \notin Inside,
         step = "release" => pc[r] \in Inside,
         pc[r] # "orphan",
         pc[r] \in Claiming => step \in {"release", "orphan"} \/ idem[KeyOf[r]] # Pending,
         resp' = [resp EXCEPT ![r] = a],
         a = resp[r] \/ (a \in Req => idem[KeyOf[r]] = a)
  PROVE  IInv'
<1> USE CreateAssumption DEF Lasting, Complete, IInv, TypeOK, Store
<1>1. TypeOK'
  OBVIOUS
<1>2. Alone'
  BY DEF Alone, Holds, Claiming, Inside, Steps
<1>3. Keyed'
  BY DEF Keyed
<1>4. Held'
  BY DEF Held
<1>5. Answered'
  <2>1. ASSUME NEW q \in Req, q # r PROVE resp'[q] = resp[q]
    BY <2>1
  <2>2. resp'[r] = a
    OBVIOUS
  <2>3. (a \in Req /\ idem[KeyOf[r]] = a) => KeyOf[a] = KeyOf[r] /\ Complete(a)
    <3>1. KeyOf[r] \in Key /\ Keyed
      OBVIOUS
    <3> HIDE DEF IInv, TypeOK, Complete
    <3> QED BY <3>1 DEF Keyed
  <2>4. UNCHANGED <<idem, cis, audit, outbox>> /\ resp' \in [Req -> Req \cup {"none", "conflict", "error"}]
    BY <1>1
  <2>5. ASSUME NEW q \in Req, resp'[q] \in Req
        PROVE  /\ KeyOf[resp'[q]] = KeyOf[q] /\ Complete(resp'[q])
               /\ Lasting(q) => idem[KeyOf[q]] = resp'[q]
    <3>1. CASE q # r \/ a = resp[r]
      BY <2>1, <2>2, <2>5, <3>1 DEF Answered
    <3>2. CASE q = r /\ idem[KeyOf[r]] = a
      BY <2>2, <2>3, <2>5, <3>2
    <3> QED BY <2>2, <2>5, <3>1, <3>2
  <2> QED BY <2>4, <2>5 DEF Answered
<1>6. ClaimsAreHeld'
  <2> SUFFICES ASSUME NEW k \in Key, idem[k] = Pending
               PROVE  \E q \in Req : KeyOf[q] = k /\ pc'[q] \in Claiming \cup {"orphan"}
    BY DEF ClaimsAreHeld
  <2>1. PICK q \in Req : KeyOf[q] = k /\ pc[q] \in Claiming \cup {"orphan"}
    BY DEF ClaimsAreHeld
  <2>2. CASE q # r
    BY <2>1, <2>2
  <2>3. CASE q = r
    BY <2>1, <2>3 DEF Claiming
  <2> QED BY <2>2, <2>3
<1> QED BY <1>1, <1>2, <1>3, <1>4, <1>5, <1>6

(* One write of the unit of work, held back by the session.                *)
LEMMA WriteStep ==
  ASSUME TxnEnabled, IInv, NEW r \in Req,
         NEW here \in {"insert", "audit", "outbox", "store"},
         NEW write \in Writes, NEW next \in {"audit", "outbox", "store", "commit"},
         Made(next) = Made(here) \cup {write},
         Write(r, here, write, next)
  PROVE  IInv'
<1> USE CreateAssumption DEF Lasting, Complete, IInv, TypeOK, Store, Write, Goto
<1>1. TypeOK'
  BY DEF Steps
<1>2. Alone'
  BY DEF Alone, Holds, Claiming, Inside
<1>3. Keyed'
  BY DEF Keyed
<1>4. Held'
  BY DEF Held
<1>5. Answered'
  BY DEF Answered
<1>6. ClaimsAreHeld'
  <2>1. pc[r] \in Claiming /\ pc'[r] \in Claiming /\ \A q \in Req \ {r} : pc'[q] = pc[q]
    BY DEF Claiming, Inside
  <2>2. \A q \in Req : pc[q] \in Claiming \cup {"orphan"} => pc'[q] \in Claiming \cup {"orphan"}
    BY <2>1
  <2> QED BY <2>2 DEF ClaimsAreHeld
<1> QED BY <1>1, <1>2, <1>3, <1>4, <1>5, <1>6

LEMMA ClaimStep ==
  ASSUME IInv, NEW r \in Req, Claim(r)
  PROVE  IInv'
<1> USE CreateAssumption DEF Lasting, Complete, IInv, TypeOK
<1>1. CASE idem[KeyOf[r]] = None
  <2>1. /\ pc[r] = "claim" /\ pc' = [pc EXCEPT ![r] = "insert"]
        /\ idem' = [idem EXCEPT ![KeyOf[r]] = Pending]
        /\ UNCHANGED <<cis, audit, outbox, pend, resp>>
    BY <1>1 DEF Claim, Goto
  <2>2. TypeOK'
    BY <2>1 DEF Steps
  <2>3. \A q \in Req : Holds(q) => KeyOf[q] # KeyOf[r]
    BY <1>1 DEF Alone
  <2>4. Alone'
    BY <1>1, <2>1, <2>3 DEF Alone, Holds, Claiming, Inside
  <2>5. Keyed'
    BY <1>1, <2>1 DEF Keyed
  <2>6. Held'
    BY <2>1 DEF Held, Made
  <2>7. Answered'
    BY <1>1, <2>1 DEF Answered
  <2>8. ClaimsAreHeld'
    <3>1. pc'[r] \in Claiming /\ \A q \in Req : pc[q] \in Claiming \cup {"orphan"} => pc'[q] = pc[q]
      BY <2>1 DEF Claiming, Inside
    <3>2. \A k \in Key : k # KeyOf[r] => idem'[k] = idem[k]
      BY <2>1
    <3> HIDE DEF IInv, TypeOK
    <3> QED BY <3>1, <3>2 DEF ClaimsAreHeld, IInv
  <2> QED BY <2>2, <2>4, <2>5, <2>6, <2>7, <2>8
<1>2. CASE idem[KeyOf[r]] # None
  <2>1. pend' = [pend EXCEPT ![r] = {}] /\ resp' = [resp EXCEPT ![r] = resp[r]]
    BY <1>2 DEF Claim, Held, Made
  <2>2. pc' = [pc EXCEPT ![r] = "reget"] /\ UNCHANGED Store
    BY <1>2 DEF Claim, Goto, Store
  <2>3. resp[r] \in Req \cup {"none", "conflict", "error"}
    OBVIOUS
  <2>4. "reget" \in Steps /\ "reget" \notin Inside /\ Made("reget") = {}
    BY DEF Steps, Inside, Made
  <2>5. pc[r] \notin Claiming /\ pc[r] # "orphan"
    BY DEF Claim, Claiming, Inside
  <2> HIDE DEF IInv, TypeOK
  <2> QED BY <2>1, <2>2, <2>3, <2>4, <2>5, QuietStep
<1> QED BY <1>1, <1>2

LEMMA CommitStep ==
  ASSUME TxnEnabled, IInv, NEW r \in Req, Commit(r)
  PROVE  IInv'
<1> USE CreateAssumption DEF Lasting, Complete, IInv, TypeOK
<1>1. /\ pc[r] = "commit" /\ pend[r] = Writes
      /\ Lasting(r) => idem[KeyOf[r]] = Pending
  BY DEF Commit, Held, Made, Alone, Inside
<1>2. /\ cis' = cis \cup {r} /\ audit' = audit \cup {r} /\ outbox' = outbox \cup {r}
      /\ idem' = IF idem[KeyOf[r]] # None THEN [idem EXCEPT ![KeyOf[r]] = r] ELSE idem
      /\ pend' = [pend EXCEPT ![r] = {}]
  BY <1>1 DEF Commit, Apply, Writes
<1>3. PICK step \in {"done", "release"}, a \in {r, resp[r]} :
        pc' = [pc EXCEPT ![r] = step] /\ resp' = [resp EXCEPT ![r] = a]
  BY DEF Commit, Answer, Goto
<1>4. TypeOK'
  BY <1>2, <1>3 DEF Steps
<1>5. Alone'
  BY <1>1, <1>2, <1>3 DEF Alone, Holds, Claiming, Inside
<1>6. \A q \in cis : Lasting(q) => KeyOf[q] # KeyOf[r]
  BY <1>1 DEF Keyed
<1>7. Keyed'
  <2>1. \A q \in cis' : Lasting(q) => idem'[KeyOf[q]] = q
    BY <1>1, <1>2, <1>6 DEF Keyed
  <2>2. \A k \in Key : idem'[k] \in Req => 
         /\ KeyOf[idem'[k]] = k
         /\ idem'[k] \in cis' /\ idem'[k] \in audit' /\ idem'[k] \in outbox'
    BY <1>2 DEF Keyed
  <2> QED BY <2>1, <2>2 DEF Keyed
<1>8. Held'
  BY <1>2, <1>3 DEF Held, Made
<1>9. \A q \in Req : resp[q] \in Req /\ Lasting(q) => KeyOf[q] # KeyOf[r]
  BY <1>1 DEF Answered
<1>10. Answered'
  BY <1>1, <1>2, <1>3, <1>9 DEF Answered
<1>11. ClaimsAreHeld'
  <2> SUFFICES ASSUME NEW k \in Key, idem'[k] = Pending
               PROVE  \E q \in Req : KeyOf[q] = k /\ pc'[q] \in Claiming \cup {"orphan"}
    BY DEF ClaimsAreHeld
  <2>1. k # KeyOf[r] /\ idem[k] = Pending
    BY <1>2
  <2>2. PICK q \in Req : KeyOf[q] = k /\ pc[q] \in Claiming \cup {"orphan"}
    BY <2>1 DEF ClaimsAreHeld
  <2> QED BY <1>3, <2>1, <2>2
<1> QED BY <1>4, <1>5, <1>7, <1>8, <1>10, <1>11

LEMMA ReleaseStep ==
  ASSUME IInv, NEW r \in Req, Release(r)
  PROVE  IInv'
<1> USE CreateAssumption DEF Lasting, Complete, IInv, TypeOK, Release, Answer, Goto
<1>1. CASE idem[KeyOf[r]] = Pending
  <2> USE <1>1
  <2>1. TypeOK'
    BY DEF Steps
  <2>2. \A q \in Req : Holds(q) /\ KeyOf[q] = KeyOf[r] => q = r
    BY DEF Alone, Holds, Claiming, Inside
  <2>3. Alone'
    BY <2>2 DEF Alone, Holds, Claiming, Inside
  <2>4. Keyed'
    BY DEF Keyed
  <2>5. Held'
    BY DEF Held, Made
  <2>6. Answered'
    BY DEF Answered
  <2>7. ClaimsAreHeld'
    <3> SUFFICES ASSUME NEW k \in Key, idem'[k] = Pending
                 PROVE  \E q \in Req : KeyOf[q] = k /\ pc'[q] \in Claiming \cup {"orphan"}
      BY DEF ClaimsAreHeld
    <3>1. k # KeyOf[r] /\ idem[k] = Pending
      OBVIOUS
    <3>2. PICK q \in Req : KeyOf[q] = k /\ pc[q] \in Claiming \cup {"orphan"}
      BY <3>1 DEF ClaimsAreHeld
    <3> QED BY <3>1, <3>2
  <2> QED BY <2>1, <2>3, <2>4, <2>5, <2>6, <2>7
<1>2. CASE idem[KeyOf[r]] # Pending
  <2>1. idem' = idem /\ pend' = [pend EXCEPT ![r] = {}]
    BY <1>2 DEF Held, Made
  <2> QED BY <1>2, <2>1, QuietStep DEF Store, Steps, Inside, Made
<1> QED BY <1>1, <1>2

LEMMA StepHolds ==
  ASSUME TxnEnabled, IInv, [Next]_vars
  PROVE  IInv'
<1> USE CreateAssumption DEF Lasting, Complete
<1>1. CASE UNCHANGED vars
  <2> USE <1>1 DEF vars, IInv
  <2>1. TypeOK'
    BY DEF TypeOK
  <2>2. Alone'
    BY DEF Alone, Holds
  <2>3. Keyed'
    BY DEF Keyed
  <2>4. Held' /\ Answered' /\ ClaimsAreHeld'
    BY DEF Held, Answered, ClaimsAreHeld
  <2> QED BY <2>1, <2>2, <2>3, <2>4
<1>2. ASSUME NEW r \in Req, Send(r) PROVE IInv'
  <2>1. pend' = [pend EXCEPT ![r] = {}] /\ resp' = [resp EXCEPT ![r] = resp[r]]
    BY <1>2 DEF Send, IInv, TypeOK, Held, Made
  <2>2. pc' = [pc EXCEPT ![r] = "get"] /\ UNCHANGED Store
    BY <1>2 DEF Send, Goto, Store
  <2>3. "get" \in Steps /\ "get" \notin Inside /\ Made("get") = {}
    BY DEF Steps, Inside, Made
  <2>4. resp[r] \in Req \cup {"none", "conflict", "error"}
    BY DEF IInv, TypeOK
  <2>5. pc[r] \notin Claiming /\ pc[r] # "orphan"
    BY <1>2 DEF Send, Claiming, Inside
  <2> QED BY <2>1, <2>2, <2>3, <2>4, <2>5, QuietStep
<1>3. ASSUME NEW r \in Req, Found(r), pc[r] \in {"get", "reget"} PROVE IInv'
  <2>1. pend' = [pend EXCEPT ![r] = {}]
    BY <1>3 DEF Found, IInv, TypeOK, Held, Made
  <2> QED BY <1>3, <2>1, QuietStep
          DEF Found, Answer, Goto, Steps, Claiming, Inside, Made, IInv, TypeOK
<1>4. ASSUME NEW r \in Req, GetKey(r) PROVE IInv'
  <2>1. CASE idem[KeyOf[r]] = None
    <3>1. pend' = [pend EXCEPT ![r] = {}] /\ resp' = [resp EXCEPT ![r] = resp[r]]
      BY <1>4, <2>1 DEF GetKey, Found, IInv, TypeOK, Held, Made
    <3> QED BY <1>4, <2>1, <3>1, QuietStep
            DEF GetKey, Found, Goto, Steps, Claiming, Inside, Made, IInv, TypeOK, Answered
  <2> QED BY <1>3, <1>4, <2>1 DEF GetKey
<1>5. ASSUME NEW r \in Req, GetAgain(r) PROVE IInv'
  <2>1. CASE idem[KeyOf[r]] = None
    <3>1. pend' = [pend EXCEPT ![r] = {}]
      BY <1>5, <2>1 DEF GetAgain, Found, IInv, TypeOK, Held, Made
    <3> QED BY <1>5, <2>1, <3>1, QuietStep
            DEF GetAgain, Found, Answer, Goto, Steps, Claiming, Inside, Made
  <2> QED BY <1>3, <1>5, <2>1 DEF GetAgain
<1>6. ASSUME NEW r \in Req, InsertCi(r) PROVE IInv'
  BY <1>6, WriteStep DEF InsertCi, Made, Writes
<1>7. ASSUME NEW r \in Req, RecordAudit(r) PROVE IInv'
  BY <1>7, WriteStep DEF RecordAudit, Made, Writes
<1>8. ASSUME NEW r \in Req, AddToOutbox(r) PROVE IInv'
  BY <1>8, WriteStep DEF AddToOutbox, Made, Writes
<1>9. ASSUME NEW r \in Req, StoreResult(r) PROVE IInv'
  BY <1>9, WriteStep DEF StoreResult, Made, Writes
<1>10. ASSUME NEW r \in Req, Raise(r) PROVE IInv'
  <2>1. resp' = [resp EXCEPT ![r] = resp[r]]
    BY <1>10 DEF Raise, IInv, TypeOK
  <2> QED BY <1>10, <2>1, QuietStep DEF Raise, Goto, Steps, Claiming, Inside, Made, IInv, TypeOK, Answered
<1>11. ASSUME NEW r \in Req, Die(r) PROVE IInv'
  <2>1. PICK step \in {"orphan", "done"} :
          pc' = [pc EXCEPT ![r] = step] /\ (pc[r] \in Claiming => step = "orphan")
    BY <1>11 DEF Die, Goto
  <2>2. step \in Steps /\ Made(step) = {} /\ step \notin Inside /\ step # "release"
    BY DEF Steps, Made, Inside
  <2>3. /\ UNCHANGED Store /\ pend' = [pend EXCEPT ![r] = {}]
        /\ resp' = [resp EXCEPT ![r] = "error"] /\ "error" \notin Req /\ pc[r] # "orphan"
    BY <1>11 DEF Die
  <2> QED BY <2>1, <2>2, <2>3, QuietStep
<1>12. ASSUME NEW k \in Key, Expire(k) PROVE IInv'
  <2> USE DEF IInv, TypeOK
  <2>1. k \in Expiring /\ idem' = [idem EXCEPT ![k] = None]
        /\ UNCHANGED <<cis, audit, outbox, pc, pend, resp>>
    BY <1>12 DEF Expire
  <2>2. TypeOK'
    BY <2>1
  <2>3. Alone'
    BY <2>1 DEF Alone, Holds
  <2>4. Keyed'
    BY <2>1 DEF Keyed
  <2>5. Held' /\ Answered'
    BY <2>1 DEF Held, Answered
  <2>6. ClaimsAreHeld'
    <3>1. \A h \in Key : idem'[h] = Pending => idem[h] = Pending
      BY <2>1, CreateAssumption
    <3> QED BY <2>1, <3>1 DEF ClaimsAreHeld
  <2> QED BY <2>2, <2>3, <2>4, <2>5, <2>6
<1> QED
  BY <1>1, <1>2, <1>4, <1>5, <1>6, <1>7, <1>8, <1>9, <1>10, <1>11, <1>12,
     ClaimStep, CommitStep, ReleaseStep
  DEF Next, Handle, AllDone

LEMMA Invariance == ASSUME TxnEnabled PROVE Spec => []IInv
BY InitHolds, StepHolds, PTL DEF Spec

(* The variables have the values the code can give them.                   *)
THEOREM TypeCorrect == ASSUME TxnEnabled PROVE Spec => []TypeOK
<1>1. IInv => TypeOK
  BY DEF IInv
<1> QED BY <1>1, Invariance, PTL

(* With transactions, and while its key lives, a retried POST never        *)
(* creates a second CI (CIRepository.create, _idempotency_precheck).       *)
THEOREM AtMostOneCiHolds ==
  ASSUME TxnEnabled PROVE Spec => []AtMostOneCi
<1>1. IInv => AtMostOneCi
  BY CreateAssumption DEF IInv, Keyed, AtMostOneCi, TypeOK, Lasting
<1> QED BY <1>1, Invariance, PTL

(* ... every attempt that is answered with a CI is answered with the same  *)
(* one, which exists with its audit record and its event.                  *)
THEOREM ReplayIsFaithfulHolds ==
  ASSUME TxnEnabled PROVE Spec => []ReplayIsFaithful
<1>1. IInv => ReplayIsFaithful
  BY CreateAssumption DEF IInv, TypeOK, Keyed, Answered, ReplayIsFaithful, Lasting, Complete
<1> QED BY <1>1, Invariance, PTL

(* ... and a key that is done has a complete creation behind it.           *)
THEOREM DoneIsDurableHolds ==
  ASSUME TxnEnabled PROVE Spec => []DoneIsDurable
<1>1. IInv => DoneIsDurable
  BY DEF IInv, Keyed, DoneIsDurable, Complete
<1> QED BY <1>1, Invariance, PTL

(* ... and no claim outlives an attempt that ran to its end, whether it    *)
(* committed, raised or lost the acknowledgement of its commit.            *)
THEOREM ClaimsAreHeldHolds ==
  ASSUME TxnEnabled PROVE Spec => []ClaimsAreHeld
<1>1. IInv => ClaimsAreHeld
  BY DEF IInv
<1> QED BY <1>1, Invariance, PTL
=============================================================================
