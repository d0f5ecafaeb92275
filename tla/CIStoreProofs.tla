--------------------------- MODULE CIStoreProofs ---------------------------
(***************************************************************************)
(* Proofs about CIStore, for any requests, CIs, fields and values, and, at *)
(* the end, about Paging, the listing of the same repository, for any      *)
(* number of rows and values and any size of page.                         *)
(***************************************************************************)
EXTENDS CIStore, Paging, FiniteSetTheorems, FunctionTheorems, TLAPS

ById == {"put", "patch", "delete", "missing"}
Working == {"write", "recheck", "audit", "outbox", "commit"}

(* What the locals of a request mean at each of its steps.                 *)
Locals ==
  /\ \A c \in Ci : Live(c) => c \in used
  /\ \A r \in Req :
    /\ target[r] # None => target[r] \in used
    /\ pc[r] = "idle" <=> op[r] = NoOp
    /\ pc[r] = "idle" => before[r] = None /\ after[r] = None
    /\ pc[r] \notin {"idle", "done"} => op[r] \in Request
    /\ seen[r] # None => target[r] \in Ci
    /\ pc[r] # "idle" /\ seen[r] # None => op[r].kind \in ById
    /\ op[r].kind \in ById => target[r] \in Ci
    /\ pc[r] = "read" /\ op[r].kind = "create" => DOMAIN op[r].body = Field
    /\ pc[r] \in Working => target[r] \in Ci
    /\ pc[r] \in Working /\ op[r].kind \in ById => before[r] \in Doc
    /\ pc[r] = "write" /\ before[r] = None => op[r].body \in Content
    /\ pc[r] \in {"audit", "outbox"} => before[r] \in Doc \/ after[r] \in Doc

TypeInv == TypeOK /\ Locals

(***************************************************************************)
(* With transactions: what a request's session holds back at each step...  *)
(***************************************************************************)
EntryOf(r) == [req |-> r, before |-> before[r], after |-> after[r]]

Session(r) ==
  /\ pc[r] \in {"idle", "read", "write", "recheck", "done"} => pend[r] = NothingPending
  /\ pc[r] = "audit" => pend[r] = [doc |-> {after[r]}, entry |-> None, event |-> None]
  /\ pc[r] = "outbox" => pend[r] = [doc |-> {after[r]}, entry |-> EntryOf(r), event |-> None]
  /\ pc[r] = "commit" =>
       \/ /\ before[r] \in Doc \/ after[r] \in Doc
          /\ pend[r] = [doc |-> {after[r]}, entry |-> EntryOf(r), event |-> EventOf(r)]
       \/ /\ SameVersion(before[r], after[r])
          /\ pend[r] = [doc |-> {after[r]}, entry |-> None, event |-> None]

Sessions == TxnEnabled => \A r \in Req : Session(r)

(***************************************************************************)
(* ... what its snapshot says of the store while it is not stale: a        *)
(* request that has written excludes the others from its target ...        *)
(***************************************************************************)
Holding == {"audit", "outbox", "commit"}

Isolation ==
  TxnEnabled =>
    /\ \A r \in Req :
         /\ pc[r] = "write" /\ ~stale[r] => doc[target[r]] = before[r]
         /\ pc[r] \in Holding => doc[target[r]] = before[r]
         /\ pc[r] \in Holding /\ before[r] # None =>
              after[r] = None \/ after[r].rev >= before[r].rev
         /\ pc[r] \in Holding /\ before[r] # None /\ after[r] # None =>
              SameVersion(before[r], after[r]) \/ after[r].rev > before[r].rev
    /\ \A q, r \in Req : q # r /\ pc[q] \in Holding /\ pc[r] \in Holding
                          => target[q] # target[r]

(***************************************************************************)
(* ... and ids: only a generated id has a document or a lineage, and a new *)
(* one belongs to the request that generated it.                           *)
(***************************************************************************)
Ids ==
  TxnEnabled =>
    /\ \A c \in Ci \ used : audit[c] = <<>>
    /\ \A r \in Req : pc[r] \in Working /\ before[r] = None =>
         /\ doc[target[r]] = None /\ audit[target[r]] = <<>>
         /\ \A q \in Req \ {r} : pc[q] \in Working => target[q] # target[r]
         /\ \A q \in Req : seen[q] # None => target[q] # target[r]

(* A client's ETag is a revision its CI has had.                           *)
Etags ==
  TxnEnabled =>
    \A r \in Req : seen[r] # None /\ Live(target[r]) => 
      /\ seen[r].rev <= doc[target[r]].rev
      /\ doc[target[r]].rev = seen[r].rev => doc[target[r]].content = seen[r].content

(* A client's write goes on only from the revision in its If-Match.        *)
MatchedFor(r) ==
  (/\ op[r].etag \in Nat
   /\ \/ pc[r] \in Holding /\ op[r].kind \in ClientKinds
      \/ pc[r] = "write" /\ op[r].kind = "delete")
  => before[r].rev = op[r].etag

Matched == TxnEnabled => \A r \in Req : MatchedFor(r)

Inv == TypeInv /\ Sessions /\ Isolation /\ Ids /\ Etags /\ Matched

LEMMA AppendType ==
  ASSUME NEW S, NEW s \in Seq(S), NEW x \in S
  PROVE  Append(s, x) \in Seq(S)
OBVIOUS

LEMMA NoBodyType == NoBody \in Payload
<1>1. NoBody \in [{} -> Val] BY DEF NoBody
<1> QED BY <1>1 DEF Payload

LEMMA MergeType ==
  ASSUME NEW content \in Content, NEW body \in Payload
  PROVE  Merge(content, body) \in Content
<1>1. PICK F \in SUBSET Field : body \in [F -> Val] BY DEF Payload
<1> QED BY <1>1 DEF Merge, Content

LEMMA FirstDocType ==
  ASSUME NEW x \in Ext \cup {None}, NEW v \in Content
  PROVE  FirstDoc(x, v) \in Doc
BY DEF FirstDoc, Doc, Statuses

LEMMA NothingPendingType == NothingPending \in Pending
BY DEF NothingPending, Pending

LEMMA InitTypeInv == Init => TypeInv
<1> SUFFICES ASSUME Init PROVE TypeInv OBVIOUS
<1> USE ConstantsAssumption
<1>0. NothingPending \in Pending BY NothingPendingType
<1>1. PICK x \in [Existing -> Ext \cup {None}], v \in Bodies \cap Content :
        doc = [c \in Ci |-> IF c \in Existing THEN FirstDoc(x[c], v) ELSE None]
  BY DEF Init
<1>2. doc \in [Ci -> Doc \cup {None}] BY <1>1, FirstDocType
<1>3. \A c \in Existing : doc[c] \in Doc BY <1>1, FirstDocType
<1>4. audit \in [Ci -> Seq(Entry)]
  <2> DEFINE first(c) == IF c \in Existing
               THEN <<[req |-> None, before |-> None, after |-> doc[c]]>> ELSE <<>>
  <2>0. \A c \in Existing : [req |-> None, before |-> None, after |-> doc[c]] \in Entry
    BY <1>3 DEF Entry
  <2>1. \A c \in Ci : first(c) \in Seq(Entry) BY <2>0
  <2>2. audit = [c \in Ci |-> first(c)] BY DEF Init
  <2> HIDE DEF first
  <2> QED BY <2>1, <2>2
<1>5. outbox \in [Ci -> Seq(Event)]
  <2> DEFINE first(c) == IF c \in Existing
               THEN <<[kind |-> "created", payload |-> doc[c]]>> ELSE <<>>
  <2>0. \A c \in Existing : [kind |-> "created", payload |-> doc[c]] \in Event
    BY <1>3 DEF Event
  <2>1. \A c \in Ci : first(c) \in Seq(Event) BY <2>0
  <2>2. outbox = [c \in Ci |-> first(c)] BY DEF Init
  <2> HIDE DEF first
  <2> QED BY <2>1, <2>2
<1>6. TypeOK BY <1>0, <1>2, <1>4, <1>5 DEF Init, TypeOK, Steps, NoOp, Replies
<1>7. Locals BY <1>1 DEF Init, Locals, Live, Working, NoOp, ById
<1> QED BY <1>6, <1>7 DEF TypeInv
(***************************************************************************)
(* Every step has one of ten shapes.  The six kinds of write are one: they *)
(* differ in the document they store.                                      *)
(***************************************************************************)
StartStep(r, c, request) ==
  /\ pc[r] = "idle" /\ c \in used \cup {None} /\ request \in Request
  /\ request.kind \in ById => c \in Ci
  /\ seen[r] # None => c \in Ci /\ c = target[r] /\ request.kind \in ById
  /\ request.kind = "create" => DOMAIN request.body = Field
  /\ Start(r, c, request)

RejectStep(r, a) ==
  /\ pc[r] \notin {"idle", "done"} /\ Reject(r, a)
  /\ a # "none" /\ (a = "ok" => op[r].kind = "missing")

ContinueStep(r, c) ==
  /\ pc[r] = "read" /\ Live(c) /\ Continue(r, c)
  /\ seen[r] # None => c = target[r]
  /\ op[r].kind = "delete" /\ op[r].etag \in Nat => doc[c].rev = op[r].etag

FreshStep(r) ==
  pc[r] = "read" /\ op[r].kind \notin ById /\ DOMAIN op[r].body = Field /\ FreshId(r)

WriteStep(r, d, step) ==
  /\ pc[r] = "write" /\ Written(r, d) /\ pc' = [pc EXCEPT ![r] = step]
  /\ step = "audit" => before[r] \in Doc \/ d \in Doc
  /\ before[r] = None => step = "audit" /\ d # None /\ d.rev = 1
  /\ before[r] # None /\ step = "audit" => d = None \/ d.rev = before[r].rev + 1
  /\ TxnEnabled /\ step = "commit" => SameVersion(before[r], d)
  /\ TxnEnabled /\ op[r].kind \in {"put", "patch"} => before[r].rev = op[r].etag
  /\ op[r].kind = "delete" => d = None
  /\ op[r].kind \in {"put", "patch"} => d # None
  /\ step = "commit" => op[r].kind = "discover"

LEMMA RevisedType ==
  ASSUME NEW d \in Doc, NEW n \in Nat, NEW v \in Content, NEW s \in Statuses
  PROVE  /\ [d EXCEPT !.rev = n + 1, !.content = v] \in Doc
         /\ [d EXCEPT !.rev = n + 1, !.content = v, !.status = s] \in Doc
         /\ [d EXCEPT !.rev = n + 1, !.status = s] \in Doc
         /\ [d EXCEPT !.status = s] \in Doc
<1>1. n + 1 \in Nat \ {0} OBVIOUS
<1>2. [d EXCEPT !.status = s] \in Doc BY DEF Doc
<1> DEFINE k == n + 1
<1>3. k \in Nat \ {0} BY <1>1
<1> HIDE DEF k
<1>4. [d EXCEPT !.rev = k, !.content = v] \in Doc BY <1>3 DEF Doc
<1>5. [d EXCEPT !.rev = k, !.content = v, !.status = s] \in Doc BY <1>3 DEF Doc
<1>6. [d EXCEPT !.rev = k, !.status = s] \in Doc BY <1>3 DEF Doc
<1> QED BY <1>2, <1>4, <1>5, <1>6 DEF k

LEMMA InsertShape ==
  ASSUME TypeInv, NEW r \in Req, InsertDoc(r)
  PROVE  \E d \in Doc : WriteStep(r, d, "audit")
<1> USE ConstantsAssumption DEF TypeInv
<1> DEFINE d == FirstDoc(op[r].ext, op[r].body)
<1>1. d \in Doc BY FirstDocType DEF InsertDoc, TypeOK, Locals, Request
<1>2. d.rev = 1 BY DEF FirstDoc
<1>3. /\ pc[r] = "write" /\ before[r] = None /\ Written(r, d) /\ pc' = [pc EXCEPT ![r] = "audit"]
      /\ op[r].kind \notin {"put", "patch", "delete"}
  BY DEF InsertDoc, Locals, Working, ById
<1> HIDE DEF d
<1> QED BY <1>1, <1>2, <1>3 DEF WriteStep

LEMMA UpdateShape ==
  ASSUME TypeInv, NEW r \in Req, UpdateDoc(r) \/ DiscoverDoc(r) \/ MissingDoc(r)
  PROVE  \E d \in Doc : WriteStep(r, d, "audit")
<1> USE ConstantsAssumption DEF TypeInv
<1>1. pc[r] = "write" /\ before[r] \in Doc /\ View(r) \in Doc /\ op[r].body \in Payload
  BY DEF UpdateDoc, CasMatches, DiscoverDoc, MissingDoc, View, TypeOK, Locals, Request, Working, ById
<1>2. /\ Merge(before[r].content, op[r].body) \in Content
      /\ before[r].rev \in Nat /\ before[r].content \in Content
      /\ {"none", "present", "missing"} \subseteq Statuses
  BY <1>1, MergeType DEF Doc, Statuses
<1>3. PICK d \in Doc : /\ d.rev = before[r].rev + 1
                       /\ Written(r, d) /\ pc' = [pc EXCEPT ![r] = "audit"]
  <2> DEFINE u == [View(r) EXCEPT !.rev = before[r].rev + 1,
                                  !.content = Merge(before[r].content, op[r].body)]
             v == [View(r) EXCEPT !.rev = before[r].rev + 1,
                                  !.content = Merge(before[r].content, op[r].body),
                                  !.status = "present"]
             w == [View(r) EXCEPT !.rev = before[r].rev + 1, !.status = "missing"]
  <2>1. u \in Doc /\ v \in Doc /\ w \in Doc
    <3>1. u \in Doc BY <1>1, <1>2, RevisedType
    <3>2. v \in Doc BY <1>1, <1>2, RevisedType
    <3>3. w \in Doc BY <1>1, <1>2, RevisedType
    <3> QED BY <3>1, <3>2, <3>3
  <2>2. /\ u.rev = before[r].rev + 1 /\ v.rev = before[r].rev + 1
        /\ w.rev = before[r].rev + 1
    BY <1>1 DEF Doc
  <2>3. Written(r, u) \/ Written(r, v) \/ Written(r, w)
    BY DEF UpdateDoc, DiscoverDoc, MissingDoc
  <2>4. pc' = [pc EXCEPT ![r] = "audit"] BY DEF UpdateDoc, DiscoverDoc, MissingDoc
  <2> HIDE DEF u, v, w
  <2> QED BY <2>1, <2>2, <2>3, <2>4
<1>4. TxnEnabled /\ op[r].kind \in {"put", "patch"} => before[r].rev = op[r].etag
  BY DEF UpdateDoc, CasMatches, View, DiscoverDoc, MissingDoc
<1>5. op[r].kind # "delete" BY DEF UpdateDoc, DiscoverDoc, MissingDoc
<1> QED BY <1>1, <1>3, <1>4, <1>5 DEF WriteStep

LEMMA DeleteShape ==
  ASSUME TypeInv, NEW r \in Req, DeleteDoc(r)
  PROVE  WriteStep(r, None, "audit")
BY ConstantsAssumption DEF TypeInv, DeleteDoc, WriteStep, Locals, Working, ById

LEMMA RefreshShape ==
  ASSUME TypeInv, NEW r \in Req, RefreshDoc(r)
  PROVE  \E d \in Doc \cup {None} : WriteStep(r, d, "commit")
<1> USE ConstantsAssumption DEF TypeInv
<1> DEFINE d == IF View(r) = None THEN None ELSE [View(r) EXCEPT !.status = "present"]
<1>1. before[r] \in Doc /\ View(r) \in Doc \cup {None} /\ (TxnEnabled => View(r) = before[r])
  BY DEF RefreshDoc, View, TypeOK, Locals, Working
<1>2. d \in Doc \cup {None} BY <1>1 DEF Doc, Statuses
<1>3. TxnEnabled => SameVersion(before[r], d)
  <2>1. \A e \in Doc : /\ [e EXCEPT !.status = "present"].rev = e.rev
                       /\ [e EXCEPT !.status = "present"].content = e.content
    BY DEF Doc
  <2>2. \A e \in Doc : [e EXCEPT !.status = "present"] \in Doc BY DEF Doc, Statuses
  <2> QED BY <1>1, <2>1, <2>2 DEF SameVersion
<1>4. /\ pc[r] = "write" /\ Written(r, d) /\ pc' = [pc EXCEPT ![r] = "commit"]
      /\ op[r].kind = "discover"
  BY DEF RefreshDoc
<1> HIDE DEF d
<1> QED BY <1>1, <1>2, <1>3, <1>4 DEF WriteStep

LEMMA StepShapes ==
  ASSUME TypeInv, [Next]_vars
  PROVE  \/ \E r \in Req, c \in Ci : Get(r, c)
         \/ \E r \in Req, c \in Ci \cup {None}, request \in Request : StartStep(r, c, request)
         \/ \E r \in Req, a \in Replies : RejectStep(r, a)
         \/ \E r \in Req, c \in Ci : ContinueStep(r, c)
         \/ \E r \in Req : FreshStep(r)
         \/ \E r \in Req : CasMisses(r)
         \/ \E r \in Req, d \in Doc \cup {None}, step \in {"audit", "commit"} : WriteStep(r, d, step)
         \/ \E r \in Req : RecordAudit(r)
         \/ \E r \in Req : AddToOutbox(r)
         \/ \E r \in Req : Commit(r)
         \/ UNCHANGED vars
<1> USE ConstantsAssumption DEF TypeInv
<1> DEFINE Shape ==
         \/ \E r \in Req, c \in Ci : Get(r, c)
         \/ \E r \in Req, c \in Ci \cup {None}, request \in Request : StartStep(r, c, request)
         \/ \E r \in Req, a \in Replies : RejectStep(r, a)
         \/ \E r \in Req, c \in Ci : ContinueStep(r, c)
         \/ \E r \in Req : FreshStep(r)
         \/ \E r \in Req : CasMisses(r)
         \/ \E r \in Req, d \in Doc \cup {None}, step \in {"audit", "commit"} : WriteStep(r, d, step)
         \/ \E r \in Req : RecordAudit(r)
         \/ \E r \in Req : AddToOutbox(r)
         \/ \E r \in Req : Commit(r)
         \/ UNCHANGED vars
<1>1. ASSUME NEW r \in Req, NEW c \in Ci, SendMissing(r, c) PROVE Shape
  <2> DEFINE q == [kind |-> "missing", ext |-> None, body |-> NoBody, etag |-> None]
  <2>1. q \in Request BY NoBodyType DEF Request, AllKinds
  <2>2. StartStep(r, c, q) BY <1>1, <2>1 DEF SendMissing, StartStep, Locals, ById
  <2> HIDE DEF q
  <2> QED BY <2>1, <2>2
<1>2. ASSUME NEW r \in Req, NEW c \in Ci, NEW kind \in ClientKinds,
             NEW body \in Bodies \cup {NoBody}, NEW etag \in IfMatch(r),
             Send(r, c, kind, body, etag)
      PROVE Shape
  <2> DEFINE q == [kind |-> kind, ext |-> None, body |-> body, etag |-> etag]
  <2>1. etag \in Nat \cup {None} BY <1>2 DEF IfMatch, TypeOK
  <2>2. q \in Request BY <2>1, NoBodyType DEF Request, AllKinds, ClientKinds
  <2>3. StartStep(r, c, q) BY <1>2, <2>2 DEF Send, StartStep, Locals, ClientKinds, ById
  <2> HIDE DEF q
  <2> QED BY <2>2, <2>3
<1>3. ASSUME NEW r \in Req, NEW body \in Bodies, SendCreate(r, body) PROVE Shape
  <2> DEFINE q == [kind |-> "create", ext |-> None, body |-> body, etag |-> None]
  <2>1. q \in Request BY DEF Request, AllKinds
  <2>2. StartStep(r, None, q) BY <1>3, <2>1 DEF SendCreate, StartStep, ById
  <2> HIDE DEF q
  <2> QED BY <2>1, <2>2
<1>4. ASSUME NEW r \in Req, NEW x \in Ext, NEW body \in Bodies, SendDiscover(r, x, body) PROVE Shape
  <2> DEFINE q == [kind |-> "discover", ext |-> x, body |-> body, etag |-> None]
  <2>1. q \in Request BY DEF Request, AllKinds
  <2>2. StartStep(r, None, q) BY <1>4, <2>1 DEF SendDiscover, StartStep, ById
  <2> HIDE DEF q
  <2> QED BY <2>1, <2>2
<1>5. ASSUME NEW r \in Req, ReadById(r) PROVE Shape
  <2>1. \/ op[r].kind = "missing" /\ Reject(r, "ok")
        \/ Reject(r, "notfound") \/ Reject(r, "precondition")
        \/ /\ Live(target[r]) /\ Continue(r, target[r])
           /\ op[r].kind = "delete" /\ op[r].etag \in Nat => doc[target[r]].rev = op[r].etag
    BY <1>5 DEF ReadById
  <2>2. pc[r] = "read" /\ target[r] \in Ci BY <1>5 DEF ReadById, Locals, ById
  <2> QED BY <2>1, <2>2 DEF RejectStep, ContinueStep, Replies
<1>6. ASSUME NEW r \in Req, ReadByExt(r) PROVE Shape
  BY <1>6 DEF ReadByExt, ContinueStep, FreshStep, Locals, ById
<1>7. ASSUME NEW r \in Req, NewId(r) PROVE Shape
  BY <1>7 DEF NewId, FreshStep, Locals, ById
<1>8. ASSUME NEW r \in Req, InsertDoc(r) PROVE Shape BY <1>8, InsertShape
<1>9. ASSUME NEW r \in Req, UpdateDoc(r) \/ DiscoverDoc(r) \/ MissingDoc(r) PROVE Shape
  BY <1>9, UpdateShape
<1>10. ASSUME NEW r \in Req, DeleteDoc(r) PROVE Shape BY <1>10, DeleteShape
<1>11. ASSUME NEW r \in Req, RefreshDoc(r) PROVE Shape BY <1>11, RefreshShape
<1>12. ASSUME NEW r \in Req, Recheck(r) PROVE Shape
  BY <1>12 DEF Recheck, RejectStep, Replies
<1>13. ASSUME NEW r \in Req, Fail(r) PROVE Shape
  BY <1>13 DEF Fail, RejectStep, Replies
<1>14. CASE UNCHANGED vars BY <1>14
<1> HIDE DEF Shape
<1>15. ASSUME NEW r \in Req, Handle(r) PROVE Shape
  <2>1. CASE CasMisses(r) \/ RecordAudit(r) \/ AddToOutbox(r) \/ Commit(r) BY <2>1 DEF Shape
  <2> QED BY <1>15, <2>1, <1>5, <1>6, <1>7, <1>8, <1>9, <1>10, <1>11, <1>12, <1>13 DEF Handle
<1>16. ASSUME NEW r \in Req, NEW c \in Ci, Get(r, c) PROVE Shape BY <1>16 DEF Shape
<1>17. CASE Next
  <2> USE DEF Shape
  <2> HIDE DEF TypeInv
  <2> QED BY <1>1, <1>2, <1>3, <1>4, <1>14, <1>15, <1>16, <1>17 DEF Next, Quiet
<1> QED BY <1>14, <1>17 DEF Shape

(***************************************************************************)
(* Type correctness.                                                       *)
(***************************************************************************)
LEMMA WriteTypeOK ==
  ASSUME TypeInv, NEW r \in Req, NEW d \in Doc \cup {None}, NEW step \in {"audit", "commit"},
         WriteStep(r, d, step)
  PROVE  TypeInv'
<1> USE ConstantsAssumption DEF TypeInv, Written, WriteStep
<1>1. pend \in [Req -> Pending] /\ doc \in [Ci -> Doc \cup {None}] /\ target[r] \in Ci
  BY DEF TypeOK, Locals, Working
<1>2. pend' \in [Req -> Pending] /\ doc' \in [Ci -> Doc \cup {None}]
  <2>1. [pend[r] EXCEPT !.doc = {d}] \in Pending BY <1>1 DEF Pending
  <2>2. CASE TxnEnabled
    <3>1. pend' = [pend EXCEPT ![r] = [pend[r] EXCEPT !.doc = {d}]] BY <1>1, <2>2 DEF StoreDoc
    <3> QED BY <1>1, <2>1, <2>2, <3>1 DEF StoreDoc
  <2>3. CASE ~TxnEnabled BY <1>1, <2>3 DEF StoreDoc
  <2> QED BY <2>2, <2>3
<1>3. TypeOK' BY <1>2 DEF TypeOK, Steps
<1>4. doc' = doc \/ doc' = [doc EXCEPT ![target[r]] = d] BY DEF StoreDoc
<1>5. \A c \in Ci : Live(c)' => c \in used'
  BY <1>1, <1>4 DEF Locals, Live
<1>6. /\ after' = [after EXCEPT ![r] = d] /\ pc' = [pc EXCEPT ![r] = step]
      /\ UNCHANGED <<used, op, seen, target, before>>
      /\ pc \in [Req -> Steps] /\ after \in [Req -> Doc \cup {None}]
  BY DEF TypeOK
<1> HIDE DEF Written
<1>7. Locals' BY <1>5, <1>6 DEF Locals, Working, ById
<1> QED BY <1>3, <1>7

LEMMA StepTypeInv == TypeInv /\ [Next]_vars => TypeInv'
<1> SUFFICES ASSUME TypeInv, [Next]_vars PROVE TypeInv' OBVIOUS
<1> USE ConstantsAssumption DEF TypeInv
<1>1. ASSUME NEW r \in Req, NEW c \in Ci, Get(r, c) PROVE TypeInv'
  BY <1>1 DEF Get, TypeOK, Locals, Live, Doc, Steps, Working, ById
<1>2. ASSUME NEW r \in Req, NEW c \in Ci \cup {None}, NEW request \in Request,
             StartStep(r, c, request)
      PROVE  TypeInv'
  <2>1. TypeOK' BY <1>2 DEF StartStep, Start, TypeOK, Steps
  <2>2. request # NoOp BY DEF Request, NoOp, AllKinds
  <2>4. Locals' BY <1>2, <2>2 DEF StartStep, Start, TypeOK, Locals, Live, Working, ById
  <2> QED BY <2>1, <2>4
<1>3. ASSUME NEW r \in Req, NEW a \in Replies, RejectStep(r, a) PROVE TypeInv'
  <2> USE <1>3 DEF RejectStep, Reject, Finish
  <2>1. TypeOK' BY NothingPendingType DEF TypeOK, Steps
  <2>2. Locals' BY DEF TypeOK, Locals, Live, Working, ById
  <2> QED BY <2>1, <2>2
<1>4. ASSUME NEW r \in Req, NEW c \in Ci, ContinueStep(r, c) PROVE TypeInv'
  <2> USE <1>4 DEF ContinueStep, Continue, Live
  <2>1. TypeOK' BY DEF TypeOK, Steps
  <2>2. Locals' BY DEF TypeOK, Locals, Working, ById
  <2> QED BY <2>1, <2>2
<1>5. ASSUME NEW r \in Req, FreshStep(r) PROVE TypeInv'
  <2> USE <1>5 DEF FreshStep, FreshId
  <2>1. TypeOK' BY DEF TypeOK, Steps
  <2>2. op[r].body \in Content
    <3>1. op[r] \in Request BY DEF Locals
    <3>2. PICK F \in SUBSET Field : op[r].body \in [F -> Val] BY <3>1 DEF Request, Payload
    <3> QED BY <3>2 DEF Content
  <2>3. Locals' BY <2>2 DEF TypeOK, Locals, Live, Working, ById
  <2> QED BY <2>1, <2>3
<1>6. ASSUME NEW r \in Req, CasMisses(r) PROVE TypeInv'
  BY <1>6 DEF CasMisses, TypeOK, Locals, Live, Steps, Working, ById
<1>7. ASSUME NEW r \in Req, NEW d \in Doc \cup {None}, NEW step \in {"audit", "commit"},
             WriteStep(r, d, step)
      PROVE  TypeInv'
  BY <1>7, WriteTypeOK
<1>8. ASSUME NEW r \in Req, RecordAudit(r) PROVE TypeInv'
  <2> DEFINE e == [req |-> r, before |-> before[r], after |-> after[r]]
  <2>1. e \in Entry BY <1>8 DEF Entry, TypeOK
  <2> HIDE DEF e
  <2>2. /\ StoreEntry(r, e) /\ pc[r] = "audit" /\ pc' = [pc EXCEPT ![r] = "outbox"]
        /\ UNCHANGED <<doc, used, outbox, op, seen, target, before, after, stale, resp>>
    BY <1>8 DEF RecordAudit, e
  <2>3. audit \in [Ci -> Seq(Entry)] /\ target[r] \in Ci BY <2>2 DEF TypeOK, Locals, Working
  <2>4. [pend[r] EXCEPT !.entry = e] \in Pending
    <3>1. pend[r] \in Pending BY DEF TypeOK
    <3> HIDE DEF TypeInv
    <3> QED BY <2>1, <3>1 DEF Pending
  <2>5. pend' \in [Req -> Pending] BY <2>2, <2>4 DEF StoreEntry, TypeOK
  <2>6. Append(audit[target[r]], e) \in Seq(Entry)
    <3>1. audit[target[r]] \in Seq(Entry) BY <2>3
    <3> QED BY <2>1, <3>1, AppendType
  <2>7. audit' \in [Ci -> Seq(Entry)] BY <2>2, <2>3, <2>6 DEF StoreEntry
  <2>8. TypeOK' BY <2>2, <2>5, <2>7 DEF TypeOK, Steps
  <2>9. Locals' BY <2>2 DEF TypeOK, Locals, Live, Working, ById
  <2> QED BY <2>8, <2>9
<1>9. ASSUME NEW r \in Req, AddToOutbox(r) PROVE TypeInv'
  <2> DEFINE e == EventOf(r)
  <2>1. e \in Event BY <1>9 DEF AddToOutbox, EventOf, Event, TypeOK, Locals
  <2> HIDE DEF e
  <2>2. /\ StoreEvent(r, e) /\ pc[r] = "outbox" /\ pc' = [pc EXCEPT ![r] = "commit"]
        /\ UNCHANGED <<doc, used, audit, op, seen, target, before, after, stale, resp>>
    BY <1>9 DEF AddToOutbox, e
  <2>3. outbox \in [Ci -> Seq(Event)] /\ target[r] \in Ci BY <2>2 DEF TypeOK, Locals, Working
  <2>4. [pend[r] EXCEPT !.event = e] \in Pending
    <3>1. pend[r] \in Pending BY DEF TypeOK
    <3> HIDE DEF TypeInv
    <3> QED BY <2>1, <3>1 DEF Pending
  <2>5. pend' \in [Req -> Pending] BY <2>2, <2>4 DEF StoreEvent, TypeOK
  <2>6. Append(outbox[target[r]], e) \in Seq(Event)
    <3>1. outbox[target[r]] \in Seq(Event) BY <2>3
    <3> QED BY <2>1, <3>1, AppendType
  <2>7. outbox' \in [Ci -> Seq(Event)] BY <2>2, <2>3, <2>6 DEF StoreEvent
  <2>8. TypeOK' BY <2>2, <2>5, <2>7 DEF TypeOK, Steps
  <2>9. Locals' BY <2>2 DEF TypeOK, Locals, Live, Working, ById
  <2> QED BY <2>8, <2>9
<1>10. ASSUME NEW r \in Req, Commit(r) PROVE TypeInv'
  <2>1. target[r] \in Ci /\ pend[r] \in Pending BY <1>10 DEF Commit, TypeOK, Locals, Working
  <2>2. TypeOK'
    BY <1>10, <2>1, NothingPendingType DEF Commit, Finish, Extend, Pending, TypeOK, Steps, Replies
  <2>3. Locals' BY <1>10, <2>1 DEF Commit, Finish, Pending, TypeOK, Locals, Live, Working, ById
  <2> QED BY <2>2, <2>3
<1>11. CASE UNCHANGED vars
  BY <1>11 DEF TypeOK, Locals, Live, vars, Working, ById
<1> QED
  BY StepShapes, <1>1, <1>2, <1>3, <1>4, <1>5, <1>6, <1>7, <1>8, <1>9, <1>10, <1>11

(* Every variable keeps its shape, whatever the requests, with and without *)
(* transactions.                                                           *)
THEOREM TypeCorrect == Spec => []TypeOK
<1>1. Spec => []TypeInv BY InitTypeInv, StepTypeInv, PTL DEF Spec
<1>2. TypeInv => TypeOK BY DEF TypeInv
<1> QED BY <1>1, <1>2, PTL

(***************************************************************************)
(* The transactional invariant is inductive.                               *)
(***************************************************************************)
LEMMA InitInv == Init => Inv
<1> SUFFICES ASSUME Init PROVE Inv OBVIOUS
<1>1. TypeInv BY InitTypeInv
<1>2. Sessions BY DEF Init, Sessions, Session
<1>3. Isolation BY DEF Init, Isolation, Holding
<1>4. Ids BY DEF Init, Ids, Working
<1>5. Etags BY DEF Init, Etags
<1>6. Matched BY DEF Init, Matched, MatchedFor, Holding
<1> QED BY <1>1, <1>2, <1>3, <1>4, <1>5, <1>6 DEF Inv

LEMMA StepSessions == TypeInv /\ Sessions /\ [Next]_vars => Sessions'
<1> SUFFICES ASSUME TypeInv, Sessions, [Next]_vars, TxnEnabled, NEW q \in Req
             PROVE  Session(q)'
  BY ConstantsAssumption DEF Sessions
<1>0. /\ Session(q)
      /\ pc \in [Req -> Steps] /\ pend \in [Req -> Pending]
      /\ before \in [Req -> Doc \cup {None}] /\ after \in [Req -> Doc \cup {None}]
  BY DEF Sessions, TypeInv, TypeOK
<1> USE <1>0 DEF Session
<1> DEFINE Same == pc'[q] = pc[q] /\ pend'[q] = pend[q] /\ op'[q] = op[q]
                     /\ before'[q] = before[q] /\ after'[q] = after[q]
<1>a. ASSUME Same PROVE Session(q)' BY <1>a DEF EntryOf, EventOf, SameVersion
<1>1. ASSUME NEW r \in Req, NEW c \in Ci, Get(r, c) PROVE Session(q)'
  BY <1>1, <1>a DEF Get
<1>2. ASSUME NEW r \in Req, NEW c \in Ci \cup {None}, NEW request \in Request,
             StartStep(r, c, request)
      PROVE  Session(q)'
  BY <1>2 DEF StartStep, Start, EntryOf, EventOf, SameVersion, TypeInv, TypeOK
<1>3. ASSUME NEW r \in Req, NEW a \in Replies, RejectStep(r, a) PROVE Session(q)'
  BY <1>3 DEF RejectStep, Reject, Finish, EntryOf, EventOf, SameVersion
<1>4. ASSUME NEW r \in Req, NEW c \in Ci, ContinueStep(r, c) PROVE Session(q)'
  BY <1>4 DEF ContinueStep, Continue, EntryOf, EventOf, SameVersion
<1>5. ASSUME NEW r \in Req, FreshStep(r) PROVE Session(q)'
  BY <1>5 DEF FreshStep, FreshId, EntryOf, EventOf, SameVersion
<1>6. ASSUME NEW r \in Req, CasMisses(r) PROVE Session(q)'
  BY <1>6 DEF CasMisses, EntryOf, EventOf, SameVersion
<1>7. ASSUME NEW r \in Req, NEW d \in Doc \cup {None}, NEW step \in {"audit", "commit"},
             WriteStep(r, d, step)
      PROVE  Session(q)'
  <2>1. CASE q # r
    BY <1>7, <1>a, <2>1 DEF WriteStep, Written, StoreDoc
  <2>2. CASE q = r
    <3>1. pend[r] = NothingPending BY <1>7, <2>2 DEF WriteStep
    <3>2. pend'[r] = [doc |-> {d}, entry |-> None, event |-> None]
      BY <1>7, <3>1 DEF WriteStep, Written, StoreDoc, NothingPending
    <3>3. pc'[r] = step /\ after'[r] = d /\ before'[r] = before[r]
      BY <1>7 DEF WriteStep, Written
    <3>4. step = "commit" => SameVersion(before[r], d) BY <1>7 DEF WriteStep
    <3> QED BY <2>2, <3>2, <3>3, <3>4 DEF SameVersion
  <2> QED BY <2>1, <2>2
<1>8. ASSUME NEW r \in Req, RecordAudit(r) PROVE Session(q)'
  <2>1. CASE q # r
    BY <1>8, <1>a, <2>1 DEF RecordAudit, StoreEntry
  <2>2. CASE q = r
    <3>1. /\ pend'[r] = [pend[r] EXCEPT !.entry = EntryOf(r)] /\ pc'[r] = "outbox"
          /\ EntryOf(r)' = EntryOf(r) /\ after'[r] = after[r]
      BY <1>8 DEF RecordAudit, StoreEntry, EntryOf
    <3>2. pend[r] = [doc |-> {after[r]}, entry |-> None, event |-> None]
      BY <1>8, <2>2 DEF RecordAudit
    <3>3. pend'[r] = [doc |-> {after'[r]}, entry |-> EntryOf(r)', event |-> None]
      BY <3>1, <3>2
    <3> HIDE <1>0
    <3> QED BY <2>2, <3>1, <3>3
  <2> QED BY <2>1, <2>2
<1>9. ASSUME NEW r \in Req, AddToOutbox(r) PROVE Session(q)'
  <2>1. CASE q # r
    BY <1>9, <1>a, <2>1 DEF AddToOutbox, StoreEvent
  <2>2. CASE q = r
    <3>1. /\ pend'[r] = [pend[r] EXCEPT !.event = EventOf(r)] /\ pc'[r] = "commit"
          /\ EntryOf(r)' = EntryOf(r) /\ EventOf(r)' = EventOf(r)
          /\ after'[r] = after[r] /\ before'[r] = before[r]
      BY <1>9 DEF AddToOutbox, StoreEvent, EntryOf, EventOf
    <3>2. pend[r] = [doc |-> {after[r]}, entry |-> EntryOf(r), event |-> None]
      BY <1>9, <2>2 DEF AddToOutbox
    <3>3. before[r] \in Doc \/ after[r] \in Doc
      BY <1>9 DEF AddToOutbox, TypeInv, Locals
    <3>4. pend'[r] = [doc |-> {after[r]}, entry |-> EntryOf(r), event |-> EventOf(r)]
      <4>1. \A a, e, v : [[doc |-> a, entry |-> e, event |-> None] EXCEPT !.event = v]
                           = [doc |-> a, entry |-> e, event |-> v]
        OBVIOUS
      <4> HIDE <1>0
      <4> QED BY <3>1, <3>2, <4>1
    <3> HIDE <1>0
    <3> QED BY <2>2, <3>1, <3>3, <3>4
  <2> QED BY <2>1, <2>2
<1>10. ASSUME NEW r \in Req, Commit(r) PROVE Session(q)'
  <2>1. CASE q # r BY <1>10, <1>a, <2>1 DEF Commit, Finish
  <2>2. CASE q = r BY <1>10, <2>2 DEF Commit, Finish
  <2> QED BY <2>1, <2>2
<1>11. CASE UNCHANGED vars BY <1>11, <1>a DEF vars
<1> QED
  BY StepShapes, <1>1, <1>2, <1>3, <1>4, <1>5, <1>6, <1>7, <1>8, <1>9, <1>10, <1>11

(* A request that has written holds back its target's new document.        *)
LEMMA HeldDoc ==
  ASSUME Sessions, TxnEnabled, NEW r \in Req, pc[r] \in Holding
  PROVE  pend[r].doc = {after[r]}
<1>1. Session(r) BY DEF Sessions
<1>2. CASE pc[r] = "audit" BY <1>1, <1>2 DEF Session
<1>3. CASE pc[r] = "outbox" BY <1>1, <1>3 DEF Session
<1>4. CASE pc[r] = "commit" BY <1>1, <1>4 DEF Session
<1> QED BY <1>2, <1>3, <1>4 DEF Holding

LEMMA CommitEffect ==
  ASSUME TypeInv, Sessions, TxnEnabled, NEW r \in Req, Commit(r)
  PROVE  /\ doc' = [doc EXCEPT ![target[r]] = after[r]]
         /\ \A q \in Req : pc[q] = "write" /\ target[q] = target[r] => stale'[q]
<1>1. pend[r].doc = {after[r]} BY HeldDoc DEF Commit, Holding
<1> QED BY <1>1 DEF Commit

(* Without a commit, transactions leave the store alone.                   *)
LEMMA OnlyCommitStores ==
  ASSUME TypeInv, TxnEnabled, [Next]_vars, ~ \E r \in Req : Commit(r)
  PROVE  UNCHANGED <<doc, audit, outbox>>
<1>1. ASSUME NEW r \in Req, NEW d \in Doc \cup {None}, NEW step \in {"audit", "commit"},
             WriteStep(r, d, step)
      PROVE  UNCHANGED <<doc, audit, outbox>>
  BY <1>1 DEF WriteStep, Written, StoreDoc
<1> QED
  BY StepShapes, <1>1 DEF Get, StartStep, Start, RejectStep, Reject, ContinueStep, Continue,
     FreshStep, FreshId, CasMisses, RecordAudit, StoreEntry, AddToOutbox, StoreEvent, vars

LEMMA StepIsolation ==
  TypeInv /\ Sessions /\ Isolation /\ Ids /\ [Next]_vars => Isolation'
<1> SUFFICES ASSUME TypeInv, Sessions, Isolation, Ids, [Next]_vars, TxnEnabled
             PROVE  Isolation'
  BY ConstantsAssumption DEF Isolation
<1> USE ConstantsAssumption DEF Holding
<1>0. /\ pc \in [Req -> Steps] /\ target \in [Req -> Ci \cup {None}] /\ stale \in [Req -> BOOLEAN]
      /\ doc \in [Ci -> Doc \cup {None}]
      /\ before \in [Req -> Doc \cup {None}] /\ after \in [Req -> Doc \cup {None}]
      /\ \A r \in Req : pc[r] \in Working => target[r] \in Ci
  BY DEF TypeInv, TypeOK, Locals
<1>1. ASSUME NEW r \in Req, NEW c \in Ci, Get(r, c) PROVE Isolation'
  BY <1>0, <1>1 DEF Get, Isolation, SameVersion
<1>2. ASSUME NEW r \in Req, NEW c \in Ci \cup {None}, NEW request \in Request,
             StartStep(r, c, request)
      PROVE  Isolation'
  BY <1>0, <1>2 DEF StartStep, Start, Isolation, SameVersion
<1>3. ASSUME NEW r \in Req, NEW a \in Replies, RejectStep(r, a) PROVE Isolation'
  BY <1>0, <1>3 DEF RejectStep, Reject, Finish, Isolation, SameVersion
<1>4. ASSUME NEW r \in Req, NEW c \in Ci, ContinueStep(r, c) PROVE Isolation'
  BY <1>0, <1>4 DEF ContinueStep, Continue, Isolation, SameVersion
<1>5. ASSUME NEW r \in Req, FreshStep(r) PROVE Isolation'
  <2>1. PICK c \in Ci \ used : /\ target' = [target EXCEPT ![r] = c]
                                /\ before' = [before EXCEPT ![r] = None]
                                /\ pc' = [pc EXCEPT ![r] = "write"]
                                /\ stale' = [stale EXCEPT ![r] = FALSE]
                                /\ UNCHANGED <<doc, after>>
    BY <1>5 DEF FreshStep, FreshId
  <2>2. doc[c] = None BY <2>1 DEF TypeInv, Locals, Live
  <2> QED BY <1>0, <2>1, <2>2 DEF Isolation, SameVersion
<1>6. ASSUME NEW r \in Req, CasMisses(r) PROVE Isolation'
  BY <1>0, <1>6 DEF CasMisses, Isolation, SameVersion
<1>7. ASSUME NEW r \in Req, NEW d \in Doc \cup {None}, NEW step \in {"audit", "commit"},
             WriteStep(r, d, step)
      PROVE  Isolation'
  <2>1. /\ pc[r] = "write" /\ pc' = [pc EXCEPT ![r] = step]
        /\ after' = [after EXCEPT ![r] = d] /\ UNCHANGED <<doc, target, before, stale>>
    BY <1>7 DEF WriteStep, Written, StoreDoc
  <2>2. ~stale[r] /\ \A q \in Req \ {r} : target[q] = target[r] => pend[q].doc = {}
    BY <1>7 DEF WriteStep, Written, Conflict
  <2>3. \A q \in Req \ {r} : pc[q] \in Holding => target[q] # target[r]
    BY <2>2, HeldDoc
  <2>4. doc[target[r]] = before[r] BY <2>1, <2>2 DEF Isolation
  <2>5. before[r] # None => \/ d = None
                            \/ d.rev = before[r].rev + 1
                            \/ SameVersion(before[r], d)
    BY <1>7 DEF WriteStep
  <2>6. before[r] # None => /\ d = None \/ d.rev >= before[r].rev
                            /\ d # None => SameVersion(before[r], d) \/ d.rev > before[r].rev
    <3>1. before[r] # None => before[r].rev \in Nat BY <1>0 DEF Doc
    <3>2. d # None => d.rev \in Nat BY DEF Doc
    <3> QED BY <2>5, <3>1, <3>2 DEF SameVersion
  <2>7. \A q \in Req \ {r} : /\ pc'[q] = pc[q] /\ after'[q] = after[q]
    BY <1>0, <2>1
  <2>8. pc'[r] = step /\ after'[r] = d BY <1>0, <2>1
  <2>9. ASSUME NEW q \in Req, q # r
        PROVE  /\ pc'[q] = "write" /\ ~stale'[q] => doc'[target'[q]] = before'[q]
               /\ pc'[q] \in Holding => doc'[target'[q]] = before'[q]
               /\ pc'[q] \in Holding /\ before'[q] # None =>
                    after'[q] = None \/ after'[q].rev >= before'[q].rev
               /\ pc'[q] \in Holding /\ before'[q] # None /\ after'[q] # None =>
                    SameVersion(before'[q], after'[q]) \/ after'[q].rev > before'[q].rev
    BY <2>1, <2>7, <2>9 DEF Isolation
  <2> QED BY <2>1, <2>3, <2>4, <2>6, <2>7, <2>8, <2>9 DEF Isolation, SameVersion
<1>8. ASSUME NEW r \in Req, RecordAudit(r) PROVE Isolation'
  BY <1>0, <1>8 DEF RecordAudit, Isolation, SameVersion
<1>9. ASSUME NEW r \in Req, AddToOutbox(r) PROVE Isolation'
  BY <1>0, <1>9 DEF AddToOutbox, Isolation, SameVersion
<1>10. ASSUME NEW r \in Req, Commit(r) PROVE Isolation'
  <2>1. /\ doc' = [doc EXCEPT ![target[r]] = after[r]]
        /\ \A q \in Req : pc[q] = "write" /\ target[q] = target[r] => stale'[q]
    BY <1>10, CommitEffect
  <2>2. \A q \in Req : stale[q] => stale'[q] BY <1>0, <1>10 DEF Commit
  <2>3. /\ pc[r] = "commit" /\ pc' = [pc EXCEPT ![r] = "done"] /\ target' = target
        /\ before' = [before EXCEPT ![r] = None] /\ after' = [after EXCEPT ![r] = None]
    BY <1>10 DEF Commit, Finish
  <2> QED BY <1>0, <2>1, <2>2, <2>3 DEF Isolation, SameVersion, Working
<1>11. CASE UNCHANGED vars BY <1>11 DEF vars, Isolation, SameVersion
<1> QED
  BY StepShapes, <1>1, <1>2, <1>3, <1>4, <1>5, <1>6, <1>7, <1>8, <1>9, <1>10, <1>11

LEMMA StepIds ==
  TypeInv /\ Sessions /\ Ids /\ [Next]_vars => Ids'
<1> SUFFICES ASSUME TypeInv, Sessions, Ids, [Next]_vars, TxnEnabled
             PROVE  Ids'
  BY ConstantsAssumption DEF Ids
<1> USE ConstantsAssumption
<1>0. /\ pc \in [Req -> Steps] /\ target \in [Req -> Ci \cup {None}]
      /\ doc \in [Ci -> Doc \cup {None}] /\ audit \in [Ci -> Seq(Entry)]
      /\ before \in [Req -> Doc \cup {None}]
      /\ seen \in [Req -> [rev : Nat \ {0}, content : Content] \cup {None}]
      /\ \A r \in Req : /\ pc[r] \in Working => target[r] \in Ci
                        /\ seen[r] # None => target[r] \in Ci
                        /\ target[r] # None => target[r] \in used
  BY DEF TypeInv, TypeOK, Locals
<1>1. ASSUME NEW r \in Req, NEW c \in Ci, Get(r, c) PROVE Ids'
  BY <1>0, <1>1 DEF Get, Ids, Working, Live
<1>2. ASSUME NEW r \in Req, NEW c \in Ci \cup {None}, NEW request \in Request,
             StartStep(r, c, request)
      PROVE  Ids'
  BY <1>0, <1>2 DEF StartStep, Start, Ids, Working
<1>3. ASSUME NEW r \in Req, NEW a \in Replies, RejectStep(r, a) PROVE Ids'
  BY <1>0, <1>3 DEF RejectStep, Reject, Finish, Ids, Working
<1>4. ASSUME NEW r \in Req, NEW c \in Ci, ContinueStep(r, c) PROVE Ids'
  BY <1>0, <1>4 DEF ContinueStep, Continue, Ids, Working, Live
<1>5. ASSUME NEW r \in Req, FreshStep(r) PROVE Ids'
  <2>1. PICK c \in Ci \ used : /\ target' = [target EXCEPT ![r] = c]
                                /\ before' = [before EXCEPT ![r] = None]
                                /\ pc' = [pc EXCEPT ![r] = "write"]
                                /\ used' = used \cup {c}
                                /\ UNCHANGED <<doc, audit, seen>>
    BY <1>5 DEF FreshStep, FreshId
  <2>2. doc[c] = None BY <2>1 DEF TypeInv, Locals, Live
  <2>3. seen[r] = None /\ pc[r] = "read" BY <1>5 DEF FreshStep, TypeInv, Locals
  <2> QED BY <1>0, <2>1, <2>2, <2>3 DEF Ids, Working
<1>6. ASSUME NEW r \in Req, CasMisses(r) PROVE Ids'
  BY <1>0, <1>6 DEF CasMisses, Ids, Working
<1>7. ASSUME NEW r \in Req, NEW d \in Doc \cup {None}, NEW step \in {"audit", "commit"},
             WriteStep(r, d, step)
      PROVE  Ids'
  <2>1. /\ pc[r] = "write" /\ pc' = [pc EXCEPT ![r] = step]
        /\ UNCHANGED <<doc, audit, used, target, before, seen>>
    BY <1>7 DEF WriteStep, Written, StoreDoc
  <2> QED BY <1>0, <2>1 DEF Ids, Working
<1>8. ASSUME NEW r \in Req, RecordAudit(r) PROVE Ids'
  BY <1>0, <1>8 DEF RecordAudit, StoreEntry, Ids, Working
<1>9. ASSUME NEW r \in Req, AddToOutbox(r) PROVE Ids'
  BY <1>0, <1>9 DEF AddToOutbox, StoreEvent, Ids, Working
<1>10. ASSUME NEW r \in Req, Commit(r) PROVE Ids'
  <2>1. doc' = [doc EXCEPT ![target[r]] = after[r]] BY <1>10, CommitEffect
  <2>2. /\ pc[r] = "commit" /\ pc' = [pc EXCEPT ![r] = "done"] /\ target' = target
        /\ before' = [before EXCEPT ![r] = None] /\ seen' = seen /\ used' = used
        /\ \A c \in Ci : c # target[r] => audit'[c] = audit[c]
    BY <1>0, <1>10 DEF Commit, Finish
  <2> QED BY <1>0, <2>1, <2>2 DEF Ids, Working
<1>11. CASE UNCHANGED vars BY <1>11 DEF vars, Ids, Working
<1> QED
  BY StepShapes, <1>1, <1>2, <1>3, <1>4, <1>5, <1>6, <1>7, <1>8, <1>9, <1>10, <1>11

LEMMA StepEtags ==
  TypeInv /\ Sessions /\ Isolation /\ Ids /\ Etags /\ [Next]_vars => Etags'
<1> SUFFICES ASSUME TypeInv, Sessions, Isolation, Ids, Etags, [Next]_vars, TxnEnabled,
                    NEW q \in Req, (seen[q] # None)', Live(target[q])'
             PROVE  /\ (seen[q].rev <= doc[target[q]].rev)'
                    /\ (doc[target[q]].rev = seen[q].rev => doc[target[q]].content = seen[q].content)'
  BY ConstantsAssumption DEF Etags
<1> USE ConstantsAssumption
<1>0. /\ target \in [Req -> Ci \cup {None}] /\ doc \in [Ci -> Doc \cup {None}]
      /\ seen \in [Req -> [rev : Nat \ {0}, content : Content] \cup {None}]
      /\ before \in [Req -> Doc \cup {None}] /\ after \in [Req -> Doc \cup {None}]
      /\ \A r \in Req : /\ pc[r] \in Working => target[r] \in Ci
                        /\ seen[r] # None => target[r] \in Ci
      /\ \A d \in Doc : d.rev \in Nat
  BY DEF TypeInv, TypeOK, Locals, Doc
<1>1. CASE \E r \in Req : Commit(r)
  <2>1. PICK r \in Req : Commit(r) BY <1>1
  <2>2. /\ doc' = [doc EXCEPT ![target[r]] = after[r]] /\ seen' = seen /\ target' = target
        /\ pc[r] = "commit"
    BY <2>1, CommitEffect DEF Commit
  <2>3. CASE target[q] # target[r] BY <1>0, <2>2, <2>3 DEF Etags, Live
  <2>4. CASE target[q] = target[r]
    <3>1. after[r] # None /\ seen[q] # None /\ target[r] \in Ci
      BY <1>0, <2>2, <2>4 DEF Live, Working
    <3>2. before[r] # None BY <2>2, <2>4, <3>1 DEF Ids, Working
    <3>3. doc[target[r]] = before[r] BY <2>2 DEF Isolation, Holding
    <3>4. /\ seen[q].rev <= before[r].rev
          /\ before[r].rev = seen[q].rev => before[r].content = seen[q].content
      BY <2>4, <3>1, <3>2, <3>3 DEF Etags, Live
    <3>5. SameVersion(before[r], after[r]) \/ after[r].rev > before[r].rev
      BY <2>2, <3>1, <3>2 DEF Isolation, Holding
    <3>6. before[r].rev \in Nat /\ after[r].rev \in Nat /\ seen[q].rev \in Nat
      BY <1>0, <3>1, <3>2
    <3>7. doc'[target[q]] = after[r] BY <1>0, <2>2, <2>4, <3>1
    <3>8. CASE SameVersion(before[r], after[r])
      BY <2>2, <2>4, <3>1, <3>2, <3>4, <3>6, <3>7, <3>8 DEF SameVersion
    <3>9. CASE after[r].rev > before[r].rev
      BY <2>2, <2>4, <3>4, <3>6, <3>7, <3>9
    <3> QED BY <3>5, <3>8, <3>9
  <2> QED BY <2>3, <2>4
<1>2. CASE ~ \E r \in Req : Commit(r)
  <2>1. doc' = doc BY <1>2, OnlyCommitStores
  <2>2. CASE \E r \in Req, c \in Ci : Get(r, c)
    BY <1>0, <2>1, <2>2 DEF Get, Etags, Live
  <2>3. CASE seen' = seen /\ (seen[q] # None => target'[q] = target[q])
    BY <2>1, <2>3 DEF Etags, Live
  <2>4. ASSUME ~ \E r \in Req, c \in Ci : Get(r, c)
        PROVE  seen' = seen /\ (seen[q] # None => target'[q] = target[q])
    <3>1. target \in [Req -> Ci \cup {None}] BY <1>0
    <3>2. ASSUME NEW r \in Req, FreshStep(r) PROVE seen' = seen /\ (seen[q] # None => target'[q] = target[q])
      BY <3>1, <3>2 DEF FreshStep, FreshId, TypeInv, Locals
    <3>3. ASSUME NEW r \in Req, NEW d \in Doc \cup {None}, NEW step \in {"audit", "commit"},
                 WriteStep(r, d, step)
          PROVE  seen' = seen /\ (seen[q] # None => target'[q] = target[q])
      BY <3>3 DEF WriteStep, Written
    <3>4. ASSUME NEW r \in Req, NEW c \in Ci \cup {None}, NEW request \in Request,
                 StartStep(r, c, request)
          PROVE  seen' = seen /\ (seen[q] # None => target'[q] = target[q])
      BY <3>1, <3>4 DEF StartStep, Start
    <3>5. ASSUME NEW r \in Req, NEW a \in Replies, RejectStep(r, a)
          PROVE  seen' = seen /\ target' = target
      BY <3>5 DEF RejectStep, Reject
    <3>6. ASSUME NEW r \in Req, NEW c \in Ci, ContinueStep(r, c)
          PROVE  seen' = seen /\ (seen[q] # None => target'[q] = target[q])
      BY <3>1, <3>6 DEF ContinueStep, Continue
    <3>7. ASSUME NEW r \in Req, CasMisses(r) \/ RecordAudit(r) \/ AddToOutbox(r)
          PROVE  seen' = seen /\ target' = target
      BY <3>7 DEF CasMisses, RecordAudit, AddToOutbox
    <3>8. CASE UNCHANGED vars BY <3>8 DEF vars
    <3> QED
      BY StepShapes, <1>2, <2>4, <3>2, <3>3, <3>4, <3>5, <3>6, <3>7, <3>8
  <2> QED BY <2>2, <2>3, <2>4
<1> QED BY <1>1, <1>2

(* What a commit appends: a record and its event, or, when it only         *)
(* refreshed provenance, nothing.                                          *)
LEMMA CommitAppends ==
  ASSUME TypeInv, Sessions, TxnEnabled, NEW r \in Req, Commit(r)
  PROVE  LET c == target[r] IN
         \/ /\ before[r] \in Doc \/ after[r] \in Doc
            /\ audit' = [audit EXCEPT ![c] = Append(audit[c], EntryOf(r))]
            /\ outbox' = [outbox EXCEPT ![c] = Append(outbox[c], EventOf(r))]
         \/ /\ SameVersion(before[r], after[r])
            /\ audit' = audit /\ outbox' = outbox
<1> USE ConstantsAssumption
<1>1. /\ pc[r] = "commit" /\ target[r] \in Ci
      /\ audit \in [Ci -> Seq(Entry)] /\ outbox \in [Ci -> Seq(Event)]
      /\ before[r] \in Doc \cup {None} /\ after[r] \in Doc \cup {None}
  BY DEF Commit, TypeInv, TypeOK, Locals, Working
<1>2. /\ audit' = [audit EXCEPT ![target[r]] = Extend(audit[target[r]], pend[r].entry)]
      /\ outbox' = [outbox EXCEPT ![target[r]] = Extend(outbox[target[r]], pend[r].event)]
  BY DEF Commit
<1>3. Session(r) BY DEF Sessions
<1>4. CASE /\ before[r] \in Doc \/ after[r] \in Doc
           /\ pend[r] = [doc |-> {after[r]}, entry |-> EntryOf(r), event |-> EventOf(r)]
  <2>1. EntryOf(r) \in Entry BY <1>1 DEF EntryOf, Entry
  <2>2. EventOf(r) \in Event BY <1>1, <1>4 DEF EventOf, Event
  <2>3. /\ Extend(audit[target[r]], pend[r].entry) = Append(audit[target[r]], EntryOf(r))
        /\ Extend(outbox[target[r]], pend[r].event) = Append(outbox[target[r]], EventOf(r))
    BY <1>4, <2>1, <2>2 DEF Extend
  <2> QED BY <1>2, <1>4, <2>3
<1>5. CASE /\ SameVersion(before[r], after[r])
           /\ pend[r] = [doc |-> {after[r]}, entry |-> None, event |-> None]
  BY <1>1, <1>2, <1>5 DEF Extend
<1> QED BY <1>1, <1>3, <1>4, <1>5 DEF Session

LEMMA StepUnitOfWork ==
  TypeInv /\ Sessions /\ (TxnEnabled => UnitOfWork) /\ [Next]_vars => (TxnEnabled => UnitOfWork')
<1> SUFFICES ASSUME TypeInv, Sessions, UnitOfWork, [Next]_vars, TxnEnabled, NEW c \in Ci
             PROVE  /\ Len(audit'[c]) = Len(outbox'[c])
                    /\ \A i \in DOMAIN audit'[c] :
                         outbox'[c][i].payload =
                           IF audit'[c][i].after = None THEN audit'[c][i].before
                           ELSE audit'[c][i].after
  BY DEF UnitOfWork
<1> USE ConstantsAssumption
<1>0. /\ audit \in [Ci -> Seq(Entry)] /\ outbox \in [Ci -> Seq(Event)]
      /\ Len(audit[c]) = Len(outbox[c])
      /\ \A i \in DOMAIN audit[c] :
           outbox[c][i].payload =
             IF audit[c][i].after = None THEN audit[c][i].before ELSE audit[c][i].after
  BY DEF UnitOfWork, TypeInv, TypeOK
<1>1. CASE ~ \E r \in Req : Commit(r)
  BY <1>0, <1>1, OnlyCommitStores
<1>2. ASSUME NEW r \in Req, Commit(r), target[r] = c,
             before[r] \in Doc \/ after[r] \in Doc,
             audit' = [audit EXCEPT ![c] = Append(audit[c], EntryOf(r))],
             outbox' = [outbox EXCEPT ![c] = Append(outbox[c], EventOf(r))]
      PROVE  /\ Len(audit'[c]) = Len(outbox'[c])
             /\ \A i \in DOMAIN audit'[c] :
                  outbox'[c][i].payload =
                    IF audit'[c][i].after = None THEN audit'[c][i].before
                    ELSE audit'[c][i].after
  <2>1. /\ EntryOf(r) \in Entry /\ EventOf(r) \in Event
        /\ EventOf(r).payload = IF EntryOf(r).after = None THEN EntryOf(r).before
                                                           ELSE EntryOf(r).after
    BY <1>2 DEF EntryOf, EventOf, Entry, Event, TypeInv, TypeOK
  <2> DEFINE e == EntryOf(r)
             v == EventOf(r)
  <2>2. audit'[c] = Append(audit[c], e) /\ outbox'[c] = Append(outbox[c], v)
    BY <1>0, <1>2
  <2>3. audit[c] \in Seq(Entry) /\ outbox[c] \in Seq(Event) BY <1>0
  <2>4. e \in Entry /\ v \in Event
        /\ v.payload = IF e.after = None THEN e.before ELSE e.after
    BY <2>1
  <2> HIDE DEF e, v
  <2> QED BY <1>0, <2>2, <2>3, <2>4
<1>3. ASSUME NEW r \in Req, Commit(r)
      PROVE  /\ Len(audit'[c]) = Len(outbox'[c])
             /\ \A i \in DOMAIN audit'[c] :
                  outbox'[c][i].payload =
                    IF audit'[c][i].after = None THEN audit'[c][i].before
                    ELSE audit'[c][i].after
  <2>1. CASE target[r] = c BY <1>0, <1>2, <1>3, <2>1, CommitAppends
  <2>2. CASE target[r] # c
    <3>1. audit'[c] = audit[c] /\ outbox'[c] = outbox[c] BY <1>0, <1>3, <2>2 DEF Commit
    <3> QED BY <1>0, <3>1
  <2> QED BY <2>1, <2>2
<1> QED BY <1>1, <1>3

LEMMA StepAuditChain ==
  Inv /\ (TxnEnabled => AuditChain) /\ [Next]_vars => (TxnEnabled => AuditChain')
<1> SUFFICES ASSUME Inv, AuditChain, [Next]_vars, TxnEnabled, NEW c \in Ci
             PROVE  /\ audit'[c] = <<>> => doc'[c] = None
                    /\ audit'[c] # <<>> => /\ audit'[c][1].before = None
                                          /\ SameVersion(audit'[c][Len(audit'[c])].after, doc'[c])
                    /\ \A i \in 1..(Len(audit'[c]) - 1) :
                         /\ audit'[c][i].after # None
                         /\ SameVersion(audit'[c][i].after, audit'[c][i + 1].before)
  BY DEF AuditChain, SameVersion
<1> USE ConstantsAssumption DEF Inv
<1>0. /\ audit \in [Ci -> Seq(Entry)] /\ doc \in [Ci -> Doc \cup {None}]
      /\ audit[c] = <<>> => doc[c] = None
      /\ audit[c] # <<>> => /\ audit[c][1].before = None
                           /\ SameVersion(audit[c][Len(audit[c])].after, doc[c])
      /\ \A i \in 1..(Len(audit[c]) - 1) :
           /\ audit[c][i].after # None
           /\ SameVersion(audit[c][i].after, audit[c][i + 1].before)
  BY DEF AuditChain, TypeInv, TypeOK
<1>1. CASE ~ \E r \in Req : Commit(r)
  BY <1>0, <1>1, OnlyCommitStores
<1>2. ASSUME NEW r \in Req, Commit(r), target[r] # c
      PROVE  audit'[c] = audit[c] /\ doc'[c] = doc[c]
  BY <1>0, <1>2 DEF Commit
<1>3. ASSUME NEW r \in Req, Commit(r), target[r] = c
      PROVE  /\ doc[c] = before[r] /\ doc'[c] = after[r]
             /\ before[r] = None => audit[c] = <<>>
             /\ \/ audit'[c] = Append(audit[c], EntryOf(r))
                \/ audit'[c] = audit[c] /\ SameVersion(before[r], after[r])
  <2>1. pc[r] = "commit" BY <1>3 DEF Commit
  <2>2. doc' = [doc EXCEPT ![c] = after[r]] BY <1>3, CommitEffect
  <2>3. doc[c] = before[r] BY <1>3, <2>1 DEF Isolation, Holding
  <2>4. before[r] = None => audit[c] = <<>> BY <1>3, <2>1 DEF Ids, Working
  <2> QED BY <1>0, <1>3, <2>2, <2>3, <2>4, CommitAppends
<1>4. ASSUME NEW r \in Req, Commit(r), target[r] = c, audit'[c] = Append(audit[c], EntryOf(r))
      PROVE  /\ audit'[c] # <<>> /\ audit'[c][1].before = None
             /\ SameVersion(audit'[c][Len(audit'[c])].after, doc'[c])
             /\ \A i \in 1..(Len(audit'[c]) - 1) :
                  /\ audit'[c][i].after # None
                  /\ SameVersion(audit'[c][i].after, audit'[c][i + 1].before)
  <2> DEFINE e == EntryOf(r)
  <2>1. e \in Entry /\ e.before = before[r] /\ e.after = after[r]
    BY DEF EntryOf, Entry, TypeInv, TypeOK
  <2>2. doc[c] = before[r] /\ doc'[c] = after[r] /\ (before[r] = None => audit[c] = <<>>)
    BY <1>3, <1>4
  <2>3. audit'[c] = Append(audit[c], e) /\ audit[c] \in Seq(Entry) BY <1>0, <1>4
  <2> HIDE DEF e
  <2>4. CASE audit[c] = <<>>
    <3>1. audit'[c] = <<e>> BY <2>3, <2>4
    <3>2. before[r] = None BY <1>0, <2>2, <2>4
    <3> QED BY <2>1, <2>2, <3>1, <3>2 DEF SameVersion
  <2>5. CASE audit[c] # <<>>
    <3>1. before[r] # None BY <1>0, <2>2, <2>5
    <3> DEFINE n == Len(audit[c])
    <3>2. n \in Nat /\ n >= 1 BY <2>3, <2>5
    <3>3. /\ Len(audit'[c]) = n + 1 /\ audit'[c][n + 1] = e
          /\ \A i \in 1..n : audit'[c][i] = audit[c][i]
      BY <2>3
    <3>4. SameVersion(audit[c][n].after, before[r]) /\ audit[c][n].after # None
      BY <1>0, <2>2, <2>5, <3>1 DEF SameVersion
    <3> HIDE DEF n
    <3>5. audit'[c] # <<>> /\ audit'[c][1].before = None
      BY <1>0, <2>5, <3>2, <3>3
    <3>6. SameVersion(audit'[c][Len(audit'[c])].after, doc'[c])
      BY <2>1, <2>2, <3>3 DEF SameVersion
    <3>7. ASSUME NEW i \in 1..(Len(audit'[c]) - 1)
          PROVE  /\ audit'[c][i].after # None
                 /\ SameVersion(audit'[c][i].after, audit'[c][i + 1].before)
      <4>1. CASE i = n BY <2>1, <3>2, <3>3, <3>4, <4>1
      <4>2. CASE i # n
        <5>1. i \in 1..(n - 1) /\ i \in 1..n /\ i + 1 \in 1..n BY <3>2, <3>3, <3>7, <4>2
        <5>2. audit'[c][i] = audit[c][i] /\ audit'[c][i + 1] = audit[c][i + 1] BY <3>3, <5>1
        <5> QED BY <1>0, <5>1, <5>2 DEF n
      <4> QED BY <4>1, <4>2
    <3> QED BY <3>5, <3>6, <3>7
  <2> QED BY <2>4, <2>5
<1>5. ASSUME NEW r \in Req, Commit(r), target[r] = c, audit'[c] = audit[c],
             SameVersion(before[r], after[r])
      PROVE  SameVersion(doc[c], doc'[c])
  BY <1>3, <1>5
<1>6. SameVersion(doc[c], doc'[c]) /\ audit'[c] = audit[c] =>
        /\ audit'[c] = <<>> => doc'[c] = None
        /\ audit'[c] # <<>> => SameVersion(audit'[c][Len(audit'[c])].after, doc'[c])
  BY <1>0 DEF SameVersion
<1> QED BY <1>0, <1>1, <1>2, <1>3, <1>4, <1>5, <1>6

LEMMA StepMatched == TypeInv /\ Matched /\ [Next]_vars => Matched'
<1> SUFFICES ASSUME TypeInv, Matched, [Next]_vars, TxnEnabled, NEW q \in Req
             PROVE  MatchedFor(q)'
  BY ConstantsAssumption DEF Matched
<1>0. /\ MatchedFor(q)
      /\ pc \in [Req -> Steps] /\ before \in [Req -> Doc \cup {None}]
  BY DEF Matched, TypeInv, TypeOK
<1> USE <1>0 DEF MatchedFor, Holding, ClientKinds
<1>1. ASSUME NEW r \in Req, FreshStep(r)
      PROVE  MatchedFor(q)'
  BY <1>1 DEF FreshStep, FreshId, ById
<1>2. ASSUME NEW r \in Req, NEW d \in Doc \cup {None}, NEW step \in {"audit", "commit"},
             WriteStep(r, d, step)
      PROVE  MatchedFor(q)'
  BY <1>2 DEF WriteStep, Written
<1>3. ASSUME NEW r \in Req, NEW c \in Ci, ContinueStep(r, c)
      PROVE  MatchedFor(q)'
  BY <1>3 DEF ContinueStep, Continue
<1>4. ASSUME NEW r \in Req, NEW c \in Ci \cup {None}, NEW request \in Request,
             StartStep(r, c, request)
      PROVE  MatchedFor(q)'
  BY <1>4 DEF StartStep, Start, TypeInv, TypeOK
<1>5. ASSUME NEW r \in Req, NEW c \in Ci, Get(r, c)
      PROVE  MatchedFor(q)'
  BY <1>5 DEF Get
<1>6. ASSUME NEW r \in Req, NEW a \in Replies, RejectStep(r, a)
      PROVE  MatchedFor(q)'
  BY <1>6 DEF RejectStep, Reject, Finish
<1>7. ASSUME NEW r \in Req, CasMisses(r) \/ RecordAudit(r) \/ AddToOutbox(r)
      PROVE  MatchedFor(q)'
  BY <1>7 DEF CasMisses, RecordAudit, AddToOutbox
<1>8. ASSUME NEW r \in Req, Commit(r)
      PROVE  MatchedFor(q)'
  BY <1>8 DEF Commit, Finish
<1>9. CASE UNCHANGED vars BY <1>9 DEF vars
<1> QED
  BY StepShapes, <1>1, <1>2, <1>3, <1>4, <1>5, <1>6, <1>7, <1>8, <1>9

LEMMA Invariance == Spec => []Inv
<1>1. Inv /\ [Next]_vars => Inv'
  BY StepTypeInv, StepSessions, StepIsolation, StepIds, StepEtags, StepMatched DEF Inv
<1> QED BY InitInv, <1>1, PTL DEF Spec

(***************************************************************************)
(* With transactions, the repository keeps its promises.                   *)
(***************************************************************************)
(* A CI's audit records and outbox events pair up at every moment: no      *)
(* change is recorded without being published, or published unrecorded.    *)
THEOREM UnitOfWorkHolds == ASSUME TxnEnabled PROVE Spec => []UnitOfWork
<1>1. Init => UnitOfWork BY DEF Init, UnitOfWork
<1>2. Inv /\ UnitOfWork /\ [Next]_vars => UnitOfWork' BY StepUnitOfWork DEF Inv
<1> QED BY Invariance, <1>1, <1>2, PTL DEF Spec

(* The audit log of a CI is its whole lineage, up to what is stored now.   *)
THEOREM AuditChainHolds == ASSUME TxnEnabled PROVE Spec => []AuditChain
<1>1. Init => AuditChain BY ConstantsAssumption DEF Init, AuditChain, SameVersion
<1>2. Inv /\ AuditChain /\ [Next]_vars => AuditChain' BY StepAuditChain
<1> QED BY Invariance, <1>1, <1>2, PTL DEF Spec

(* An ETag names one version of its CI.                                    *)
THEOREM RevisionIdentifiesContentHolds ==
  ASSUME TxnEnabled PROVE Spec => []RevisionIdentifiesContent
<1>1. Inv => RevisionIdentifiesContent BY DEF Inv, Etags, RevisionIdentifiesContent
<1> QED BY Invariance, <1>1, PTL

(* Revisions grow, and new content always comes with a new revision.       *)
THEOREM RevisionsOnlyGrowHolds == ASSUME TxnEnabled PROVE Spec => RevisionsOnlyGrow
<1>1. ASSUME Inv, [Next]_vars, NEW c \in Ci, Live(c), doc'[c] # None
      PROVE  /\ doc'[c].rev >= doc[c].rev
             /\ doc'[c].content # doc[c].content => doc'[c].rev > doc[c].rev
  <2>1. doc \in [Ci -> Doc \cup {None}] /\ \A d \in Doc : d.rev \in Nat
    BY <1>1 DEF Inv, TypeInv, TypeOK, Doc
  <2>2. CASE doc'[c] = doc[c] BY <1>1, <2>1, <2>2 DEF Live
  <2>3. CASE doc'[c] # doc[c]
    <3>1. PICK r \in Req : Commit(r) BY <1>1, <2>3, OnlyCommitStores DEF Inv
    <3>2. doc' = [doc EXCEPT ![target[r]] = after[r]] /\ pc[r] = "commit"
      BY <1>1, <3>1, CommitEffect DEF Inv, Commit
    <3>3. target[r] = c /\ doc'[c] = after[r] BY <2>1, <2>3, <3>2
    <3>4. doc[c] = before[r] BY <1>1, <3>2, <3>3 DEF Inv, Isolation, Holding
    <3>5. SameVersion(before[r], after[r]) \/ after[r].rev > before[r].rev
      BY <1>1, <3>2, <3>3, <3>4 DEF Inv, Isolation, Holding, Live
    <3>6. before[r].rev \in Nat /\ after[r].rev \in Nat
      BY <1>1, <2>1, <3>3, <3>4 DEF Inv, TypeInv, TypeOK, Live
    <3> QED BY <1>1, <3>3, <3>4, <3>5, <3>6 DEF SameVersion, Live
  <2> QED BY <2>2, <2>3
<1>2. Inv /\ [Next]_vars =>
        [\A c \in Ci :
           (Live(c) /\ doc'[c] # None)
           => /\ doc'[c].rev >= doc[c].rev
              /\ doc'[c].content # doc[c].content => doc'[c].rev > doc[c].rev]_vars
  BY <1>1
<1> QED BY Invariance, <1>2, PTL DEF Spec, RevisionsOnlyGrow

(* No lost update: a write whose If-Match is the ETag its client fetched   *)
(* replaces or deletes the version that client saw, and no other.          *)
THEOREM NoLostUpdateHolds == ASSUME TxnEnabled PROVE Spec => NoLostUpdate
<1>1. ASSUME Inv, [Next]_vars, NEW r \in Req, Moves(r), op[r].kind \in ClientKinds,
             seen[r] # None, op[r].etag = seen[r].rev, doc'[target[r]] # doc[target[r]]
      PROVE  /\ doc[target[r]].rev = seen[r].rev
             /\ doc[target[r]].content = seen[r].content
  <2>1. PICK q \in Req : Commit(q) BY <1>1, OnlyCommitStores DEF Inv
  <2>2. q = r BY <1>1, <2>1 DEF Moves, Commit, Finish, Inv, TypeInv, TypeOK
  <2>3. pc[r] = "commit" /\ target[r] \in Ci /\ before[r] # None
    BY <1>1, <2>1, <2>2, ConstantsAssumption
       DEF Commit, Inv, TypeInv, Locals, Working, ById, ClientKinds
  <2>4. doc[target[r]] = before[r] BY <1>1, <2>3 DEF Inv, Isolation, Holding
  <2>5. op[r].etag \in Nat BY <1>1 DEF Inv, TypeInv, TypeOK
  <2>6. before[r].rev = op[r].etag BY <1>1, <2>3, <2>5 DEF Inv, Matched, MatchedFor, Holding
  <2> QED BY <1>1, <2>3, <2>4, <2>6 DEF Inv, Etags, Live
<1>2. Inv /\ [Next]_vars =>
        [\A r \in Req :
           (/\ Moves(r) /\ op[r].kind \in ClientKinds
            /\ seen[r] # None /\ op[r].etag = seen[r].rev
            /\ doc'[target[r]] # doc[target[r]])
           => /\ doc[target[r]].rev = seen[r].rev
              /\ doc[target[r]].content = seen[r].content]_vars
  BY <1>1
<1> QED BY Invariance, <1>2, PTL DEF Spec, NoLostUpdate

(***************************************************************************)
(* Refinement of CILedger.  What a request holds back with a record is a   *)
(* first version, the next one, or a removal.                              *)
(***************************************************************************)
NextVersion(r) ==
  /\ before[r] = None => after[r] # None /\ after[r].rev = 1
  /\ before[r] # None => after[r] = None \/ after[r].rev = before[r].rev + 1

Successions ==
  TxnEnabled =>
    \A r \in Req : pc[r] \in Holding /\ (pc[r] = "commit" => pend[r].entry # None)
                     => NextVersion(r)

LEMMA StepSuccessions ==
  TypeInv /\ Sessions /\ Successions /\ [Next]_vars => Successions'
<1> SUFFICES ASSUME TypeInv, Sessions, Successions, [Next]_vars, TxnEnabled, NEW q \in Req,
                    pc'[q] \in Holding, pc'[q] = "commit" => pend'[q].entry # None
             PROVE  NextVersion(q)'
  BY ConstantsAssumption DEF Successions, Holding
<1> USE ConstantsAssumption DEF Holding
<1>0. /\ pc \in [Req -> Steps] /\ pend \in [Req -> Pending]
      /\ before \in [Req -> Doc \cup {None}] /\ after \in [Req -> Doc \cup {None}]
      /\ \A r \in Req : Session(r)
  BY DEF TypeInv, TypeOK, Sessions
<1>1. CASE /\ pc'[q] = pc[q] /\ pend'[q] = pend[q]
           /\ before'[q] = before[q] /\ after'[q] = after[q]
  BY <1>1 DEF Successions, NextVersion
<1>2. ASSUME NEW r \in Req, NEW d \in Doc \cup {None}, NEW step \in {"audit", "commit"},
             WriteStep(r, d, step)
      PROVE  NextVersion(q)'
  <2>1. /\ pc' = [pc EXCEPT ![r] = step] /\ after' = [after EXCEPT ![r] = d]
        /\ before' = before /\ pend' = [pend EXCEPT ![r].doc = {d}] /\ pc[r] = "write"
    BY <1>2 DEF WriteStep, Written, StoreDoc
  <2>2. CASE q # r BY <1>0, <1>1, <2>1, <2>2
  <2>3. CASE q = r
    <3>1. pend[r] = NothingPending BY <1>0, <2>1 DEF Session
    <3>2. pend'[r].entry = None BY <1>0, <2>1, <3>1 DEF NothingPending
    <3>3. step = "audit" BY <1>0, <2>1, <2>3, <3>2
    <3>4. after'[r] = d /\ before'[r] = before[r] BY <1>0, <2>1
    <3> QED BY <1>2, <2>3, <3>3, <3>4 DEF WriteStep, NextVersion
  <2> QED BY <2>2, <2>3
<1>3. ASSUME NEW r \in Req, RecordAudit(r) \/ AddToOutbox(r) PROVE NextVersion(q)'
  <2>1. /\ pc[r] \in {"audit", "outbox"} /\ before' = before /\ after' = after
        /\ \A p \in Req \ {r} : pc'[p] = pc[p] /\ pend'[p] = pend[p]
    BY <1>0, <1>3 DEF RecordAudit, AddToOutbox, StoreEntry, StoreEvent
  <2> QED BY <1>1, <2>1 DEF Successions, NextVersion
<1>4. ASSUME NEW r \in Req, CasMisses(r) PROVE NextVersion(q)'
  BY <1>0, <1>1, <1>4 DEF CasMisses
<1>5. ASSUME NEW r \in Req, NEW a \in Replies, RejectStep(r, a) PROVE NextVersion(q)'
  BY <1>0, <1>1, <1>5 DEF RejectStep, Reject, Finish
<1>6. ASSUME NEW r \in Req, Commit(r) PROVE NextVersion(q)'
  BY <1>0, <1>1, <1>6 DEF Commit, Finish
<1>7. ASSUME NEW r \in Req, NEW c \in Ci, Get(r, c) \/ ContinueStep(r, c) PROVE NextVersion(q)'
  BY <1>0, <1>1, <1>7 DEF Get, ContinueStep, Continue
<1>8. ASSUME NEW r \in Req, NEW c \in Ci \cup {None}, NEW request \in Request,
             StartStep(r, c, request)
      PROVE  NextVersion(q)'
  BY <1>0, <1>1, <1>8 DEF StartStep, Start
<1>9. ASSUME NEW r \in Req, FreshStep(r) PROVE NextVersion(q)'
  BY <1>0, <1>1, <1>9 DEF FreshStep, FreshId
<1>10. CASE UNCHANGED vars BY <1>1, <1>10 DEF vars
<1> QED
  BY StepShapes, <1>2, <1>3, <1>4, <1>5, <1>6, <1>7, <1>8, <1>9, <1>10

(***************************************************************************)
(* The ledger of a store: its versions, the lineage its records tell, and  *)
(* the feed its events make.                                               *)
(***************************************************************************)
Recast(e) == [before |-> Version(e.before), after |-> Version(e.after)]
Lineage(s) == [i \in DOMAIN s |-> Recast(s[i])]
Published(s) == [i \in DOMAIN s |-> Version(s[i].payload)]

Versions == [c \in Ci |-> Version(doc[c])]
Lineages == [c \in Ci |-> Lineage(audit[c])]
Feeds == [c \in Ci |-> Published(outbox[c])]

VersionType == [rev : Nat \ {0}, content : Content]

LEMMA VersionTyped ==
  ASSUME NEW d \in Doc
  PROVE  Version(d) \in VersionType /\ Version(d) = [rev |-> d.rev, content |-> d.content]
BY ConstantsAssumption DEF Version, VersionType, Doc

LEMMA SameVersionSame ==
  ASSUME NEW d, NEW e, SameVersion(d, e)
  PROVE  Version(d) = Version(e)
BY DEF SameVersion, Version

(* A lineage and a feed grow at their end, as the records and events do.   *)
LEMMA LineageAppend ==
  ASSUME NEW s \in Seq(Entry), NEW e \in Entry
  PROVE  Lineage(Append(s, e)) = Append(Lineage(s), Recast(e))
<1> DEFINE V == {Recast(x) : x \in Entry}
           n == Len(s)
           t == Append(s, e)
<1>1. n \in Nat /\ DOMAIN s = 1..n /\ \A i \in 1..n : s[i] \in Entry OBVIOUS
<1>2. DOMAIN t = 1..(n + 1) /\ t[n + 1] = e /\ \A i \in 1..n : t[i] = s[i] BY <1>1
<1>3. \A i \in 1..n : Recast(s[i]) \in V BY <1>1
<1>4. Recast(e) \in V OBVIOUS
<1> HIDE DEF V, n, t
<1>5. Lineage(s) = [i \in 1..n |-> Recast(s[i])] BY <1>1 DEF Lineage
<1>6. Lineage(s) \in Seq(V) /\ Len(Lineage(s)) = n BY <1>1, <1>3, <1>5
<1>7. Lineage(t) = [i \in 1..(n + 1) |-> Recast(t[i])] BY <1>2 DEF Lineage
<1> DEFINE a == Append(Lineage(s), Recast(e))
<1>8. /\ a \in Seq(V) /\ DOMAIN a = 1..(n + 1) /\ a[n + 1] = Recast(e)
      /\ \A i \in 1..n : a[i] = Lineage(s)[i]
  BY <1>1, <1>4, <1>6
<1> HIDE DEF a
<1>9. \A i \in 1..(n + 1) : a[i] = Recast(t[i])
  <2> SUFFICES ASSUME NEW i \in 1..(n + 1) PROVE a[i] = Recast(t[i]) OBVIOUS
  <2>1. CASE i = n + 1 BY <1>2, <1>8, <2>1
  <2>2. CASE i \in 1..n BY <1>2, <1>5, <1>8, <2>2
  <2> QED BY <1>1, <2>1, <2>2
<1>10. a = [i \in 1..(n + 1) |-> Recast(t[i])] BY <1>8, <1>9
<1> QED BY <1>7, <1>10 DEF a, t

LEMMA PublishedAppend ==
  ASSUME NEW s \in Seq(Event), NEW e \in Event
  PROVE  Published(Append(s, e)) = Append(Published(s), Version(e.payload))
<1> DEFINE V == {Version(x.payload) : x \in Event}
           n == Len(s)
           t == Append(s, e)
<1>1. n \in Nat /\ DOMAIN s = 1..n /\ \A i \in 1..n : s[i] \in Event OBVIOUS
<1>2. DOMAIN t = 1..(n + 1) /\ t[n + 1] = e /\ \A i \in 1..n : t[i] = s[i] BY <1>1
<1>3. \A i \in 1..n : Version(s[i].payload) \in V BY <1>1
<1>4. Version(e.payload) \in V OBVIOUS
<1> HIDE DEF V, n, t
<1>5. Published(s) = [i \in 1..n |-> Version(s[i].payload)] BY <1>1 DEF Published
<1>6. Published(s) \in Seq(V) /\ Len(Published(s)) = n BY <1>1, <1>3, <1>5
<1>7. Published(t) = [i \in 1..(n + 1) |-> Version(t[i].payload)] BY <1>2 DEF Published
<1> DEFINE a == Append(Published(s), Version(e.payload))
<1>8. /\ a \in Seq(V) /\ DOMAIN a = 1..(n + 1) /\ a[n + 1] = Version(e.payload)
      /\ \A i \in 1..n : a[i] = Published(s)[i]
  BY <1>1, <1>4, <1>6
<1> HIDE DEF a
<1>9. \A i \in 1..(n + 1) : a[i] = Version(t[i].payload)
  <2> SUFFICES ASSUME NEW i \in 1..(n + 1) PROVE a[i] = Version(t[i].payload) OBVIOUS
  <2>1. CASE i = n + 1 BY <1>2, <1>8, <2>1
  <2>2. CASE i \in 1..n BY <1>2, <1>5, <1>8, <2>2
  <2> QED BY <1>1, <2>1, <2>2
<1>10. a = [i \in 1..(n + 1) |-> Version(t[i].payload)] BY <1>8, <1>9
<1> QED BY <1>7, <1>10 DEF a, t

LEMMA InitLedger == Init => Ledger!Init
<1> SUFFICES ASSUME Init PROVE Ledger!Init OBVIOUS
<1> USE ConstantsAssumption
<1>1. PICK x \in [Existing -> Ext \cup {None}], v \in Bodies \cap Content :
        doc = [c \in Ci |-> IF c \in Existing THEN FirstDoc(x[c], v) ELSE None]
  BY DEF Init
<1> DEFINE first == [rev |-> 1, content |-> v]
<1>2. \A c \in Existing : doc[c] \in Doc /\ Version(doc[c]) = first
  <2> SUFFICES ASSUME NEW c \in Existing PROVE doc[c] \in Doc /\ Version(doc[c]) = first
    OBVIOUS
  <2>1. doc[c] = FirstDoc(x[c], v) BY <1>1
  <2>2. doc[c] \in Doc BY <2>1, FirstDocType
  <2>3. doc[c].rev = 1 /\ doc[c].content = v BY <2>1 DEF FirstDoc
  <2> QED BY <2>2, <2>3, VersionTyped
<1>3. \A c \in Ci \ Existing : Version(doc[c]) = None BY <1>1 DEF Version
<1>4. Version(None) = None BY DEF Version
<1>5. Versions = [c \in Ci |-> IF c \in Existing THEN first ELSE None]
  BY <1>2, <1>3 DEF Versions
<1>6. Lineages = [c \in Ci |-> IF c \in Existing THEN <<[before |-> None, after |-> first]>>
                               ELSE <<>>]
  <2> SUFFICES ASSUME NEW c \in Ci
               PROVE  Lineage(audit[c]) = IF c \in Existing
                        THEN <<[before |-> None, after |-> first]>> ELSE <<>>
    BY DEF Lineages
  <2>1. CASE c \in Existing
    <3> DEFINE e == [req |-> None, before |-> None, after |-> doc[c]]
    <3>1. audit[c] = <<e>> BY <2>1 DEF Init
    <3>2. Recast(e) = [before |-> None, after |-> first] BY <1>2, <1>4, <2>1 DEF Recast
    <3> HIDE DEF e, first
    <3>3. Lineage(audit[c]) = <<Recast(e)>> BY <3>1 DEF Lineage
    <3> QED BY <2>1, <3>2, <3>3
  <2>2. CASE c \notin Existing
    <3>1. audit[c] = <<>> BY <2>2 DEF Init
    <3> QED BY <2>2, <3>1 DEF Lineage
  <2> QED BY <2>1, <2>2
<1>7. Feeds = [c \in Ci |-> IF c \in Existing THEN <<first>> ELSE <<>>]
  <2> SUFFICES ASSUME NEW c \in Ci
               PROVE  Published(outbox[c]) = IF c \in Existing THEN <<first>> ELSE <<>>
    BY DEF Feeds
  <2>1. CASE c \in Existing
    <3> DEFINE e == [kind |-> "created", payload |-> doc[c]]
    <3>1. outbox[c] = <<e>> BY <2>1 DEF Init
    <3>2. Version(e.payload) = first BY <1>2, <2>1
    <3> HIDE DEF e, first
    <3>3. Published(outbox[c]) = <<Version(e.payload)>> BY <3>1 DEF Published
    <3> QED BY <2>1, <3>2, <3>3
  <2>2. CASE c \notin Existing
    <3>1. outbox[c] = <<>> BY <2>2 DEF Init
    <3> QED BY <2>2, <3>1 DEF Published
  <2> QED BY <2>1, <2>2
<1>8. Existing \in SUBSET Ci /\ v \in Content OBVIOUS
<1>9. first = Ledger!First(v) BY DEF Ledger!First
<1> HIDE DEF first
<1>10. [c \in Ci |-> Version(doc[c])]
         = [c \in Ci |-> IF c \in Existing THEN Ledger!First(v) ELSE None]
  BY <1>5, <1>9 DEF Versions
<1>11. [c \in Ci |-> [i \in DOMAIN audit[c] |->
          [before |-> Version(audit[c][i].before), after |-> Version(audit[c][i].after)]]]
         = [c \in Ci |-> IF c \in Existing
              THEN <<[before |-> None, after |-> Ledger!First(v)]>> ELSE <<>>]
  BY <1>6, <1>9 DEF Lineages, Lineage, Recast
<1>12. [c \in Ci |-> [i \in DOMAIN outbox[c] |-> Version(outbox[c][i].payload)]]
         = [c \in Ci |-> IF c \in Existing THEN <<Ledger!First(v)>> ELSE <<>>]
  BY <1>7, <1>9 DEF Feeds, Published
<1> USE DEF Ledger!Init
<1> WITNESS Existing \in SUBSET Ci, v \in Content
<1> QED BY <1>10, <1>11, <1>12

(* A commit that holds back a record changes one CI of the ledger.         *)
LEMMA CommitChanges ==
  ASSUME Inv, Successions, TxnEnabled, NEW r \in Req, Commit(r), pend[r].entry # None
  PROVE  LET c == target[r] IN
         /\ c \in Ci /\ doc[c] = before[r] /\ NextVersion(r)
         /\ before[r] \in Doc \/ after[r] \in Doc
         /\ Versions' = [Versions EXCEPT ![c] = Version(after[r])]
         /\ Lineages' = [Lineages EXCEPT ![c] =
              Append(@, [before |-> Version(before[r]), after |-> Version(after[r])])]
         /\ Feeds' = [Feeds EXCEPT ![c] =
              Append(@, Version(IF after[r] = None THEN before[r] ELSE after[r]))]
<1> USE ConstantsAssumption
<1> DEFINE c == target[r]
           e == EntryOf(r)
           v == EventOf(r)
<1>1. pc[r] = "commit" BY DEF Commit
<1>2. /\ c \in Ci /\ doc \in [Ci -> Doc \cup {None}]
      /\ audit \in [Ci -> Seq(Entry)] /\ outbox \in [Ci -> Seq(Event)]
      /\ before[r] \in Doc \cup {None} /\ after[r] \in Doc \cup {None}
  BY <1>1 DEF Inv, TypeInv, TypeOK, Locals, Working
<1>3. /\ before[r] \in Doc \/ after[r] \in Doc
      /\ pend[r] = [doc |-> {after[r]}, entry |-> e, event |-> v]
  <2>1. Session(r) BY DEF Inv, Sessions
  <2>2. ~(pend[r] = [doc |-> {after[r]}, entry |-> None, event |-> None]) OBVIOUS
  <2> QED BY <1>1, <2>1, <2>2 DEF Session
<1>4. e \in Entry /\ Recast(e) = [before |-> Version(before[r]), after |-> Version(after[r])]
  BY <1>2 DEF EntryOf, Entry, Recast
<1>5. v \in Event /\ v.payload = IF after[r] = None THEN before[r] ELSE after[r]
  BY <1>2, <1>3 DEF EventOf, Event
<1> HIDE DEF e, v
<1>6. audit' = [audit EXCEPT ![c] = Append(audit[c], e)]
  BY <1>3, <1>4 DEF Commit, Extend
<1>7. outbox' = [outbox EXCEPT ![c] = Append(outbox[c], v)]
  <2>1. v # None /\ pend[r].event = v BY <1>3, <1>5
  <2> QED BY <2>1 DEF Commit, Extend
<1>8. doc' = [doc EXCEPT ![c] = after[r]] BY CommitEffect DEF Inv
<1>9. Versions' = [Versions EXCEPT ![c] = Version(after[r])]
  BY <1>2, <1>8 DEF Versions
<1>10. Lineages' = [Lineages EXCEPT ![c] = Append(@, Recast(e))]
  <2>1. audit[c] \in Seq(Entry) BY <1>2
  <2>2. Lineage(Append(audit[c], e)) = Append(Lineage(audit[c]), Recast(e))
    BY <1>4, <2>1, LineageAppend
  <2>3. \A d \in Ci : audit'[d] = IF d = c THEN Append(audit[c], e) ELSE audit[d]
    BY <1>2, <1>6
  <2>4. \A d \in Ci : Lineage(audit'[d]) =
          IF d = c THEN Append(Lineage(audit[c]), Recast(e)) ELSE Lineage(audit[d])
    BY <2>2, <2>3
  <2>5. Lineages' = [d \in Ci |-> Lineage(audit'[d])] BY DEF Lineages, Lineage, Recast
  <2> QED BY <1>2, <2>4, <2>5 DEF Lineages
<1>11. Feeds' = [Feeds EXCEPT ![c] = Append(@, Version(v.payload))]
  <2>1. outbox[c] \in Seq(Event) BY <1>2
  <2>2. Published(Append(outbox[c], v)) = Append(Published(outbox[c]), Version(v.payload))
    BY <1>5, <2>1, PublishedAppend
  <2>3. \A d \in Ci : outbox'[d] = IF d = c THEN Append(outbox[c], v) ELSE outbox[d]
    BY <1>2, <1>7
  <2>4. \A d \in Ci : Published(outbox'[d]) =
          IF d = c THEN Append(Published(outbox[c]), Version(v.payload)) ELSE Published(outbox[d])
    BY <2>2, <2>3
  <2>5. Feeds' = [d \in Ci |-> Published(outbox'[d])] BY DEF Feeds, Published
  <2> QED BY <1>2, <2>4, <2>5 DEF Feeds
<1>12. doc[c] = before[r] BY <1>1 DEF Inv, Isolation, Holding
<1>13. NextVersion(r) BY <1>1 DEF Successions, Holding
<1> QED BY <1>2, <1>3, <1>4, <1>5, <1>9, <1>10, <1>11, <1>12, <1>13

LEMMA VersionNone ==
  ASSUME NEW d \in Doc \cup {None}
  PROVE  Version(d) = None <=> d = None
BY ConstantsAssumption, VersionTyped DEF Version, VersionType

(* A change of one CI by the ledger's rules is a step of the ledger.       *)
LEMMA LedgerChanges ==
  ASSUME NEW c \in Ci, NEW w,
         Versions' = [Versions EXCEPT ![c] = w],
         Lineages' = [Lineages EXCEPT ![c] = Append(@, [before |-> Versions[c], after |-> w])],
         Feeds' = [Feeds EXCEPT ![c] = Append(@, IF w = None THEN Versions[c] ELSE w)]
  PROVE  /\ Lineages[c] = <<>> /\ (\E content \in Content : w = [rev |-> 1, content |-> content])
              => Ledger!Next
         /\ Versions[c] # None /\ (w = None \/ \E content \in Content :
                                     w = [rev |-> Versions[c].rev + 1, content |-> content])
              => Ledger!Next
<1>1. Ledger!Change(c, w)
  BY DEF Ledger!Change, Versions, Lineages, Lineage, Recast, Feeds, Published
<1>2. ASSUME Lineages[c] = <<>>, NEW content \in Content, w = [rev |-> 1, content |-> content]
      PROVE  Ledger!Create(c)
  <2>1. w = Ledger!First(content) BY <1>2 DEF Ledger!First
  <2>2. Ledger!Change(c, Ledger!First(content)) BY <1>1, <2>1
  <2> QED BY <1>2, <2>2 DEF Ledger!Create, Lineages, Lineage, Recast
<1>3. ASSUME Versions[c] # None, NEW content \in Content,
             w = [rev |-> Versions[c].rev + 1, content |-> content]
      PROVE  Ledger!Revise(c)
  <2>1. w = Ledger!Next1(Versions[c], content) BY <1>3 DEF Ledger!Next1
  <2>2. Ledger!Change(c, Ledger!Next1(Versions[c], content))
    BY <1>1, <2>1 DEF Ledger!Change
  <2> QED BY <1>3, <2>2 DEF Ledger!Revise, Versions
<1>4. ASSUME Versions[c] # None, w = None
      PROVE  Ledger!Remove(c)
  BY <1>1, <1>4 DEF Ledger!Remove, Versions
<1>5. Ledger!Create(c) \/ Ledger!Revise(c) \/ Ledger!Remove(c) => Ledger!Next
  BY DEF Ledger!Next
<1> QED BY <1>2, <1>3, <1>4, <1>5

LEMMA CommitLedger ==
  ASSUME Inv, Successions, TxnEnabled, NEW r \in Req, Commit(r), pend[r].entry # None
  PROVE  Ledger!Next
<1> USE ConstantsAssumption
<1>1. PICK c \in Ci : c = target[r] BY CommitChanges
<1>2. PICK w : w = Version(after[r]) OBVIOUS
<1>3. /\ doc[c] = before[r] /\ NextVersion(r)
      /\ before[r] \in Doc \/ after[r] \in Doc
      /\ before[r] \in Doc \cup {None} /\ after[r] \in Doc \cup {None}
  BY <1>1, CommitChanges DEF Inv, TypeInv, TypeOK
<1>4. /\ Versions' = [Versions EXCEPT ![c] = w]
      /\ Lineages' = [Lineages EXCEPT ![c] =
           Append(@, [before |-> Version(before[r]), after |-> w])]
      /\ Feeds' = [Feeds EXCEPT ![c] =
           Append(@, Version(IF after[r] = None THEN before[r] ELSE after[r]))]
  BY <1>1, <1>2, CommitChanges
<1>5. Versions[c] = Version(before[r]) BY <1>3 DEF Versions
<1>6. Version(IF after[r] = None THEN before[r] ELSE after[r]) = IF w = None THEN Versions[c] ELSE w
  BY <1>2, <1>3, <1>5, VersionNone
<1>7. /\ Lineages' = [Lineages EXCEPT ![c] = Append(@, [before |-> Versions[c], after |-> w])]
      /\ Feeds' = [Feeds EXCEPT ![c] = Append(@, IF w = None THEN Versions[c] ELSE w)]
  BY <1>4, <1>5, <1>6
<1>8. CASE before[r] = None
  <2>1. audit[c] = <<>> BY <1>1, <1>8 DEF Inv, Ids, Commit, Working
  <2>2. Lineages[c] = <<>> BY <2>1 DEF Lineages, Lineage
  <2>3. after[r] \in Doc /\ after[r].rev = 1 BY <1>3, <1>8 DEF NextVersion
  <2>4. after[r].content \in Content /\ w = [rev |-> 1, content |-> after[r].content]
    BY <1>2, <2>3, VersionTyped DEF Doc
  <2> QED BY <1>4, <1>7, <2>2, <2>4, LedgerChanges
<1>9. CASE before[r] # None
  <2>1. before[r] \in Doc /\ Versions[c] # None BY <1>3, <1>5, <1>9, VersionNone
  <2>2. CASE after[r] = None
    <3>1. w = None BY <1>2, <2>2, VersionNone
    <3> QED BY <1>4, <1>7, <2>1, <3>1, LedgerChanges
  <2>3. CASE after[r] # None
    <3>1. after[r] \in Doc /\ after[r].rev = before[r].rev + 1
      BY <1>3, <1>9, <2>3 DEF NextVersion
    <3>2. Versions[c].rev = before[r].rev BY <1>5, <2>1, VersionTyped
    <3>3. /\ after[r].content \in Content
          /\ w = [rev |-> Versions[c].rev + 1, content |-> after[r].content]
      BY <1>2, <3>1, <3>2, VersionTyped DEF Doc
    <3> QED BY <1>4, <1>7, <2>1, <3>3, LedgerChanges
  <2> QED BY <2>2, <2>3
<1> QED BY <1>8, <1>9

LEMMA StepLedger ==
  ASSUME Inv, Successions, TxnEnabled, [Next]_vars
  PROVE  [Ledger!Next]_(Ledger!vars)
<1> SUFFICES Ledger!Next \/ UNCHANGED <<Versions, Lineages, Feeds>>
  BY DEF Ledger!vars, Versions, Lineages, Lineage, Recast, Feeds, Published
<1>1. CASE ~ \E r \in Req : Commit(r)
  <2>1. UNCHANGED <<doc, audit, outbox>> BY <1>1, OnlyCommitStores DEF Inv
  <2> QED BY <2>1 DEF Versions, Lineages, Lineage, Recast, Feeds, Published
<1>2. ASSUME NEW r \in Req, Commit(r), pend[r].entry # None PROVE Ledger!Next
  BY <1>2, CommitLedger
<1>3. ASSUME NEW r \in Req, Commit(r), pend[r].entry = None
      PROVE  UNCHANGED <<Versions, Lineages, Feeds>>
  <2> USE ConstantsAssumption
  <2>1. /\ pc[r] = "commit" /\ target[r] \in Ci /\ doc \in [Ci -> Doc \cup {None}]
        /\ audit \in [Ci -> Seq(Entry)] /\ outbox \in [Ci -> Seq(Event)]
        /\ EntryOf(r) \in Entry
    BY <1>3 DEF Commit, Inv, TypeInv, TypeOK, Locals, Working, EntryOf, Entry
  <2>2. pend[r].entry # EntryOf(r) BY <1>3, <2>1
  <2>3. /\ SameVersion(before[r], after[r])
        /\ pend[r] = [doc |-> {after[r]}, entry |-> None, event |-> None]
    <3>1. Session(r) BY DEF Inv, Sessions
    <3> QED BY <2>1, <2>2, <3>1 DEF Session
  <2>4. audit' = audit /\ outbox' = outbox
    BY <1>3, <2>1, <2>3 DEF Commit, Extend
  <2>5. doc' = [doc EXCEPT ![target[r]] = after[r]] BY <1>3, CommitEffect DEF Inv
  <2>6. doc[target[r]] = before[r] BY <2>1 DEF Inv, Isolation, Holding
  <2>7. Version(after[r]) = Version(before[r]) BY <2>3, SameVersionSame
  <2>8. \A c \in Ci : Version(doc'[c]) = Version(doc[c]) BY <2>1, <2>5, <2>6, <2>7
  <2>9. Versions' = Versions BY <2>8 DEF Versions, Version
  <2> QED BY <2>4, <2>9 DEF Lineages, Lineage, Recast, Feeds, Published
<1> QED BY <1>1, <1>2, <1>3

(* With transactions, whatever requests interleave and wherever they stop, *)
(* each step changes one CI together with its lineage and its feed, from   *)
(* revision to next revision, or nothing: CIStore implements CILedger.     *)
THEOREM ImplementsLedgerHolds == ASSUME TxnEnabled PROVE Spec => ImplementsLedger
<1>1. Init => Ledger!Init /\ Successions
  BY InitLedger DEF Init, Successions, Holding
<1>2. Inv /\ Successions /\ [Next]_vars => Successions'
  BY StepSuccessions DEF Inv
<1>3. Inv /\ Successions /\ [Next]_vars => [Ledger!Next]_(Ledger!vars)
  BY StepLedger
<1> QED BY Invariance, <1>1, <1>2, <1>3, PTL DEF Spec, ImplementsLedger, Ledger!Spec

(***************************************************************************)
(* What a request has left behind, and what it was told.                   *)
(***************************************************************************)
Unrecorded(r) == \A c \in Ci : \A i \in DOMAIN audit[c] : audit[c][i].req # r

RecordedOnce(r) ==
  \E i \in Recorded(r) :
    /\ Recorded(r) = {i}
    /\ \E k \in DOMAIN outbox[target[r]] :
         outbox[target[r]][k].payload =
           IF op[r].kind = "delete" THEN audit[target[r]][i].before
                                    ELSE audit[target[r]][i].after

DeedsOf(r) ==
  /\ resp[r] = "none" <=> pc[r] # "done"
  /\ pc[r] # "done" \/ resp[r] \in {"notfound", "precondition"} => Unrecorded(r)
  /\ pc[r] \in Holding /\ op[r].kind = "delete" => after[r] = None
  /\ pc[r] \in Holding /\ op[r].kind \in {"put", "patch"} => after[r] # None
  /\ pc[r] = "commit" /\ op[r].kind \in ClientKinds => pend[r].entry # None
  /\ resp[r] = "ok" /\ op[r].kind \in ClientKinds => target[r] \in Ci /\ RecordedOnce(r)

Deeds == TxnEnabled => \A r \in Req : DeedsOf(r)

(* Another request's commit, and a step that stores nothing, leave what is *)
(* true of the records of r as it was.                                     *)
LEMMA OthersRecords ==
  ASSUME TypeInv, Sessions, TxnEnabled, [Next]_vars, NEW r \in Req, ~Commit(r),
         target'[r] = target[r], op'[r] = op[r]
  PROVE  /\ Unrecorded(r) => Unrecorded(r)'
         /\ target[r] \in Ci /\ RecordedOnce(r) => RecordedOnce(r)'
<1> USE ConstantsAssumption
<1>0. audit \in [Ci -> Seq(Entry)] /\ outbox \in [Ci -> Seq(Event)] BY DEF TypeInv, TypeOK
<1>1. CASE UNCHANGED <<audit, outbox>>
  BY <1>1 DEF Unrecorded, RecordedOnce, Recorded
<1>2. ASSUME NEW q \in Req, NEW c \in Ci, q # r,
             NEW e \in Entry, NEW v \in Event, e.req = q,
             audit' = [audit EXCEPT ![c] = Append(audit[c], e)],
             outbox' = [outbox EXCEPT ![c] = Append(outbox[c], v)]
      PROVE  /\ Unrecorded(r) => Unrecorded(r)'
             /\ target[r] \in Ci /\ RecordedOnce(r) => RecordedOnce(r)'
  <2> DEFINE n == Len(audit[c])
             m == Len(outbox[c])
  <2>1. /\ n \in Nat /\ DOMAIN audit[c] = 1..n /\ DOMAIN audit'[c] = 1..(n + 1)
        /\ audit'[c][n + 1] = e /\ \A i \in 1..n : audit'[c][i] = audit[c][i]
    BY <1>0, <1>2
  <2>2. /\ m \in Nat /\ DOMAIN outbox[c] = 1..m /\ DOMAIN outbox'[c] = 1..(m + 1)
        /\ \A k \in 1..m : outbox'[c][k] = outbox[c][k]
    BY <1>0, <1>2
  <2> HIDE DEF n, m
  <2>3. \A d \in Ci \ {c} : audit'[d] = audit[d] /\ outbox'[d] = outbox[d]
    BY <1>0, <1>2
  <2>4. ASSUME Unrecorded(r) PROVE Unrecorded(r)'
    <3> SUFFICES ASSUME NEW d \in Ci, NEW i \in DOMAIN audit'[d] PROVE audit'[d][i].req # r
      BY DEF Unrecorded
    <3>1. CASE d # c BY <2>3, <2>4, <3>1 DEF Unrecorded
    <3>2. CASE d = c /\ i = n + 1 BY <1>2, <2>1, <3>2
    <3>3. CASE d = c /\ i # n + 1
      <4>1. i \in 1..n BY <2>1, <3>3
      <4> QED BY <2>1, <2>4, <3>3, <4>1 DEF Unrecorded
    <3> QED BY <3>1, <3>2, <3>3
  <2>5. ASSUME target[r] \in Ci, RecordedOnce(r) PROVE RecordedOnce(r)'
    <3>1. CASE target[r] # c
      <4>1. audit'[target[r]] = audit[target[r]] /\ outbox'[target[r]] = outbox[target[r]]
        BY <2>3, <2>5, <3>1
      <4> QED BY <2>5, <4>1 DEF RecordedOnce, Recorded
    <3>2. CASE target[r] = c
      <4>1. Recorded(r)' = Recorded(r)
        <5>1. Recorded(r) = {i \in 1..n : audit[c][i].req = r} BY <2>1, <3>2 DEF Recorded
        <5>2. Recorded(r)' = {i \in 1..(n + 1) : audit'[c][i].req = r}
          BY <2>1, <3>2 DEF Recorded
        <5>3. audit'[c][n + 1].req # r BY <1>2, <2>1
        <5>4. \A i \in 1..(n + 1) : audit'[c][i].req = r => i \in 1..n
          BY <2>1, <5>3
        <5>5. \A i \in 1..n : i \in 1..(n + 1) BY <2>1
        <5> QED BY <2>1, <5>1, <5>2, <5>4, <5>5
      <4>2. PICK i \in Recorded(r) :
              /\ Recorded(r) = {i}
              /\ \E k \in DOMAIN outbox[target[r]] :
                   outbox[target[r]][k].payload =
                     IF op[r].kind = "delete" THEN audit[target[r]][i].before
                                              ELSE audit[target[r]][i].after
        BY <2>5 DEF RecordedOnce
      <4>3. PICK k \in 1..m :
              outbox[c][k].payload =
                IF op[r].kind = "delete" THEN audit[c][i].before ELSE audit[c][i].after
        BY <2>2, <3>2, <4>2
      <4>4. i \in 1..n BY <2>1, <3>2, <4>2 DEF Recorded
      <4>5. k \in 1..(m + 1) BY <2>2, <4>3
      <4>6. outbox'[c][k].payload =
              IF op'[r].kind = "delete" THEN audit'[c][i].before ELSE audit'[c][i].after
        BY <2>1, <2>2, <4>3, <4>4
      <4> QED BY <2>2, <3>2, <4>1, <4>2, <4>5, <4>6 DEF RecordedOnce
    <3> QED BY <3>1, <3>2
  <2> QED BY <2>4, <2>5
<1>3. ASSUME NEW q \in Req, Commit(q)
      PROVE  \/ UNCHANGED <<audit, outbox>>
             \/ \E c \in Ci, e \in Entry, v \in Event :
                  /\ e.req = q
                  /\ audit' = [audit EXCEPT ![c] = Append(audit[c], e)]
                  /\ outbox' = [outbox EXCEPT ![c] = Append(outbox[c], v)]
  <2>1. /\ target[q] \in Ci
        /\ before[q] \in Doc \cup {None} /\ after[q] \in Doc \cup {None}
    BY <1>3 DEF Commit, TypeInv, TypeOK, Locals, Working
  <2>2. EntryOf(q) \in Entry /\ EntryOf(q).req = q BY <2>1 DEF EntryOf, Entry
  <2>3. before[q] \in Doc \/ after[q] \in Doc => EventOf(q) \in Event
    BY <2>1 DEF EventOf, Event
  <2> QED BY <1>3, <2>1, <2>2, <2>3, CommitAppends
<1>4. CASE ~ \E q \in Req : Commit(q) BY <1>1, <1>4, OnlyCommitStores
<1>5. CASE \E q \in Req : Commit(q)
  <2>1. PICK q \in Req : Commit(q) BY <1>5
  <2>2. q # r BY <2>1
  <2> QED BY <1>1, <1>2, <1>3, <2>1, <2>2
<1> QED BY <1>4, <1>5

(* A client's request that commits leaves one record and its event.        *)
LEMMA CommitRecords ==
  ASSUME Inv, TxnEnabled, NEW r \in Req, DeedsOf(r), Commit(r), op[r].kind \in ClientKinds
  PROVE  target[r] \in Ci /\ RecordedOnce(r)'
<1> USE ConstantsAssumption
<1> DEFINE c == target[r]
           e == EntryOf(r)
           v == EventOf(r)
<1>1. /\ pc[r] = "commit" /\ c \in Ci /\ target' = target /\ op' = op
      /\ audit \in [Ci -> Seq(Entry)] /\ outbox \in [Ci -> Seq(Event)]
      /\ before[r] \in Doc \cup {None} /\ after[r] \in Doc \cup {None}
  BY DEF Commit, Inv, TypeInv, TypeOK, Locals, Working
<1>2. pend[r].entry # None /\ Unrecorded(r) BY <1>1 DEF DeedsOf
<1>3. /\ before[r] \in Doc \/ after[r] \in Doc
      /\ pend[r] = [doc |-> {after[r]}, entry |-> e, event |-> v]
  <2>1. Session(r) BY DEF Inv, Sessions
  <2>2. ~(pend[r] = [doc |-> {after[r]}, entry |-> None, event |-> None]) BY <1>2
  <2> QED BY <1>1, <2>1, <2>2 DEF Session
<1>4. e \in Entry /\ e.req = r /\ e.before = before[r] /\ e.after = after[r]
  BY <1>1 DEF EntryOf, Entry
<1>5. v \in Event /\ v.payload = IF after[r] = None THEN before[r] ELSE after[r]
  BY <1>1, <1>3 DEF EventOf, Event
<1>6. op[r].kind = "delete" <=> after[r] = None
  BY <1>1 DEF DeedsOf, Holding, ClientKinds
<1> HIDE DEF e, v
<1>7. audit' = [audit EXCEPT ![c] = Append(audit[c], e)]
  <2>1. e # None /\ pend[r].entry = e BY <1>3, <1>4
  <2> QED BY <2>1 DEF Commit, Extend
<1>8. outbox' = [outbox EXCEPT ![c] = Append(outbox[c], v)]
  <2>1. v # None /\ pend[r].event = v BY <1>3, <1>5
  <2> QED BY <2>1 DEF Commit, Extend
<1> DEFINE n == Len(audit[c])
           m == Len(outbox[c])
<1>9. /\ n \in Nat /\ DOMAIN audit[c] = 1..n /\ DOMAIN audit'[c] = 1..(n + 1)
      /\ audit'[c][n + 1] = e /\ \A i \in 1..n : audit'[c][i] = audit[c][i]
  BY <1>1, <1>4, <1>7
<1>10. m \in Nat /\ DOMAIN outbox'[c] = 1..(m + 1) /\ outbox'[c][m + 1] = v
  BY <1>1, <1>5, <1>8
<1> HIDE DEF n, m
<1>11. Recorded(r)' = {n + 1}
  <2>1. Recorded(r)' = {i \in 1..(n + 1) : audit'[c][i].req = r} BY <1>1, <1>9 DEF Recorded
  <2>2. \A i \in 1..n : audit'[c][i].req # r BY <1>1, <1>2, <1>9 DEF Unrecorded
  <2>3. audit'[c][n + 1].req = r /\ n + 1 \in 1..(n + 1) BY <1>4, <1>9
  <2>4. \A i \in 1..(n + 1) : i = n + 1 \/ i \in 1..n BY <1>9
  <2> QED BY <2>1, <2>2, <2>3, <2>4
<1>12. m + 1 \in DOMAIN outbox'[c] BY <1>10
<1>13. outbox'[c][m + 1].payload =
         IF op'[r].kind = "delete" THEN audit'[c][n + 1].before ELSE audit'[c][n + 1].after
  BY <1>1, <1>4, <1>5, <1>6, <1>9, <1>10
<1> QED BY <1>1, <1>11, <1>12, <1>13 DEF RecordedOnce

LEMMA StepDeeds == Inv /\ Deeds /\ [Next]_vars => Deeds'
<1> SUFFICES ASSUME Inv, Deeds, [Next]_vars, TxnEnabled, NEW r \in Req
             PROVE  DeedsOf(r)'
  BY ConstantsAssumption DEF Deeds
<1> USE ConstantsAssumption DEF Holding, ClientKinds
<1>0. /\ pc \in [Req -> Steps] /\ pend \in [Req -> Pending] /\ resp \in [Req -> Replies]
      /\ op \in [Req -> Request \cup {NoOp}] /\ target \in [Req -> Ci \cup {None}]
      /\ before \in [Req -> Doc \cup {None}] /\ after \in [Req -> Doc \cup {None}]
      /\ TypeInv /\ Sessions /\ Session(r) /\ DeedsOf(r)
  BY DEF Inv, TypeInv, TypeOK, Sessions, Deeds
<1>1. ASSUME Commit(r) PROVE DeedsOf(r)'
  <2>1. /\ pc'[r] = "done" /\ resp'[r] \in {"ok", "error"} /\ op'[r] = op[r] /\ target'[r] = target[r]
    BY <1>0, <1>1 DEF Commit, Finish
  <2>2. op[r].kind \in ClientKinds => target[r] \in Ci /\ RecordedOnce(r)'
    BY <1>0, <1>1, CommitRecords
  <2> QED BY <2>1, <2>2 DEF DeedsOf
<1>2. ASSUME pc'[r] = pc[r], resp'[r] = resp[r], op'[r] = op[r], after'[r] = after[r],
             pend'[r] = pend[r], target'[r] = target[r], ~Commit(r)
      PROVE  DeedsOf(r)'
  <2>1. /\ Unrecorded(r) => Unrecorded(r)'
        /\ target[r] \in Ci /\ RecordedOnce(r) => RecordedOnce(r)'
    BY <1>0, <1>2, OthersRecords
  <2> QED BY <1>0, <1>2, <2>1 DEF DeedsOf
<1>3. ASSUME NEW q \in Req, NEW c \in Ci, Get(q, c) PROVE DeedsOf(r)'
  <2>1. /\ UNCHANGED <<pc, resp, op, after, pend, audit>>
        /\ pc[q] = "idle" /\ \A p \in Req \ {q} : target'[p] = target[p]
    BY <1>0, <1>3 DEF Get
  <2>2. CASE q # r
    <3>1. ~Commit(r)
      <4>1. Commit(r) => pc'[r] = "done" /\ pc[r] = "commit" BY <1>0 DEF Commit, Finish
      <4> QED BY <2>1, <4>1
    <3> QED BY <1>2, <2>1, <2>2, <3>1
  <2>3. CASE q = r BY <1>0, <2>1, <2>3 DEF DeedsOf, Unrecorded
  <2> QED BY <2>2, <2>3
<1>4. ASSUME NEW q \in Req, NEW c \in Ci \cup {None}, NEW request \in Request,
             StartStep(q, c, request)
      PROVE  DeedsOf(r)'
  <2>1. /\ UNCHANGED <<resp, after, pend, audit, outbox>>
        /\ pc[q] = "idle" /\ pc' = [pc EXCEPT ![q] = "read"]
        /\ \A p \in Req \ {q} : op'[p] = op[p] /\ target'[p] = target[p]
    BY <1>0, <1>4 DEF StartStep, Start
  <2>2. CASE q # r BY <1>0, <2>1, <2>2 DEF DeedsOf, Unrecorded, RecordedOnce, Recorded
  <2>3. CASE q = r BY <1>0, <2>1, <2>3 DEF DeedsOf, Unrecorded
  <2> QED BY <2>2, <2>3
<1>5. ASSUME NEW q \in Req, NEW a \in Replies, RejectStep(q, a) PROVE DeedsOf(r)'
  <2>1. /\ UNCHANGED <<doc, audit, outbox, op, target>> /\ pc[q] \notin {"idle", "done"}
        /\ pc' = [pc EXCEPT ![q] = "done"] /\ resp' = [resp EXCEPT ![q] = a]
        /\ pend' = [pend EXCEPT ![q] = NothingPending]
        /\ after' = [after EXCEPT ![q] = None]
        /\ a # "none" /\ (a = "ok" => op[q].kind = "missing")
    BY <1>5 DEF RejectStep, Reject, Finish
  <2>2. CASE q # r BY <1>0, <2>1, <2>2 DEF DeedsOf, Unrecorded, RecordedOnce, Recorded
  <2>3. CASE q = r
    <3>1. pc'[r] = "done" /\ resp'[r] = a /\ op'[r] = op[r] BY <1>0, <2>1, <2>3
    <3>2. Unrecorded(r)' BY <1>0, <2>1, <2>3 DEF DeedsOf, Unrecorded
    <3> QED BY <2>1, <2>3, <3>1, <3>2 DEF DeedsOf
  <2> QED BY <2>2, <2>3
<1>6. ASSUME NEW q \in Req, NEW d \in Doc \cup {None}, NEW step \in {"audit", "commit"},
             WriteStep(q, d, step)
      PROVE  DeedsOf(r)'
  <2>1. /\ UNCHANGED <<audit, outbox, op, target, resp>> /\ pc[q] = "write"
        /\ pc' = [pc EXCEPT ![q] = step] /\ after' = [after EXCEPT ![q] = d]
        /\ pend' = [pend EXCEPT ![q].doc = {d}]
        /\ op[q].kind = "delete" => d = None
        /\ op[q].kind \in {"put", "patch"} => d # None
        /\ step = "commit" => op[q].kind = "discover"
    BY <1>6 DEF WriteStep, Written, StoreDoc
  <2>2. CASE q # r BY <1>0, <2>1, <2>2 DEF DeedsOf, Unrecorded, RecordedOnce, Recorded
  <2>3. CASE q = r
    <3>1. pc'[r] = step /\ after'[r] = d /\ op'[r] = op[r] /\ resp'[r] = resp[r]
      BY <1>0, <2>1, <2>3
    <3>2. Unrecorded(r)' /\ resp[r] = "none"
      BY <1>0, <2>1, <2>3 DEF DeedsOf, Unrecorded
    <3> QED BY <2>1, <2>3, <3>1, <3>2 DEF DeedsOf
  <2> QED BY <2>2, <2>3
<1>7. ASSUME NEW q \in Req, RecordAudit(q) \/ AddToOutbox(q) PROVE DeedsOf(r)'
  <2>1. /\ UNCHANGED <<audit, outbox, op, target, resp, after>>
        /\ \/ pc[q] = "audit" /\ pc' = [pc EXCEPT ![q] = "outbox"]
           \/ pc[q] = "outbox" /\ pc' = [pc EXCEPT ![q] = "commit"]
        /\ \A p \in Req \ {q} : pend'[p] = pend[p]
    BY <1>0, <1>7 DEF RecordAudit, StoreEntry, AddToOutbox, StoreEvent
  <2>2. CASE q # r BY <1>0, <2>1, <2>2 DEF DeedsOf, Unrecorded, RecordedOnce, Recorded
  <2>3. CASE q = r
    <3>1. /\ pc'[r] \in {"outbox", "commit"} /\ pc[r] \in {"audit", "outbox"}
          /\ after'[r] = after[r] /\ op'[r] = op[r] /\ resp'[r] = resp[r]
      BY <1>0, <2>1, <2>3
    <3>2. Unrecorded(r)' /\ resp[r] = "none"
      BY <1>0, <2>1, <3>1 DEF DeedsOf, Unrecorded
    <3>3. pc'[r] = "commit" => pend'[r].entry # None
      <4>1. EntryOf(r) \in Entry BY <1>0 DEF EntryOf, Entry
      <4>2. CASE pc[r] = "outbox"
        <5>1. pend[r].entry = EntryOf(r) BY <1>0, <4>2 DEF Session
        <5>2. AddToOutbox(r) BY <1>7, <2>3, <4>2 DEF RecordAudit
        <5>3. pend'[r].entry = pend[r].entry
          BY <1>0, <5>2 DEF AddToOutbox, StoreEvent, Pending
        <5> QED BY <4>1, <5>1, <5>3
      <4> QED BY <1>0, <2>1, <2>3, <3>1, <4>2
    <3> QED BY <1>0, <3>1, <3>2, <3>3 DEF DeedsOf
  <2> QED BY <2>2, <2>3
<1>8. ASSUME NEW q \in Req, NEW c \in Ci, ContinueStep(q, c) PROVE DeedsOf(r)'
  <2>1. /\ UNCHANGED <<audit, outbox, op, resp, after, pend>> /\ pc[q] = "read"
        /\ pc' = [pc EXCEPT ![q] = "write"]
        /\ \A p \in Req \ {q} : target'[p] = target[p]
    BY <1>0, <1>8 DEF ContinueStep, Continue
  <2>2. CASE q # r BY <1>0, <2>1, <2>2 DEF DeedsOf, Unrecorded, RecordedOnce, Recorded
  <2>3. CASE q = r BY <1>0, <2>1, <2>3 DEF DeedsOf, Unrecorded
  <2> QED BY <2>2, <2>3
<1>9. ASSUME NEW q \in Req, FreshStep(q) PROVE DeedsOf(r)'
  <2>1. /\ UNCHANGED <<audit, outbox, op, resp, after, pend>> /\ pc[q] = "read"
        /\ pc' = [pc EXCEPT ![q] = "write"]
        /\ \A p \in Req \ {q} : target'[p] = target[p]
    BY <1>0, <1>9 DEF FreshStep, FreshId
  <2>2. CASE q # r BY <1>0, <2>1, <2>2 DEF DeedsOf, Unrecorded, RecordedOnce, Recorded
  <2>3. CASE q = r BY <1>0, <2>1, <2>3 DEF DeedsOf, Unrecorded
  <2> QED BY <2>2, <2>3
<1>10. ASSUME NEW q \in Req, CasMisses(q) PROVE DeedsOf(r)'
  <2>1. /\ UNCHANGED <<audit, outbox, op, resp, after, pend, target>> /\ pc[q] = "write"
        /\ pc' = [pc EXCEPT ![q] = "recheck"]
    BY <1>10 DEF CasMisses
  <2>2. CASE q # r BY <1>0, <2>1, <2>2 DEF DeedsOf, Unrecorded, RecordedOnce, Recorded
  <2>3. CASE q = r BY <1>0, <2>1, <2>3 DEF DeedsOf, Unrecorded
  <2> QED BY <2>2, <2>3
<1>11. ASSUME NEW q \in Req, Commit(q), q # r PROVE DeedsOf(r)'
  <2>1. /\ op' = op /\ target' = target /\ \A p \in Req \ {q} :
             pc'[p] = pc[p] /\ resp'[p] = resp[p] /\ after'[p] = after[p] /\ pend'[p] = pend[p]
    BY <1>0, <1>11 DEF Commit, Finish
  <2>2. ~Commit(r) BY <1>0, <1>11, <2>1 DEF Commit, Finish
  <2> QED BY <1>2, <1>11, <2>1, <2>2
<1>12. CASE UNCHANGED vars
  BY <1>0, <1>12 DEF vars, DeedsOf, Unrecorded, RecordedOnce, Recorded
<1> QED
  BY StepShapes, <1>0, <1>1, <1>3, <1>4, <1>5, <1>6, <1>7, <1>8, <1>9, <1>10, <1>11, <1>12

(* With transactions, a client that is told "ok" has its change recorded,  *)
(* exactly once, and published; one that is told that the CI is missing or *)
(* that its precondition failed has left no record.                        *)
THEOREM AnswersAreTrueHolds == ASSUME TxnEnabled PROVE Spec => []AnswersAreTrue
<1>1. Init => Deeds
  <2> SUFFICES ASSUME Init, NEW r \in Req PROVE DeedsOf(r)
    BY DEF Deeds
  <2>1. pc[r] = "idle" /\ resp[r] = "none" /\ op[r].kind = "none"
    BY DEF Init, NoOp
  <2>2. ASSUME NEW c \in Ci, NEW i \in DOMAIN audit[c] PROVE audit[c][i].req # r
    <3>1. CASE c \in Existing
      <4>1. audit[c] = <<[req |-> None, before |-> None, after |-> doc[c]]>>
        BY <3>1, ConstantsAssumption DEF Init
      <4>2. i = 1 BY <4>1, <2>2
      <4> QED BY <4>1, <4>2, ConstantsAssumption
    <3>2. CASE c \notin Existing
      <4>1. audit[c] = <<>> BY <3>2 DEF Init
      <4> QED BY <4>1, <2>2
    <3> QED BY <3>1, <3>2
  <2> QED BY <2>1, <2>2 DEF DeedsOf, Unrecorded, Holding, ClientKinds
<1>2. Inv /\ Deeds /\ [Next]_vars => Deeds'
  BY StepDeeds
<1>3. Inv /\ Deeds => AnswersAreTrue
  <2> SUFFICES ASSUME Inv, Deeds, NEW r \in Req, op[r].kind \in ClientKinds
               PROVE  /\ resp[r] = "ok" => RecordedOnce(r)
                      /\ resp[r] \in {"notfound", "precondition"} => Recorded(r) = {}
    BY DEF AnswersAreTrue, RecordedOnce
  <2>1. DeedsOf(r) BY DEF Deeds
  <2>2. target[r] \in Ci BY DEF Inv, TypeInv, Locals, ById, ClientKinds
  <2> QED BY <2>1, <2>2 DEF DeedsOf, Unrecorded, Recorded
<1> QED BY Invariance, <1>1, <1>2, <1>3, PTL DEF Spec

(***************************************************************************)
(* Paging.                                                                 *)
(*                                                                         *)
(* Where every row has a value the rows are in a strict order, so that the *)
(* places of the selected ones are the numbers from zero: a page is the    *)
(* rows of the first places, and its last one divides them from the rest.  *)
(* A row that nobody writes is on a page already if it is not after the    *)
(* cursor, and otherwise on none.                                          *)
(***************************************************************************)
Cursor == {NoCursor} \cup [value : 1..MaxVal, id : Id]

ListTypes ==
  /\ value \in [Id -> (1..MaxVal) \cup {Gone}]
  /\ dir \in {"asc", "desc"}
  /\ cursor \in Cursor
  /\ walking \in BOOLEAN
  /\ got \in Seq(Id)
  /\ touched \subseteq Id

Returned(c) == \E i \in DOMAIN got : got[i] = c /\ \A j \in DOMAIN got : got[j] = c => j = i

NotReturned(c) == \A i \in DOMAIN got : got[i] # c

(* What the walk has still to return.                                      *)
Ahead(c) == walking /\ c \in Selected

Walked ==
  \A c \in Present \ touched : IF Ahead(c) THEN NotReturned(c) ELSE Returned(c)

ListInv == ListTypes /\ Walked

LEMMA PlacesAreNumbers ==
  ASSUME ListTypes
  PROVE  /\ IsFiniteSet(Selected) /\ Cardinality(Selected) \in Nat
         /\ \A c \in Selected : Place(c) \in 0..(Cardinality(Selected) - 1)
<1>1. Rows \in Nat /\ IsFiniteSet(Id)
  BY PagingAssumption, FS_Interval DEF Id
<1>2. Selected \in SUBSET Id
  BY DEF Selected, Present
<1>3. IsFiniteSet(Selected) /\ Cardinality(Selected) \in Nat
  BY <1>1, <1>2, FS_Subset, FS_CardinalityType
<1>4. ASSUME NEW c \in Selected PROVE Place(c) \in 0..(Cardinality(Selected) - 1)
  <2> DEFINE T == {d \in Selected : Before(d, c)}
  <2>1. c \in Id /\ value[c] \in Int
    BY <1>2 DEF ListTypes, Gone
  <2>2. c \notin T
    BY <2>1 DEF Before, Ascending, Id
  <2>3. T \in SUBSET Selected /\ T # Selected
    BY <2>2
  <2>4. IsFiniteSet(T) /\ Cardinality(T) <= Cardinality(Selected) /\ Cardinality(T) # Cardinality(Selected)
    BY <1>3, <2>3, FS_Subset
  <2>5. Cardinality(T) \in Nat
    BY <2>4, FS_CardinalityType
  <2> QED BY <1>3, <2>4, <2>5 DEF Place
<1> QED BY <1>3, <1>4

LEMMA RowsAreOrdered ==
  ASSUME ListTypes, NEW c \in Id, NEW d \in Id, c # d
  PROVE  /\ Before(c, d) \/ Before(d, c)
         /\ \A e \in Id : Before(e, c) /\ Before(c, d) => Before(e, d)
         /\ ~Before(c, c)
<1>1. /\ value[c] \in Int /\ value[d] \in Int /\ \A e \in Id : value[e] \in Int
      /\ c \in Int /\ d \in Int /\ \A e \in Id : e \in Int
  BY DEF ListTypes, Id, Gone
<1> QED BY <1>1 DEF Before, Ascending

LEMMA PlacesFollowTheOrder ==
  ASSUME ListTypes, NEW c \in Selected, NEW d \in Selected, Before(c, d)
  PROVE  Place(c) < Place(d)
<1> DEFINE T(e) == {b \in Selected : Before(b, e)}
<1>1. /\ IsFiniteSet(Selected) /\ Place(c) \in Nat /\ Place(d) \in Nat
  BY PlacesAreNumbers
<1>2. c \in Id /\ d \in Id /\ Selected \subseteq Id
  BY DEF Selected, Present
<1>3. c # d /\ ~Before(c, c)
  <2>1. value[c] \in Int /\ c \in Int
    BY <1>2 DEF ListTypes, Id, Gone
  <2> QED BY <2>1 DEF Before, Ascending
<1>4. T(c) \in SUBSET T(d) /\ c \in T(d) /\ c \notin T(c)
  BY <1>2, <1>3, RowsAreOrdered
<1>5. IsFiniteSet(T(d))
  BY <1>1, FS_Subset
<1>6. Cardinality(T(c)) <= Cardinality(T(d)) /\ Cardinality(T(c)) # Cardinality(T(d))
  BY <1>4, <1>5, FS_Subset
<1> QED BY <1>1, <1>6 DEF Place

(* Every place up to the number of the rows is the place of one of them.   *)
LEMMA EveryPlaceIsTaken ==
  ASSUME ListTypes
  PROVE  \A n \in 0..(Cardinality(Selected) - 1) : \E c \in Selected : Place(c) = n
<1> DEFINE S == Selected
           N == 0..(Cardinality(Selected) - 1)
           f == [c \in S |-> Place(c)]
<1>1. IsFiniteSet(S) /\ Cardinality(S) \in Nat /\ \A c \in S : Place(c) \in N
  <2> HIDE DEF f
  <2> QED BY PlacesAreNumbers
<1>2. IsFiniteSet(N) /\ Cardinality(N) = Cardinality(S)
  BY <1>1, FS_Interval
<1>3. ASSUME NEW c \in S, NEW d \in S, c # d PROVE Place(c) # Place(d)
  <2>1. c \in Id /\ d \in Id
    BY DEF Selected, Present
  <2>2. Before(c, d) \/ Before(d, c)
    BY <1>3, <2>1, RowsAreOrdered
  <2> QED BY <1>1, <2>2, PlacesFollowTheOrder
<1>4. f \in [S -> N] /\ \A c \in S : f[c] = Place(c)
  BY <1>1
<1> HIDE DEF S, N, f
<1>5. \A c, d \in S : f[c] = f[d] => c = d
  BY <1>3, <1>4
<1>6. f \in Injection(S, N)
  BY <1>4, <1>5, Fun_IsInj
<1>7. f \in Surjection(S, N)
  BY <1>2, <1>6, FS_Injection
<1>8. \A n \in N : \E c \in S : f[c] = n
  BY <1>7, Fun_SurjectionProperties
<1> QED BY <1>4, <1>8 DEF S, N

(* A page: the rows of the first places, each on its own.                  *)
LEMMA PageHolds ==
  ASSUME ListTypes
  PROVE  /\ Page \in Seq(Selected) /\ Len(Page) = PageSize /\ PageSize \in 0..Limit
         /\ \A i \in 1..PageSize : Place(Page[i]) = i - 1
         /\ \A c \in Selected : Place(c) < PageSize => Page[Place(c) + 1] = c
         /\ PageSize < Limit => \A c \in Selected : Place(c) < PageSize
<1>1. Limit \in Nat \ {0} /\ Cardinality(Selected) \in Nat
  BY PagingAssumption, PlacesAreNumbers
<1>2. PageSize \in 0..Limit /\ PageSize <= Cardinality(Selected) /\ PageSize \in Nat
  BY <1>1 DEF PageSize
<1>3. ASSUME NEW i \in 1..PageSize PROVE Page[i] \in Selected /\ Place(Page[i]) = i - 1
  <2>1. i - 1 \in 0..(Cardinality(Selected) - 1)
    BY <1>1, <1>2
  <2>2. PICK c \in Selected : Place(c) = i - 1
    BY <2>1, EveryPlaceIsTaken
  <2>3. Page[i] = CHOOSE e \in Selected : Place(e) = i - 1
    BY DEF Page
  <2> QED BY <2>2, <2>3
<1>4. Page = [i \in 1..PageSize |-> Page[i]]
  BY DEF Page
<1>5. Page \in Seq(Selected) /\ Len(Page) = PageSize
  BY <1>2, <1>3, <1>4
<1>6. ASSUME NEW c \in Selected, Place(c) < PageSize PROVE Page[Place(c) + 1] = c
  <2> DEFINE d == Page[Place(c) + 1]
  <2>1. Place(c) + 1 \in 1..PageSize /\ Place(c) \in Nat
    BY <1>1, <1>2, <1>6, PlacesAreNumbers
  <2>2. d \in Selected /\ Place(d) = Place(c)
    BY <1>3, <2>1
  <2>3. c \in Id /\ d \in Id
    BY <2>2 DEF Selected, Present
  <2>4. ASSUME c # d PROVE FALSE
    <3>1. Before(c, d) \/ Before(d, c)
      BY <2>3, <2>4, RowsAreOrdered
    <3>2. Place(c) < Place(d) \/ Place(d) < Place(c)
      BY <2>2, <3>1, PlacesFollowTheOrder
    <3> QED BY <2>1, <2>2, <3>2
  <2> QED BY <2>4
<1>7. PageSize < Limit => \A c \in Selected : Place(c) < PageSize
  BY <1>1, PlacesAreNumbers DEF PageSize
<1> QED BY <1>2, <1>3, <1>5, <1>6, <1>7

LEMMA ListTypesHold ==
  ASSUME ~Nullable
  PROVE  /\ ListInit => ListInv
         /\ ListTypes /\ [ListNext]_listVars => ListTypes'
<1>1. Value = 1..MaxVal
  BY DEF Value
<1>2. ASSUME ListInit PROVE ListInv
  <2>1. ListTypes
    BY <1>1, <1>2 DEF ListInit, ListTypes, Cursor
  <2>2. Walked
    BY <1>2 DEF ListInit, Walked, Ahead, NotReturned, Selected
  <2> QED BY <2>1, <2>2 DEF ListInv
<1>3. ASSUME ListTypes, [ListNext]_listVars PROVE ListTypes'
  <2>1. CASE Fetch
    <3>1. /\ Page \in Seq(Selected) /\ Len(Page) = PageSize
          /\ PageSize = Limit => Page[Limit] \in Selected
      <4>1. Page \in Seq(Selected) /\ Len(Page) = PageSize /\ Limit \in 1..Limit
        BY <1>3, PageHolds, PagingAssumption
      <4> QED BY <4>1
    <3>2. Selected \subseteq Id /\ \A c \in Selected : value[c] \in 1..MaxVal
      BY <1>3 DEF Selected, Present, ListTypes
    <3>3. got' \in Seq(Id)
      BY <1>3, <2>1, <3>1, <3>2 DEF Fetch, ListTypes
    <3>4. cursor' \in Cursor
      BY <2>1, <3>1, <3>2 DEF Fetch, NextCursor, Cursor
    <3> QED BY <1>3, <2>1, <3>3, <3>4 DEF Fetch, ListTypes
  <2>2. ASSUME NEW c \in Id, NEW v \in (1..MaxVal) \cup {Gone}, WriteRow(c, v) PROVE ListTypes'
    BY <1>3, <2>2 DEF WriteRow, ListTypes
  <2>3. CASE Done \/ UNCHANGED listVars
    BY <1>3, <2>3 DEF Done, listVars, ListTypes
  <2> QED BY <1>1, <1>3, <2>1, <2>2, <2>3 DEF ListNext, Create, Update, Delete
<1> QED BY <1>2, <1>3

(* What the last row of a full page says of the others: those of the page  *)
(* and those before the old cursor are not past it, the rest is.           *)
LEMMA CursorDivides ==
  ASSUME ListTypes, NEW l \in Selected, NEW c \in Present,
         cursor' = [value |-> value[l], id |-> l], UNCHANGED <<value, dir>>
  PROVE  /\ c \notin Selected => ~Past(c)'
         /\ c \in Selected => (Past(c)' <=> Place(l) < Place(c))
<1>1. /\ c \in Id /\ l \in Id /\ Selected \subseteq Id
      /\ value[c] \in 1..MaxVal /\ value[l] \in 1..MaxVal
  BY DEF Selected, Present, ListTypes
<1>2. c \in Int /\ l \in Int /\ value[c] \in Int /\ value[l] \in Int /\ value[c] # Null /\ value[l] # Null
  BY <1>1 DEF Id, Null
<1>3. Past(c)' <=> Before(l, c)
  BY <1>2 DEF Past, Beyond, Before, Ascending
<1>4. ASSUME c \notin Selected PROVE ~Past(c)'
  <2>1. cursor # NoCursor /\ ~Past(c) /\ Past(l)
    BY <1>4 DEF Selected
  <2>2. cursor.value \in 1..MaxVal /\ cursor.id \in Id
    BY <2>1 DEF ListTypes, Cursor
  <2>3. cursor.value \in Int /\ cursor.id \in Int /\ cursor.value # Null
    BY <2>2 DEF Id, Null
  <2>4. CASE dir = "asc"
    BY <1>2, <1>3, <2>1, <2>3, <2>4 DEF Past, Beyond, Before, Ascending
  <2>5. CASE dir # "asc"
    BY <1>2, <1>3, <2>1, <2>3, <2>5 DEF Past, Beyond, Before, Ascending
  <2> QED BY <2>4, <2>5
<1>5. ASSUME c \in Selected PROVE Before(l, c) <=> Place(l) < Place(c)
  <2>1. Place(l) \in Nat /\ Place(c) \in Nat
    BY <1>5, PlacesAreNumbers
  <2>2. Before(l, c) => Place(l) < Place(c)
    BY <1>5, PlacesFollowTheOrder
  <2>3. ASSUME ~Before(l, c), c # l PROVE Place(c) < Place(l)
    BY <1>1, <1>5, <2>3, RowsAreOrdered, PlacesFollowTheOrder
  <2> QED BY <2>1, <2>2, <2>3
<1> QED BY <1>3, <1>4, <1>5

LEMMA Joined ==
  ASSUME NEW S, NEW s \in Seq(S), NEW t \in Seq(S)
  PROVE  /\ Len(s \o t) = Len(s) + Len(t) /\ Len(s) \in Nat
         /\ \A i \in 1..Len(s) : (s \o t)[i] = s[i]
         /\ \A i \in 1..Len(t) : (s \o t)[Len(s) + i] = t[i]
         /\ DOMAIN s = 1..Len(s) /\ DOMAIN (s \o t) = 1..(Len(s) + Len(t))
  OBVIOUS

LEMMA FetchWalks ==
  ASSUME ~Nullable, ListInv, Fetch
  PROVE  Walked'
<1> DEFINE l == Page[Limit]
<1>1. /\ ListTypes /\ Walked /\ walking
      /\ got' = got \o Page /\ cursor' = NextCursor(Page) /\ (walking' <=> cursor' # NoCursor)
      /\ UNCHANGED <<value, dir, touched>>
  BY DEF ListInv, Fetch
<1>2. /\ Page \in Seq(Selected) /\ Len(Page) = PageSize /\ PageSize \in 0..Limit /\ Limit \in Nat \ {0}
      /\ \A i \in 1..PageSize : Page[i] \in Selected /\ Place(Page[i]) = i - 1
      /\ \A c \in Selected : Place(c) < PageSize => Page[Place(c) + 1] = c
      /\ PageSize < Limit => \A c \in Selected : Place(c) < PageSize
  BY <1>1, PageHolds, PagingAssumption
<1>3. /\ got \in Seq(Id) /\ Page \in Seq(Id)
      /\ Len(got') = Len(got) + PageSize /\ Len(got) \in Nat /\ PageSize \in Nat
      /\ \A i \in 1..Len(got) : got'[i] = got[i]
      /\ \A i \in 1..PageSize : got'[Len(got) + i] = Page[i]
      /\ DOMAIN got = 1..Len(got) /\ DOMAIN got' = 1..(Len(got) + PageSize)
  <2>1. got \in Seq(Id) /\ Page \in Seq(Id)
    BY <1>1, <1>2 DEF ListTypes, Selected, Present
  <2> HIDE DEF l
  <2>2. /\ Len(got \o Page) = Len(got) + Len(Page) /\ Len(got) \in Nat
        /\ \A i \in 1..Len(got) : (got \o Page)[i] = got[i]
        /\ \A i \in 1..Len(Page) : (got \o Page)[Len(got) + i] = Page[i]
        /\ DOMAIN got = 1..Len(got) /\ DOMAIN (got \o Page) = 1..(Len(got) + Len(Page))
    BY <2>1, Joined
  <2>3. got' = got \o Page /\ Len(Page) = PageSize
    BY <1>1, <1>2
  <2>4. PageSize \in Nat
    BY <1>2
  <2> QED BY <2>1, <2>2, <2>3, <2>4, Zenon
<1>4. walking' => PageSize = Limit /\ cursor' = [value |-> value[l], id |-> l] /\ l \in Selected
                  /\ Place(l) = Limit - 1
  BY <1>1, <1>2 DEF NextCursor
<1>5. PageSize = Limit => walking'
  <2>1. ASSUME PageSize = Limit PROVE l # Gone
    BY <1>2, <2>1 DEF Selected, Present, Id, Gone
  <2> QED BY <1>1, <1>2, <2>1 DEF NextCursor, NoCursor
<1> SUFFICES ASSUME NEW c \in Present, c \notin touched
             PROVE  IF Ahead(c)' THEN NotReturned(c)' ELSE Returned(c)'
  BY <1>1 DEF Walked, Present
<1>6. c \in Present'
  BY <1>1 DEF Present
<1>7. Ahead(c)' <=> walking' /\ Past(c)'
  BY <1>1, <1>6 DEF Ahead, Selected
<1>8. CASE c \notin Selected
  <2>1. Returned(c)
    BY <1>1, <1>8 DEF Walked, Ahead
  <2>2. \A i \in 1..PageSize : Page[i] # c
    BY <1>2, <1>8
  <2>3. Returned(c)'
    <3>1. PICK i \in 1..Len(got) : got[i] = c /\ \A j \in 1..Len(got) : got[j] = c => j = i
      BY <1>3, <2>1 DEF Returned
    <3>2. ASSUME NEW j \in 1..(Len(got) + PageSize), got'[j] = c PROVE j = i
      <4>1. CASE j <= Len(got)
        BY <1>3, <3>1, <3>2, <4>1
      <4>2. CASE j > Len(got)
        <5>1. j - Len(got) \in 1..PageSize /\ j = Len(got) + (j - Len(got))
          BY <1>3, <4>2
        <5> QED BY <1>3, <2>2, <3>2, <5>1
      <4> QED BY <1>3, <4>1, <4>2
    <3>3. i \in 1..(Len(got) + PageSize) /\ got'[i] = c
      BY <1>3, <3>1
    <3> QED BY <1>3, <3>2, <3>3 DEF Returned
  <2>4. ~Ahead(c)'
    BY <1>1, <1>4, <1>7, <1>8, CursorDivides
  <2> QED BY <2>3, <2>4
<1>9. CASE c \in Selected /\ Place(c) < PageSize
  <2>1. NotReturned(c) /\ Place(c) \in Nat
    BY <1>1, <1>9, PlacesAreNumbers DEF Walked, Ahead
  <2>2. Place(c) + 1 \in 1..PageSize /\ Page[Place(c) + 1] = c
    BY <1>2, <1>3, <1>9, <2>1
  <2> DEFINE k == Len(got) + (Place(c) + 1)
  <2>3. k \in DOMAIN got' /\ got'[k] = c
    BY <1>3, <2>2
  <2>4. ASSUME NEW j \in DOMAIN got', got'[j] = c PROVE j = k
    <3>1. ~(j <= Len(got))
      BY <1>3, <2>1, <2>4 DEF NotReturned
    <3>2. j - Len(got) \in 1..PageSize /\ j = Len(got) + (j - Len(got))
      BY <1>3, <3>1
    <3>3. Page[j - Len(got)] = c
      BY <1>3, <2>4, <3>2
    <3>4. Place(c) = (j - Len(got)) - 1
      BY <1>2, <3>2, <3>3
    <3> QED BY <1>3, <3>2, <3>4
  <2>5. Returned(c)'
    BY <2>3, <2>4 DEF Returned
  <2>6. ~Ahead(c)'
    <3>1. ASSUME walking' PROVE ~Past(c)'
      <4>1. Past(c)' <=> Place(l) < Place(c)
        BY <1>1, <1>4, <1>9, <3>1, CursorDivides
      <4> QED BY <1>2, <1>4, <1>9, <2>1, <3>1, <4>1
    <3> QED BY <1>7, <3>1
  <2> QED BY <2>5, <2>6
<1>10. CASE c \in Selected /\ ~(Place(c) < PageSize)
  <2>1. NotReturned(c) /\ Place(c) \in Nat
    BY <1>1, <1>10, PlacesAreNumbers DEF Walked, Ahead
  <2>2. PageSize = Limit /\ walking'
    BY <1>2, <1>5, <1>10
  <2>3. Past(c)'
    <3>1. Past(c)' <=> Place(l) < Place(c)
      BY <1>1, <1>4, <1>10, <2>2, CursorDivides
    <3> QED BY <1>2, <1>4, <1>10, <2>1, <2>2, <3>1
  <2>4. \A i \in 1..PageSize : Page[i] # c
    <3>1. ASSUME NEW i \in 1..PageSize, Page[i] = c PROVE FALSE
      <4>1. Place(c) = i - 1
        BY <1>2, <3>1
      <4> QED BY <1>2, <1>10, <4>1
    <3> QED BY <3>1
  <2>5. NotReturned(c)'
    <3>1. ASSUME NEW j \in 1..(Len(got) + PageSize), got'[j] = c PROVE FALSE
      <4>1. CASE j <= Len(got)
        BY <1>3, <2>1, <3>1, <4>1 DEF NotReturned
      <4>2. CASE j > Len(got)
        <5>1. j - Len(got) \in 1..PageSize /\ j = Len(got) + (j - Len(got))
          BY <1>3, <4>2
        <5> QED BY <1>3, <2>4, <3>1, <5>1
      <4> QED BY <1>3, <4>1, <4>2
    <3> QED BY <1>3, <3>1 DEF NotReturned
  <2> QED BY <1>7, <2>2, <2>3, <2>5
<1> QED BY <1>8, <1>9, <1>10

LEMMA ListInvHolds ==
  ASSUME ~Nullable
  PROVE  ListSpec => []ListInv
<1>1. ListInit => ListInv
  BY ListTypesHold
<1>2. ListInv /\ [ListNext]_listVars => ListInv'
  <2> SUFFICES ASSUME ListInv, [ListNext]_listVars PROVE Walked'
    BY ListTypesHold DEF ListInv
  <2>1. CASE Fetch
    BY <2>1, FetchWalks
  <2>2. ASSUME NEW c \in Id, NEW v, WriteRow(c, v) PROVE Walked'
    <3>1. \A d \in (Present \ touched)' :
            d \in Present \ touched /\ (Ahead(d)' <=> Ahead(d))
            /\ (NotReturned(d)' <=> NotReturned(d)) /\ (Returned(d)' <=> Returned(d))
      BY <2>2 DEF WriteRow, ListInv, ListTypes, Present, Ahead, Selected, Past, Beyond, NotReturned, Returned
    <3> QED BY <3>1 DEF ListInv, Walked
  <2>3. CASE Done \/ UNCHANGED listVars
    BY <2>3 DEF Done, listVars, ListInv, Walked, Present, Ahead, Selected, Past, Beyond, NotReturned, Returned
  <2> QED BY <2>1, <2>2, <2>3 DEF ListNext, Create, Update, Delete
<1> QED BY <1>1, <1>2, PTL DEF ListSpec

(* A walk with the keyset cursor of CIRepository.list returns every row    *)
(* that exists throughout and is not written exactly once, whatever other  *)
(* clients do meanwhile, where the sort field is never null or missing.    *)
THEOREM EveryRowOnceHolds ==
  ASSUME ~Nullable
  PROVE  ListSpec => []EveryRowOnce
<1>1. ListInv => EveryRowOnce
  <2> SUFFICES ASSUME ListInv, ~walking, NEW c \in Present \ touched
               PROVE  Times(c) = 1
    BY DEF EveryRowOnce
  <2>1. PICK i \in DOMAIN got : got[i] = c /\ \A j \in DOMAIN got : got[j] = c => j = i
    BY DEF ListInv, Walked, Ahead, Returned
  <2>2. {j \in DOMAIN got : got[j] = c} = {i}
    BY <2>1
  <2> QED BY <2>2, FS_Singleton DEF Times
<1> QED BY <1>1, ListInvHolds, PTL

=============================================================================
