--------------------------- MODULE RelGraphProofs ---------------------------
(***************************************************************************)
(* Proofs about RelGraph with transactions, for any number of requests and *)
(* CIs, any relationship types and any depth of the cycle check.           *)
(*                                                                         *)
(* The argument: what a session holds back follows from the step it is at  *)
(* (Sessions), and what it deletes nobody else touches (Isolated), so that *)
(* a commit moves a thing and its records together.  A thing that has gone *)
(* never comes back: what a check found in the store it found among what   *)
(* was known when the request was sent, and what is known can only vanish. *)
(*                                                                         *)
(* The last part is about the traversal of the same graph, GraphSearch,    *)
(* whose names do not collide with those of RelGraph: a search that other  *)
(* requests interrupt has seen, at each level, what edges that were always *)
(* there lead to, and nothing that no edge ever led to.                    *)
(***************************************************************************)
EXTENDS RelGraph, GraphSearch, FiniteSetTheorems, SequenceTheorems, WellFoundedInduction, TLAPS

(***************************************************************************)
(* What a session holds back.                                              *)
(***************************************************************************)
Elements(s) == {s[i] : i \in DOMAIN s}

(* The edges that go with a CI.                                            *)
Loose(r) == IF op[r].kind = "remove" THEN EdgesOf(op[r].ci, snap[r]) ELSE {}

(* The things that r has changed, recorded and announced so far.           *)
Changed(r) ==
  CASE pc[r] \in {"logaudit", "logevent", "erase"} -> Loose(r)
    [] pc[r] \in {"audit", "outbox", "commit"} -> Loose(r) \cup {Subject(r)}
    [] OTHER -> {}

Recorded(r) ==
  CASE pc[r] = "logaudit" -> Loose(r) \ Elements(todo[r])
    [] pc[r] = "logevent" -> (Loose(r) \ Elements(todo[r])) \cup {todo[r][1]}
    [] pc[r] \in {"erase", "audit"} -> Loose(r)
    [] pc[r] \in {"outbox", "commit"} -> Loose(r) \cup {Subject(r)}
    [] OTHER -> {}

Announced(r) ==
  CASE pc[r] \in {"logaudit", "logevent"} -> Loose(r) \ Elements(todo[r])
    [] pc[r] \in {"erase", "audit", "outbox"} -> Loose(r)
    [] pc[r] = "commit" -> Loose(r) \cup {Subject(r)}
    [] OTHER -> {}

Writes(to, things, act) == {W(to, x, act) : x \in things}

Session(r) ==
  /\ pend[r] = Writes("data", Changed(r), ActionOf(r)) \cup Writes("audit", Recorded(r), ActionOf(r))
                 \cup Writes("outbox", Announced(r), ActionOf(r))
  /\ pc[r] = "drop" => Elements(todo[r]) = Loose(r)
  /\ pc[r] \in {"drop", "logaudit", "logevent"} =>
       todo[r] # <<>> /\ IsInjective(todo[r]) /\ Elements(todo[r]) \subseteq Loose(r)

Sessions == \A r \in Req : Session(r)

(***************************************************************************)
(* Which request is at which step, and what has existed.                   *)
(***************************************************************************)
Checks == {"source", "target", "outgoing", "incoming", "cycle", "insert"}

Places ==
  \A r \in Req :
    /\ op[r].kind = "none" <=> pc[r] = "idle"
    /\ pc[r] \in Checks => op[r].kind = "link"
    /\ pc[r] = "find" => op[r].kind \in {"unlink", "remove"}
    /\ pc[r] \in {"count", "detach", "drop", "logaudit", "logevent"} => op[r].kind = "remove"
    /\ pc[r] = "erase" => op[r].kind \in {"unlink", "remove"}
    /\ resp[r] # "none" => pc[r] = "done"

Born(x) == audit[x] # <<>>

Past ==
  \A r \in Req :
    /\ Born(r) => pc[r] = "done" /\ op[r].kind = "link"
    /\ \A x \in snap[r] \cup known[r] : Born(x)

Isolated ==
  \A r \in Req : op[r].kind # "link" =>
    \A x \in Changed(r) : x \in stored /\ \A q \in Req \ {r} : x \notin Changed(q)

(***************************************************************************)
(* What the checks of a link that got past them have seen to.              *)
(***************************************************************************)
Inserted(r) == op[r].kind = "link" /\ pc[r] \in {"audit", "outbox", "commit"}

(* Nobody else has, or is about to have, the same edge.                    *)
Claimed ==
  \A r \in Req : Inserted(r) =>
    /\ \A e \in Edges(stored) : ~SameEdge(e, r)
    /\ \A q \in Req \ {r} : Inserted(q) => ~SameEdge(q, r)

(* r has passed the checks before one of these steps.                      *)
Beyond(r, steps) == (op[r].kind = "link" /\ pc[r] \in steps) \/ Inserted(r) \/ Born(r)

EndsKnown ==
  \A r \in Req :
    /\ pc[r] # "idle" => stored \cap Ci \subseteq known[r]
    /\ Beyond(r, {"target", "outgoing", "incoming", "cycle", "insert"}) => op[r].from \in known[r]
    /\ Beyond(r, {"outgoing", "incoming", "cycle", "insert"}) => op[r].to \in known[r]

(* The edges of the same type that were there when r was sent, and are.    *)
Rivals(r) == {d \in Edges(known[r] \cap stored) : d # r /\ op[d].rel = op[r].rel}

Uncrowded ==
  \A r \in Req :
    /\ Beyond(r, {"incoming", "cycle", "insert"}) /\ Def(r).card \in {"one_to_one", "many_to_one"} =>
         \A d \in Rivals(r) : op[d].from # op[r].from
    /\ Beyond(r, {"cycle", "insert"}) /\ Def(r).card \in {"one_to_one", "one_to_many"} =>
         \A d \in Rivals(r) : op[d].to # op[r].to

(***************************************************************************)
(* The cycle check: what is near the target, along what was known.         *)
(***************************************************************************)
Graph(r) == Dependencies(known[r] \cap stored)

Path(es, p, k) == \A i \in 1..k : <<p[i - 1], p[i]>> \in es

(* All that k steps of p lead to from a.                                   *)
Leads(r, p, k) == p[0] = op[r].to /\ Path(Graph(r), p, k)

(* The levels done have been visited, and what has been expanded leads to  *)
(* what has been visited.                                                  *)
Searching ==
  \A r \in Req :
    /\ pc[r] = "cycle" /\ search[r].level > 0 =>
         /\ search[r].frontier \subseteq search[r].visited
         /\ \A k \in 0..search[r].level : \A p \in [0..k -> Ci] :
              Leads(r, p, k) => p[k] \in search[r].visited
         /\ \A e \in Graph(r) : e[1] \in search[r].visited \ search[r].frontier =>
              e[2] \in search[r].visited
    /\ pc[r] \in {"idle", "source", "target", "outgoing", "incoming"} => search[r].level = 0

Acyclic ==
  \A r \in Req :
    Beyond(r, {"insert"}) /\ Def(r).dependency /\ op[r].from # op[r].to =>
      \A k \in 1..MaxDepth : \A p \in [0..k -> Ci] : Leads(r, p, k) => p[k] # op[r].from

(***************************************************************************)
(* What a deletion leaves behind.                                          *)
(***************************************************************************)
Deleting == {"count", "detach", "drop", "logaudit", "logevent", "erase", "audit", "outbox", "commit"}

Swept ==
  \A r \in Req : op[r].kind = "remove" =>
    /\ pc[r] \in Deleting => Edges(known[r] \cap stored) \subseteq snap[r]
    /\ resp[r] = "ok" => \A e \in Edges(known[r] \cap stored) : ~Touches(e, op[r].ci)

Lifecycle == TypeOK /\ Places /\ Past /\ EdgeLineage /\ Sessions /\ Isolated
Checked == Claimed /\ UniqueEdges /\ EndsKnown /\ Uncrowded /\ Searching /\ Acyclic /\ Swept

IInv == Lifecycle /\ Checked

LEMMA InitIInv == Init => IInv
<1> SUFFICES ASSUME Init PROVE IInv
  OBVIOUS
<1>1. TypeOK
  <2>1. <<>> \in Seq(Action) /\ <<"create">> \in Seq(Action) /\ <<>> \in Seq(Req)
    BY DEF Action
  <2>2. audit \in [Thing -> Seq(Action)] /\ todo \in [Req -> Seq(Req)]
    BY <2>1 DEF Init
  <2> QED BY <2>2, GraphAssumption DEF Init, TypeOK, Thing, Idle, NoOp, Steps
<1>2. Places /\ Past /\ EdgeLineage
  BY GraphAssumption DEF Init, Places, Past, EdgeLineage, NoOp, Checks, Born, Thing
<1>3. Sessions /\ Isolated
  BY DEF Init, Sessions, Session, Isolated, Changed, Recorded, Announced, Writes
<1>4. Claimed /\ UniqueEdges /\ EndsKnown /\ Uncrowded /\ Searching /\ Acyclic /\ Swept
  BY GraphAssumption
     DEF Init, Claimed, UniqueEdges, Edges, Inserted, EndsKnown, Uncrowded, Beyond, Searching, Acyclic,
         Swept, Born, Thing, Idle, NoOp, Deleting
<1> QED BY <1>1, <1>2, <1>3, <1>4 DEF IInv, Lifecycle, Checked

------------------------------------------------------------------------------
(***************************************************************************)
(* Steps.  One is of one request, which is sent, commits or only moves on. *)
(***************************************************************************)
Step(r) ==
  \/ \E rel \in Rel, a, b \in Ci : SendLink(r, rel, a, b)
  \/ \E e \in Req, match \in BOOLEAN : SendUnlink(r, e, match)
  \/ \E c \in Ci, detach \in BOOLEAN : SendRemove(r, c, detach)
  \/ Handle(r)

Request == LinkOp \cup UnlinkOp \cup RemoveOp

Sent(r) ==
  \E request \in Request, step \in {"source", "find"} :
    (step = "source" <=> request.kind = "link") /\ Send(r, request, step)

Store == <<stored, audit, outbox>>
Local(r) == Handle(r) /\ pc[r] \notin {"idle", "done"} /\ UNCHANGED <<Store, op, known>>

Frame(r) ==
  \A q \in Req \ {r} :
    /\ pc'[q] = pc[q] /\ op'[q] = op[q] /\ search'[q] = search[q] /\ snap'[q] = snap[q]
    /\ todo'[q] = todo[q] /\ pend'[q] = pend[q] /\ resp'[q] = resp[q] /\ known'[q] = known[q]

LEMMA AppendType ==
  ASSUME NEW S, NEW s \in Seq(S), NEW x \in S
  PROVE  Append(s, x) \in Seq(S)
OBVIOUS

LEMMA TailOf ==
  ASSUME NEW S, NEW s \in Seq(S), s # <<>>
  PROVE  /\ Tail(s) \in Seq(S) /\ Len(Tail(s)) = Len(s) - 1 /\ Len(s) \in Nat \ {0}
         /\ DOMAIN s = 1..Len(s) /\ DOMAIN Tail(s) = 1..(Len(s) - 1)
         /\ Head(s) = s[1] /\ s[1] \in S
         /\ \A i \in 1..(Len(s) - 1) : Tail(s)[i] = s[i + 1]
OBVIOUS

LEMMA StepShape ==
  ASSUME TxnEnabled, NEW r \in Req, Step(r)
  PROVE  Sent(r) \/ Local(r) \/ Commit(r)
<1>1. ASSUME NEW rel \in Rel, NEW a \in Ci, NEW b \in Ci, SendLink(r, rel, a, b) PROVE Sent(r)
  BY <1>1 DEF SendLink, Sent, Request, LinkOp
<1>2. ASSUME NEW e \in Req, NEW match \in BOOLEAN, SendUnlink(r, e, match) PROVE Sent(r)
  BY <1>2 DEF SendUnlink, Sent, Request, UnlinkOp
<1>3. ASSUME NEW c \in Ci, NEW detach \in BOOLEAN, SendRemove(r, c, detach) PROVE Sent(r)
  BY <1>3 DEF SendRemove, Sent, Request, RemoveOp
<1>4. ASSUME Handle(r), ~Commit(r) PROVE Local(r)
  <2>1. CASE CheckSource(r) \/ CheckTarget(r) \/ CheckOutgoing(r) \/ CheckIncoming(r) \/ CheckCycle(r)
             \/ Fail(r)
    BY <1>4, <2>1 DEF CheckSource, CheckTarget, CheckOutgoing, CheckIncoming, CheckCycle, Fail,
                      Refused, Passed, Reject, Local, Store
  <2>2. CASE SearchLevel(r) \/ Find(r) \/ CountEdges(r) \/ DetachRead(r)
    BY <1>4, <2>2 DEF SearchLevel, Find, CountEdges, DetachRead, Refused, Passed, Reject, Local, Store
  <2>3. CASE InsertEdge(r) \/ DetachDrop(r) \/ DetachAudit(r) \/ DetachEvent(r) \/ Erase(r)
             \/ RecordAudit(r) \/ AddToOutbox(r)
    BY <1>4, <2>3, TxnEnabled DEF InsertEdge, DetachDrop, DetachAudit, DetachEvent, Erase,
         RecordAudit, AddToOutbox, Do, Refused, Reject, Local, Store
  <2> QED BY <1>4, <2>1, <2>2, <2>3 DEF Handle
<1> QED BY <1>1, <1>2, <1>3, <1>4 DEF Step

LEMMA StepFrame ==
  ASSUME TxnEnabled, TypeOK, NEW r \in Req, Step(r)
  PROVE  Frame(r)
<1>0. /\ pc \in [Req -> Steps] /\ op \in [Req -> {NoOp} \cup LinkOp \cup UnlinkOp \cup RemoveOp]
      /\ search \in [Req -> [visited : SUBSET Ci, frontier : SUBSET Ci, level : 0..MaxDepth]]
      /\ snap \in [Req -> SUBSET Thing] /\ todo \in [Req -> Seq(Req)] /\ pend \in [Req -> SUBSET Write]
      /\ known \in [Req -> SUBSET Thing] /\ resp \in [Req -> {"none", "ok", "refused", "error"}]
  BY DEF TypeOK
<1>1. CASE Sent(r)
  BY <1>0, <1>1 DEF Sent, Send, Goto, Frame
<1>2. CASE Commit(r)
  BY <1>0, <1>2 DEF Commit, End, Goto, Frame
<1>3. CASE CheckSource(r) \/ CheckTarget(r) \/ CheckOutgoing(r) \/ CheckIncoming(r) \/ CheckCycle(r)
           \/ Fail(r) \/ CountEdges(r)
  <2>1. \/ Reject(r, "refused") \/ Reject(r, "error")
        \/ \E step : Passed(r, TRUE, step)
    BY <1>3 DEF CheckSource, CheckTarget, CheckOutgoing, CheckIncoming, CheckCycle, Fail, CountEdges,
                Refused, Passed
  <2> QED BY <1>0, <2>1 DEF Passed, Reject, End, Goto, Frame
<1>4. CASE SearchLevel(r) \/ Find(r) \/ DetachRead(r)
  BY <1>0, <1>4 DEF SearchLevel, Find, DetachRead, Refused, Reject, End, Goto, Frame
<1>5. CASE InsertEdge(r) \/ DetachDrop(r) \/ DetachAudit(r) \/ DetachEvent(r) \/ Erase(r)
             \/ RecordAudit(r) \/ AddToOutbox(r)
  BY <1>0, <1>5, TxnEnabled DEF InsertEdge, DetachDrop, DetachAudit, DetachEvent, Erase,
       RecordAudit, AddToOutbox, Do, Refused, Reject, End, Goto, Frame
<1> QED BY <1>1, <1>2, <1>3, <1>4, <1>5, StepShape DEF Local, Handle

------------------------------------------------------------------------------
(* Edges that have existed.                                                *)
LEMMA BornEdges ==
  ASSUME Lifecycle, NEW e \in Req, Born(e)
  PROVE  /\ pc[e] = "done" /\ op[e] \in LinkOp /\ op[e].kind = "link"
         /\ op[e].rel \in Rel /\ op[e].from \in Ci /\ op[e].to \in Ci
<1>1. pc[e] = "done" /\ op[e].kind = "link" /\ op[e] \in {NoOp} \cup LinkOp \cup UnlinkOp \cup RemoveOp
  BY DEF Lifecycle, Past, TypeOK
<1>2. op[e] \in LinkOp
  BY <1>1 DEF NoOp, UnlinkOp, RemoveOp
<1> QED BY <1>1, <1>2 DEF LinkOp

LEMMA StoredIsBorn ==
  ASSUME Lifecycle, NEW x \in stored
  PROVE  x \in Thing /\ Born(x)
<1>1. x \in Thing /\ audit[x] = <<"create">>
  BY DEF Lifecycle, TypeOK, EdgeLineage
<1> QED BY <1>1 DEF Born

(* What kind a request is says what it asks for.                           *)
LEMMA OpTypes ==
  ASSUME TypeOK, NEW r \in Req
  PROVE  /\ op[r].kind = "link" => op[r] \in LinkOp /\ op[r].rel \in Rel /\ op[r].from \in Ci /\ op[r].to \in Ci
         /\ op[r].kind = "unlink" => op[r] \in UnlinkOp /\ op[r].edge \in Req
         /\ op[r].kind = "remove" => op[r] \in RemoveOp /\ op[r].ci \in Ci
         /\ op[r].kind \in {"none", "link", "unlink", "remove"}
         /\ op[r].kind # "none" => Subject(r) \in Thing
<1>1. op[r] \in {NoOp} \cup LinkOp \cup UnlinkOp \cup RemoveOp
  BY DEF TypeOK
<1>2. CASE op[r] \in LinkOp
  BY <1>2 DEF LinkOp, Subject, Thing
<1>3. CASE op[r] \in UnlinkOp
  BY <1>3 DEF UnlinkOp, Subject, Thing
<1>4. CASE op[r] \in RemoveOp
  BY <1>4 DEF RemoveOp, Subject, Thing
<1>5. CASE op[r] = NoOp
  BY <1>5 DEF NoOp
<1> QED BY <1>1, <1>2, <1>3, <1>4, <1>5

LEMMA DependencyTypes ==
  ASSUME Lifecycle, NEW things, \A x \in things : Born(x)
  PROVE  Dependencies(things) \subseteq Ci \X Ci
BY BornEdges DEF Dependencies, Edges

(* One level of a cycle check.                                             *)
Expanded(r) ==
  LET was == [visited |-> IF search[r].level = 0 THEN {op[r].to} ELSE search[r].visited,
              frontier |-> IF search[r].level = 0 THEN {op[r].to} ELSE search[r].frontier]
  IN  /\ was.visited \in SUBSET Ci /\ was.frontier \in SUBSET Ci
      /\ search'[r].level = search[r].level + 1 /\ search[r].level < MaxDepth
      /\ search'[r].visited = was.visited \cup search'[r].frontier
      /\ \A m : m \in search'[r].frontier <=>
           m \notin was.visited /\ \E e \in Dependencies(stored) : e[1] \in was.frontier /\ e[2] = m
      /\ search'[r].frontier \in SUBSET Ci
      /\ search' \in [Req -> [visited : SUBSET Ci, frontier : SUBSET Ci, level : 0..MaxDepth]]

LEMMA LevelExpands ==
  ASSUME Lifecycle, NEW r \in Req, SearchLevel(r)
  PROVE  Expanded(r)
<1> DEFINE visited == IF search[r].level = 0 THEN {op[r].to} ELSE search[r].visited
           frontier == IF search[r].level = 0 THEN {op[r].to} ELSE search[r].frontier
           next == Level(Dependencies(stored), [visited |-> visited, frontier |-> frontier], "out")
           S == [visited : SUBSET Ci, frontier : SUBSET Ci, level : 0..MaxDepth]
<1>0. search \in [Req -> S] /\ MaxDepth \in Nat \ {0}
  BY GraphAssumption DEF Lifecycle, TypeOK
<1>1. op[r].to \in Ci
  BY OpTypes DEF Lifecycle, Places, Checks, SearchLevel
<1>2. /\ search[r].level \in 0..MaxDepth /\ search[r].visited \in SUBSET Ci /\ search[r].frontier \in SUBSET Ci
  BY <1>0
<1>3. visited \in SUBSET Ci /\ frontier \in SUBSET Ci
  BY <1>1, <1>2
<1>4. Dependencies(stored) \in SUBSET (Ci \X Ci)
  BY DependencyTypes, StoredIsBorn
<1>5. search' = [search EXCEPT ![r] = [visited |-> next.visited, frontier |-> next.frontier,
                                        level |-> search[r].level + 1]]
  BY DEF SearchLevel, Root
<1>6. search[r].level < MaxDepth
  BY <1>0, <1>2 DEF SearchLevel, Searched
<1> HIDE DEF visited, frontier
<1>0a. next = Level(Dependencies(stored), [visited |-> visited, frontier |-> frontier], "out")
  OBVIOUS
<1> HIDE DEF next
<1>7. /\ next.visited \in SUBSET Ci /\ next.frontier \in SUBSET Ci /\ next.visited = visited \cup next.frontier
      /\ \A m : m \in next.frontier <=>
           m \notin visited /\ \E e \in Dependencies(stored) : e[1] \in frontier /\ e[2] = m
  <2> DEFINE es == Dependencies(stored)
  <2>1. es \subseteq Ci \X Ci /\ next = Level(es, [visited |-> visited, frontier |-> frontier], "out")
    BY <1>0a, <1>4
  <2> HIDE DEF es
  <2>2. /\ next.frontier = {e[2] : e \in {d \in es : d[1] \in frontier}} \ visited
        /\ next.visited = visited \cup ({e[2] : e \in {d \in es : d[1] \in frontier}} \ visited)
    BY <2>1 DEF Level, Leaving, Ends
  <2>3. {e[2] : e \in {d \in es : d[1] \in frontier}} \subseteq Ci
    BY <2>1
  <2> QED BY <1>3, <2>2, <2>3 DEF es
<1>8. [visited |-> next.visited, frontier |-> next.frontier, level |-> search[r].level + 1] \in S
  BY <1>0, <1>2, <1>6, <1>7
<1>9. search' \in [Req -> S] /\ search'[r] = [visited |-> next.visited, frontier |-> next.frontier,
                                        level |-> search[r].level + 1]
  BY <1>0, <1>5, <1>8
<1> HIDE DEF S
<1>10. search'[r].visited = next.visited /\ search'[r].frontier = next.frontier
       /\ search'[r].level = search[r].level + 1
  BY <1>9
<1> QED BY <1>3, <1>6, <1>7, <1>9, <1>10 DEF Expanded, visited, frontier, S

------------------------------------------------------------------------------
(* Types.                                                                  *)
LEMMA WriteType ==
  ASSUME NEW to \in {"data", "audit", "outbox"}, NEW x \in Thing, NEW act \in Action
  PROVE  W(to, x, act) \in Write
BY DEF W, Write

LEMMA EndType ==
  ASSUME TypeOK, NEW r \in Req, NEW a \in {"ok", "refused", "error"}, End(r, a)
  PROVE  /\ pc' \in [Req -> Steps] /\ resp' \in [Req -> {"none", "ok", "refused", "error"}]
         /\ pend' \in [Req -> SUBSET Write] /\ snap' \in [Req -> SUBSET Thing]
         /\ search' \in [Req -> [visited : SUBSET Ci, frontier : SUBSET Ci, level : 0..MaxDepth]]
         /\ todo' \in [Req -> Seq(Req)]
<1>1. Idle \in [visited : SUBSET Ci, frontier : SUBSET Ci, level : 0..MaxDepth] /\ <<>> \in Seq(Req)
  BY GraphAssumption DEF Idle
<1> QED BY <1>1 DEF End, Goto, TypeOK, Steps

LEMMA DoType ==
  ASSUME TypeOK, TxnEnabled, NEW r \in Req, NEW writes \in SUBSET Write, Do(r, writes)
  PROVE  pend' \in [Req -> SUBSET Write] /\ UNCHANGED Store
<1>1. pend' = [pend EXCEPT ![r] = @ \cup writes] /\ UNCHANGED Store
  BY DEF Do, Store
<1>2. pend \in [Req -> SUBSET Write]
  BY DEF TypeOK
<1>3. pend[r] \cup writes \in SUBSET Write
  BY <1>2
<1> QED BY <1>1, <1>2, <1>3

LEMMA ExtendType ==
  ASSUME NEW log \in Seq(Action), NEW writes, NEW to, NEW x
  PROVE  Extend(log, writes, to, x) \in Seq(Action)
<1>1. Append(log, "create") \in Seq(Action) /\ Append(log, "delete") \in Seq(Action)
  BY AppendType DEF Action
<1> QED BY <1>1 DEF Extend

LEMMA ListingType ==
  ASSUME NEW things \in SUBSET Req, NEW found \in Listings(things)
  PROVE  /\ found \in Seq(things) /\ found \in Seq(Req) /\ IsInjective(found) /\ Elements(found) = things
         /\ found = <<>> <=> things = {}
<1>0. IsFiniteSet(things) /\ Cardinality(things) \in Nat
  BY GraphAssumption, FS_Subset, FS_CardinalityType
<1>1. found \in [1..Cardinality(things) -> things] /\ IsInjective(found)
      /\ \A x \in things : \E i \in 1..Cardinality(things) : found[i] = x
  BY DEF Listings, Bijection, Injection, Surjection, IsInjective
<1>2. found \in Seq(things) /\ Len(found) = Cardinality(things) /\ DOMAIN found = 1..Cardinality(things)
  BY <1>0, <1>1
<1>3. found \in Seq(Req)
  BY <1>0, <1>1
<1>4. Elements(found) = things
  BY <1>1, <1>2 DEF Elements
<1>5. found = <<>> <=> things = {}
  BY <1>0, <1>2, FS_EmptySet, EmptySeq
<1> QED BY <1>1, <1>2, <1>3, <1>4, <1>5

LEMMA StepType ==
  ASSUME Lifecycle, TxnEnabled, NEW r \in Req, Step(r)
  PROVE  TypeOK'
<1>0. TypeOK /\ stored \subseteq Thing
  BY DEF Lifecycle, TypeOK
<1>1. CASE Sent(r)
  <2>1. PICK request \in Request, step \in {"source", "find"} : Send(r, request, step)
    BY <1>1 DEF Sent
  <2>2. op' \in [Req -> {NoOp} \cup LinkOp \cup UnlinkOp \cup RemoveOp]
    BY <1>0, <2>1 DEF Send, TypeOK, Request
  <2>3. pc' \in [Req -> Steps] /\ known' \in [Req -> SUBSET Thing]
    BY <1>0, <2>1 DEF Send, Goto, TypeOK, Steps
  <2> QED BY <1>0, <2>1, <2>2, <2>3 DEF Send, TypeOK
<1>2. CASE Commit(r)
  <2>1. Apply(pend[r]) /\ UNCHANGED <<op, known>> /\ \E a \in {"ok", "refused", "error"} : End(r, a)
    BY <1>2 DEF Commit
  <2>2. stored' \subseteq Thing
    BY <1>0, <2>1 DEF Apply
  <2>3. audit' \in [Thing -> Seq(Action)] /\ outbox' \in [Thing -> Seq(Action)]
    <3>1. \A x \in Thing : audit[x] \in Seq(Action) /\ outbox[x] \in Seq(Action)
      BY <1>0 DEF TypeOK
    <3>2. \A x \in Thing : /\ Extend(audit[x], pend[r], "audit", x) \in Seq(Action)
                           /\ Extend(outbox[x], pend[r], "outbox", x) \in Seq(Action)
      BY <3>1, ExtendType
    <3> QED BY <2>1, <3>2 DEF Apply
  <2> QED BY <1>0, <2>1, <2>2, <2>3, EndType DEF TypeOK
<1>3. ASSUME NEW a \in {"ok", "refused", "error"}, Reject(r, a) PROVE TypeOK'
  BY <1>0, <1>3, EndType DEF Reject, TypeOK
<1>4. ASSUME NEW step \in Steps, Passed(r, TRUE, step) PROVE TypeOK'
  BY <1>0, <1>4 DEF Passed, Goto, TypeOK
<1>5. CASE CheckSource(r) \/ CheckTarget(r) \/ CheckOutgoing(r) \/ CheckIncoming(r) \/ CheckCycle(r)
           \/ Fail(r) \/ CountEdges(r)
  <2>1. \/ Reject(r, "refused") \/ Reject(r, "error")
        \/ \E step \in {"target", "outgoing", "incoming", "cycle", "insert", "detach", "erase"} :
             Passed(r, TRUE, step)
    BY <1>5 DEF CheckSource, CheckTarget, CheckOutgoing, CheckIncoming, CheckCycle, Fail, CountEdges,
                Refused, Passed
  <2>2. \A step \in {"target", "outgoing", "incoming", "cycle", "insert", "detach", "erase"} : step \in Steps
    BY DEF Steps
  <2> QED BY <1>3, <1>4, <2>1, <2>2
<1>6. CASE SearchLevel(r)
  <2>1. search' \in [Req -> [visited : SUBSET Ci, frontier : SUBSET Ci, level : 0..MaxDepth]]
    BY <1>6, LevelExpands DEF Expanded
  <2> QED BY <1>0, <1>6, <2>1 DEF SearchLevel, TypeOK
<1>7. CASE Find(r)
  <2>1. \/ Reject(r, "refused")
        \/ /\ snap' = [snap EXCEPT ![r] = stored] /\ \E step \in {"count", "erase"} : Goto(r, step)
           /\ UNCHANGED <<stored, audit, outbox, op, search, todo, pend, resp, known>>
    BY <1>7 DEF Find, Refused
  <2>2. CASE Reject(r, "refused")
    BY <1>3, <2>2
  <2>3. CASE ~Reject(r, "refused")
    <3>1. snap' \in [Req -> SUBSET Thing] /\ pc' \in [Req -> Steps]
      BY <1>0, <2>1, <2>3 DEF Goto, TypeOK, Steps
    <3> QED BY <1>0, <2>1, <2>3, <3>1 DEF TypeOK
  <2> QED BY <2>2, <2>3
<1>8. CASE DetachRead(r)
  <2>1. PICK found \in Listings(EdgesOf(op[r].ci, View(r))) :
          /\ todo' = [todo EXCEPT ![r] = found]
          /\ Goto(r, IF found = <<>> THEN "erase" ELSE "drop")
    BY <1>8 DEF DetachRead
  <2>2. found \in Seq(Req)
    BY <2>1, ListingType DEF EdgesOf, Edges
  <2>3. todo' \in [Req -> Seq(Req)] /\ pc' \in [Req -> Steps]
    BY <1>0, <2>1, <2>2 DEF TypeOK, Goto, Steps
  <2> QED BY <1>0, <1>8, <2>3 DEF DetachRead, TypeOK
<1>9. CASE InsertEdge(r) \/ DetachDrop(r) \/ DetachAudit(r) \/ Erase(r) \/ RecordAudit(r) \/ AddToOutbox(r)
           \/ DetachEvent(r)
  <2>0. /\ ActionOf(r) \in Action /\ "create" \in Action /\ "delete" \in Action
        /\ op[r].kind # "none" => Subject(r) \in Thing
        /\ r \in Thing /\ Req \subseteq Thing
    BY <1>0, OpTypes DEF Action, ActionOf, Thing
  <2>1. CASE Reject(r, "refused")
    BY <1>3, <2>1
  <2>2. CASE ~Reject(r, "refused")
    <3>1. op[r].kind # "none" /\ (pc[r] \in {"logaudit", "logevent"} => todo[r] # <<>>)
      BY <1>9 DEF Lifecycle, Places, Sessions, Session, InsertEdge, DetachDrop, DetachAudit, Erase,
                  RecordAudit, AddToOutbox, DetachEvent
    <3>2. todo[r] \in Seq(Req)
      BY <1>0 DEF TypeOK
    <3>3. pc[r] \in {"logaudit", "logevent"} => Head(todo[r]) \in Thing /\ Tail(todo[r]) \in Seq(Req)
      BY <2>0, <3>1, <3>2, TailOf
    <3>4. \E writes \in SUBSET Write : Do(r, writes)
      <4>1. CASE InsertEdge(r)
        BY <2>0, <2>2, <4>1, WriteType DEF InsertEdge, Refused
      <4>2. CASE DetachDrop(r)
        <5>1. {W("data", e, "delete") : e \in EdgesOf(op[r].ci, View(r))} \in SUBSET Write
          BY <2>0, WriteType DEF EdgesOf, Edges
        <5> QED BY <4>2, <5>1 DEF DetachDrop
      <4>3. CASE DetachAudit(r) \/ DetachEvent(r)
        BY <2>0, <3>3, <4>3, WriteType DEF DetachAudit, DetachEvent
      <4>4. CASE Erase(r) \/ RecordAudit(r) \/ AddToOutbox(r)
        BY <2>0, <3>1, <4>4, WriteType DEF Erase, RecordAudit, AddToOutbox
      <4> QED BY <1>9, <4>1, <4>2, <4>3, <4>4
    <3>5. pend' \in [Req -> SUBSET Write] /\ UNCHANGED Store
      BY <1>0, <3>4, DoType
    <3>6. UNCHANGED <<op, search, snap, resp, known>>
          /\ \E step \in {"audit", "logaudit", "logevent", "outbox", "commit", "erase"} : Goto(r, step)
      BY <1>9, <2>2 DEF InsertEdge, Refused, DetachDrop, DetachAudit, DetachEvent, Erase, RecordAudit, AddToOutbox
    <3>7. pc' \in [Req -> Steps]
      BY <1>0, <3>6 DEF Goto, TypeOK, Steps
    <3>8. todo' = todo \/ (pc[r] = "logevent" /\ todo' = [todo EXCEPT ![r] = Tail(@)])
      BY <1>9, <2>2 DEF InsertEdge, Refused, DetachDrop, DetachAudit, DetachEvent, Erase, RecordAudit, AddToOutbox
    <3>9. todo' \in [Req -> Seq(Req)]
      BY <1>0, <3>3, <3>8 DEF TypeOK
    <3> QED BY <1>0, <3>5, <3>6, <3>7, <3>9 DEF TypeOK, Store
  <2> QED BY <2>1, <2>2
<1> QED BY <1>1, <1>2, <1>5, <1>6, <1>7, <1>8, <1>9, StepShape DEF Local, Handle

------------------------------------------------------------------------------
(* What is in a session, and what a commit does.                           *)
LEMMA WritesHas ==
  ASSUME NEW to, NEW x, NEW act, NEW to2, NEW things, NEW act2
  PROVE  W(to, x, act) \in Writes(to2, things, act2) <=> to = to2 /\ x \in things /\ act = act2
BY DEF W, Writes

LEMMA WritesAdd ==
  ASSUME NEW to, NEW things, NEW act
  PROVE  /\ Writes(to, {}, act) = {}
         /\ \A x : Writes(to, things \cup {x}, act) = Writes(to, things, act) \cup {W(to, x, act)}
BY DEF Writes

LEMMA SessionHas ==
  ASSUME NEW r \in Req, Session(r)
  PROVE  \A to, x, act : W(to, x, act) \in pend[r] <=>
           /\ act = ActionOf(r)
           /\ \/ to = "data" /\ x \in Changed(r)
              \/ to = "audit" /\ x \in Recorded(r)
              \/ to = "outbox" /\ x \in Announced(r)
BY WritesHas DEF Session

Added(r) == IF op[r].kind = "link" THEN {r} ELSE {}
Removed(r) == IF op[r].kind = "link" THEN {} ELSE Changed(r)

LEMMA CommitMoves ==
  ASSUME Lifecycle, NEW r \in Req, Commit(r)
  PROVE  /\ Changed(r) = Added(r) \cup Removed(r)
         /\ stored' = (stored \cup Added(r)) \ Removed(r)
         /\ \A x \in Thing : x \in Changed(r) =>
              audit'[x] = Append(audit[x], ActionOf(r)) /\ outbox'[x] = Append(outbox[x], ActionOf(r))
         /\ \A x \in Thing : x \notin Changed(r) => audit'[x] = audit[x] /\ outbox'[x] = outbox[x]
<1>0. pc[r] = "commit" /\ Session(r) /\ Apply(pend[r])
  BY DEF Commit, Lifecycle, Sessions
<1>1. Recorded(r) = Changed(r) /\ Announced(r) = Changed(r)
  BY <1>0 DEF Changed, Recorded, Announced
<1>2. \A to \in {"data", "audit", "outbox"} : \A x, act :
        W(to, x, act) \in pend[r] <=> act = ActionOf(r) /\ x \in Changed(r)
  BY <1>0, <1>1, SessionHas
<1>3. \A x \in Thing : /\ x \in Changed(r) =>
                            audit'[x] = Append(audit[x], ActionOf(r)) /\ outbox'[x] = Append(outbox[x], ActionOf(r))
                       /\ x \notin Changed(r) => audit'[x] = audit[x] /\ outbox'[x] = outbox[x]
  BY <1>0, <1>2 DEF Apply, Extend, Action, ActionOf
<1>4. Changed(r) = Added(r) \cup Removed(r)
  BY <1>0 DEF Changed, Added, Removed, Loose, Subject
<1>5. {x \in Thing : W("data", x, "create") \in pend[r]} = Added(r)
  <2>1. CASE op[r].kind = "link"
    BY <2>1, <1>2, <1>4 DEF Added, Removed, ActionOf, Thing
  <2>2. CASE op[r].kind # "link"
    BY <2>2, <1>2 DEF Added, ActionOf
  <2> QED BY <2>1, <2>2
<1>6. \A x \in Thing : W("data", x, "delete") \in pend[r] <=> x \in Removed(r)
  BY <1>2 DEF Removed, ActionOf
<1>7. stored' = (stored \cup Added(r)) \ {x \in Thing : W("data", x, "delete") \in pend[r]}
  BY <1>0, <1>5 DEF Apply
<1>8. stored \cup Added(r) \subseteq Thing
  BY DEF Lifecycle, TypeOK, Added, Thing
<1>9. stored' = (stored \cup Added(r)) \ Removed(r)
  BY <1>6, <1>7, <1>8
<1> QED BY <1>3, <1>4, <1>9

LEMMA AppendIndex ==
  ASSUME NEW S, NEW s \in Seq(S), NEW x \in S
  PROVE  /\ Append(s, x) \in Seq(S) /\ Len(Append(s, x)) = Len(s) + 1
         /\ Append(s, x)[Len(s) + 1] = x /\ \A i \in 1..Len(s) : Append(s, x)[i] = s[i]
OBVIOUS

LEMMA AppendIs ==
  ASSUME NEW s \in Seq(Action), NEW t \in Seq(Action), NEW y \in Action, Len(t) = Len(s) + 1,
         t[Len(t)] = y, \A i \in 1..Len(s) : t[i] = s[i]
  PROVE  Append(s, y) = t
<1>1. /\ Append(s, y) \in Seq(Action) /\ Len(Append(s, y)) = Len(s) + 1 /\ Append(s, y)[Len(s) + 1] = y
      /\ \A i \in 1..Len(s) : Append(s, y)[i] = s[i]
  BY AppendIndex
<1>2. Len(s) \in Nat
  OBVIOUS
<1>3. \A i \in 1..Len(Append(s, y)) : Append(s, y)[i] = t[i]
  BY <1>1, <1>2
<1> QED BY <1>1, <1>3, SeqEqual

LEMMA Histories ==
  /\ Append(<<>>, "create") = <<"create">> /\ Append(<<"create">>, "delete") = <<"create", "delete">>
  /\ <<"create">> # <<>> /\ <<"create", "delete">> # <<>> /\ <<"create", "delete">> # <<"create">>
<1>1. ASSUME NEW s, NEW t, s = <<"create">>, t = <<"create", "delete">>
      PROVE  Append(s, "delete") = t
  <2>1. /\ s \in Seq(Action) /\ t \in Seq(Action) /\ "delete" \in Action
        /\ Len(s) = 1 /\ Len(t) = 2 /\ s[1] = "create" /\ t[1] = "create" /\ t[2] = "delete"
    BY <1>1 DEF Action
  <2>2. Len(t) = Len(s) + 1 /\ t[Len(t)] = "delete" /\ \A i \in 1..Len(s) : t[i] = s[i]
    BY <2>1
  <2> QED BY <2>1, <2>2, AppendIs
<1>2. <<"create">> # <<>> /\ <<"create", "delete">> # <<>> /\ Append(<<>>, "create") = <<"create">>
  OBVIOUS
<1>3. Len(<<"create", "delete">>) # Len(<<"create">>)
  OBVIOUS
<1> QED BY <1>1, <1>2, <1>3

(* A commit changes what is stored of what is not, and the other way round.*)
LEMMA CommitLineage ==
  ASSUME Lifecycle, NEW r \in Req, Commit(r)
  PROVE  /\ EdgeLineage'
         /\ \A x \in Thing : Born(x) => Born(x)'
         /\ \A x \in Thing : Born(x)' /\ ~Born(x) => x = r /\ op[r].kind = "link"
         /\ \A x \in stored' : x \in stored \/ (x = r /\ op[r].kind = "link" /\ ~Born(r))
<1>0. /\ stored \subseteq Thing /\ \A x \in Thing : x \in stored <=> audit[x] = <<"create">>
      /\ \A x \in Thing : outbox[x] = audit[x] /\ audit[x] \in {<<>>, <<"create">>, <<"create", "delete">>}
      /\ pc[r] = "commit" /\ r \in Thing
  BY DEF Lifecycle, EdgeLineage, TypeOK, Commit, Thing
<1>2. CASE op[r].kind = "link"
  <2>1. audit[r] = <<>> /\ r \notin stored
    BY <1>0 DEF Lifecycle, Past, Born
  <2>2. Added(r) = {r} /\ Removed(r) = {} /\ ActionOf(r) = "create"
    BY <1>2 DEF Added, Removed, ActionOf
  <2>3. stored' = stored \cup {r} /\ audit'[r] = <<"create">> /\ outbox'[r] = <<"create">>
        /\ \A x \in Thing : x # r => audit'[x] = audit[x] /\ outbox'[x] = outbox[x]
    BY <1>0, Histories, <2>1, <2>2, CommitMoves
  <2>4. EdgeLineage'
    BY <1>0, <2>3 DEF EdgeLineage
  <2> QED BY <1>0, Histories, <1>2, <2>1, <2>3, <2>4 DEF Born
<1>3. CASE op[r].kind # "link"
  <2>1. Added(r) = {} /\ Removed(r) = Changed(r) /\ ActionOf(r) = "delete"
    BY <1>3 DEF Added, Removed, ActionOf
  <2>2. \A x \in Changed(r) : x \in stored /\ audit[x] = <<"create">> /\ outbox[x] = <<"create">>
    BY <1>0, <1>3 DEF Lifecycle, Isolated
  <2>3. /\ stored' = stored \ Changed(r)
        /\ \A x \in Thing : x \in Changed(r) =>
             audit'[x] = <<"create", "delete">> /\ outbox'[x] = <<"create", "delete">>
        /\ \A x \in Thing : x \notin Changed(r) => audit'[x] = audit[x] /\ outbox'[x] = outbox[x]
    BY <1>0, Histories, <2>1, <2>2, CommitMoves
  <2>4. EdgeLineage'
    BY <1>0, Histories, <2>3 DEF EdgeLineage
  <2> QED BY <1>0, Histories, <2>2, <2>3, <2>4 DEF Born
<1> QED BY <1>2, <1>3

(* In every step: what has existed has, and nothing comes back.            *)
LEMMA StepLineage ==
  ASSUME Lifecycle, TxnEnabled, NEW r \in Req, Step(r)
  PROVE  /\ EdgeLineage'
         /\ \A x \in Thing : Born(x) => Born(x)'
         /\ \A x \in Thing : Born(x)' /\ ~Born(x) => x = r /\ op[r].kind = "link" /\ Commit(r)
         /\ \A x \in stored' : x \in stored \/ (x = r /\ op[r].kind = "link" /\ ~Born(r) /\ Commit(r))
<1>1. CASE Commit(r)
  BY <1>1, CommitLineage
<1>2. CASE UNCHANGED Store
  BY <1>2 DEF Store, Lifecycle, EdgeLineage, Born
<1>3. Sent(r) => UNCHANGED Store
  BY DEF Sent, Send, Store
<1> QED BY <1>1, <1>2, <1>3, StepShape DEF Local

LEMMA OpsStay ==
  ASSUME Lifecycle, TxnEnabled, NEW r \in Req, Step(r), NEW e \in Req, Born(e) \/ pc[e] # "idle"
  PROVE  op'[e] = op[e] /\ known'[e] = known[e]
<1>1. pc[e] # "idle"
  BY DEF Lifecycle, Past
<1>2. CASE e # r
  BY <1>2, StepFrame DEF Lifecycle, Frame
<1>3. CASE e = r
  BY <1>1, <1>3, StepShape DEF Sent, Send, Local, Commit
<1> QED BY <1>2, <1>3

LEMMA StepPast ==
  ASSUME Lifecycle, TxnEnabled, NEW r \in Req, Step(r)
  PROVE  Past'
<1> SUFFICES ASSUME NEW q \in Req
             PROVE  /\ Born(q)' => pc'[q] = "done" /\ op'[q].kind = "link"
                    /\ \A x \in snap'[q] \cup known'[q] : Born(x)'
  BY DEF Past, Born
<1>0. /\ Born(q) => pc[q] = "done" /\ op[q].kind = "link"
      /\ \A x \in snap[q] \cup known[q] : x \in Thing /\ Born(x)
      /\ q \in Thing
  BY DEF Lifecycle, Past, TypeOK, Thing
<1>1. \A x \in Thing : Born(x) => Born(x)'
  BY StepLineage
<1>2. \A x \in stored : x \in Thing /\ Born(x)
  BY StoredIsBorn
<1>3. CASE q # r
  BY <1>0, <1>1, <1>3, StepFrame, StepLineage DEF Frame, Lifecycle
<1>4. CASE q = r
  <2>1. ~Born(r)
    BY <1>0, <1>4, StepShape DEF Sent, Send, Local, Commit
  <2>2. Born(r)' => pc'[r] = "done" /\ op'[r].kind = "link"
    <3>1. Born(r)' => Commit(r) /\ op[r].kind = "link"
      BY <1>0, <1>4, <2>1, StepLineage
    <3>2. Commit(r) => pc'[r] = "done" /\ op' = op
      BY DEF Commit, End, Goto, Lifecycle, TypeOK
    <3> QED BY <3>1, <3>2
  <2>3. snap'[r] \in {snap[r], {}, stored} /\ known'[r] \in {known[r], stored}
    <3>0. snap \in [Req -> SUBSET Thing] /\ known \in [Req -> SUBSET Thing]
      BY DEF Lifecycle, TypeOK
    <3>1. known'[r] \in {known[r], stored}
      BY <3>0, StepShape DEF Sent, Send, Local, Commit
    <3>2. \/ UNCHANGED snap
          \/ \E a : End(r, a)
          \/ snap' = [snap EXCEPT ![r] = stored]
      <4>1. CASE Sent(r) \/ Commit(r)
        BY <4>1 DEF Sent, Send, Commit
      <4>2. CASE Handle(r)
        BY <4>2 DEF Handle, CheckSource, CheckTarget, CheckOutgoing, CheckIncoming, SearchLevel,
             CheckCycle, InsertEdge, Find, CountEdges, DetachRead, DetachDrop, DetachAudit,
             DetachEvent, Erase, RecordAudit, AddToOutbox, Commit, Fail, Passed, Refused, Reject
      <4> QED BY <4>1, <4>2, StepShape DEF Local
    <3> QED BY <3>0, <3>1, <3>2 DEF End
  <2> QED BY <1>0, <1>1, <1>2, <1>4, <2>2, <2>3
<1> QED BY <1>3, <1>4

------------------------------------------------------------------------------
(* From step to step.                                                      *)
Moved(r) ==
  \/ pc'[r] = "done"
  \/ /\ resp'[r] = resp[r]
     /\ \/ pc[r] \in Checks /\ pc'[r] \in Checks
        \/ pc[r] = "insert" /\ pc'[r] = "audit"
        \/ pc[r] = "find" /\ pc'[r] = (IF op[r].kind = "remove" THEN "count" ELSE "erase")
        \/ pc[r] = "count" /\ pc'[r] \in {"detach", "erase"}
        \/ pc[r] = "detach" /\ pc'[r] \in {"drop", "erase"}
        \/ pc[r] = "drop" /\ pc'[r] = "logaudit"
        \/ pc[r] = "logaudit" /\ pc'[r] = "logevent"
        \/ pc[r] = "logevent" /\ pc'[r] \in {"logaudit", "erase"}
        \/ pc[r] = "erase" /\ pc'[r] = "audit"
        \/ pc[r] = "audit" /\ pc'[r] = "outbox"
        \/ pc[r] = "outbox" /\ pc'[r] = "commit"

LEMMA LocalMoves ==
  ASSUME TypeOK, NEW r \in Req, Local(r)
  PROVE  Moved(r)
<1>0. pc \in [Req -> Steps] /\ resp \in [Req -> {"none", "ok", "refused", "error"}]
  BY DEF TypeOK
<1>1. ASSUME NEW a, End(r, a) PROVE Moved(r)
  BY <1>0, <1>1 DEF End, Goto, Moved
<1>2. CASE Commit(r) \/ Fail(r)
  BY <1>1, <1>2 DEF Commit, Fail, Reject
<1>3. CASE CheckSource(r) \/ CheckTarget(r) \/ CheckOutgoing(r) \/ CheckIncoming(r) \/ CheckCycle(r)
  <2>1. \/ Reject(r, "refused")
        \/ pc[r] \in Checks /\ \E step \in Checks : Passed(r, TRUE, step)
    BY <1>3 DEF CheckSource, CheckTarget, CheckOutgoing, CheckIncoming, CheckCycle, Refused, Passed, Checks
  <2>2. ASSUME pc[r] \in Checks, NEW step \in Checks, Passed(r, TRUE, step) PROVE Moved(r)
    BY <1>0, <2>2 DEF Passed, Goto, Moved
  <2> QED BY <1>1, <2>1, <2>2 DEF Reject
<1>4. CASE SearchLevel(r)
  BY <1>0, <1>4 DEF SearchLevel, Moved, Checks
<1>5. CASE InsertEdge(r) \/ Find(r)
  BY <1>0, <1>1, <1>5 DEF InsertEdge, Find, Refused, Reject, Goto, Moved
<1>6. CASE CountEdges(r)
  BY <1>0, <1>1, <1>6 DEF CountEdges, Refused, Reject, Passed, Goto, Moved
<1>7. CASE DetachRead(r) \/ DetachDrop(r) \/ DetachAudit(r) \/ DetachEvent(r)
  BY <1>0, <1>7 DEF DetachRead, DetachDrop, DetachAudit, DetachEvent, Goto, Moved
<1>8. CASE Erase(r) \/ RecordAudit(r) \/ AddToOutbox(r)
  BY <1>0, <1>8 DEF Erase, RecordAudit, AddToOutbox, Goto, Moved
<1> QED BY <1>2, <1>3, <1>4, <1>5, <1>6, <1>7, <1>8 DEF Local, Handle

LEMMA StepPlaces ==
  ASSUME Lifecycle, TxnEnabled, NEW r \in Req, Step(r)
  PROVE  Places'
<1> SUFFICES ASSUME NEW q \in Req
             PROVE  /\ op'[q].kind = "none" <=> pc'[q] = "idle"
                    /\ pc'[q] \in Checks => op'[q].kind = "link"
                    /\ pc'[q] = "find" => op'[q].kind \in {"unlink", "remove"}
                    /\ pc'[q] \in {"count", "detach", "drop", "logaudit", "logevent"} => op'[q].kind = "remove"
                    /\ pc'[q] = "erase" => op'[q].kind \in {"unlink", "remove"}
                    /\ resp'[q] # "none" => pc'[q] = "done"
  BY DEF Places
<1>0. TypeOK /\ Places
  BY DEF Lifecycle
<1>1. CASE q # r
  BY <1>0, <1>1, StepFrame DEF Frame, Places
<1>2. CASE q = r /\ Sent(r)
  <2>1. PICK request \in Request, step \in {"source", "find"} :
          (step = "source" <=> request.kind = "link") /\ Send(r, request, step)
    BY <1>2 DEF Sent
  <2>2. pc'[r] = step /\ op'[r] = request /\ resp'[r] = resp[r] /\ pc[r] = "idle"
    BY <1>0, <2>1 DEF Send, Goto, TypeOK
  <2>3. request.kind \in {"link", "unlink", "remove"}
    BY DEF Request, LinkOp, UnlinkOp, RemoveOp
  <2> QED BY <1>0, <1>2, <2>1, <2>2, <2>3 DEF Places, Checks
<1>3. CASE q = r /\ Commit(r)
  <2>1. pc'[r] = "done" /\ op'[r] = op[r] /\ pc[r] = "commit"
    BY <1>0, <1>3 DEF Commit, End, Goto, TypeOK
  <2> QED BY <1>0, <1>3, <2>1 DEF Places, Checks
<1>4. CASE q = r /\ Local(r)
  <2>1. op'[r] = op[r] /\ pc[r] # "idle" /\ Moved(r) /\ pc[r] # "done"
    BY <1>0, <1>4, LocalMoves DEF Local
  <2> QED BY <1>0, <1>4, <2>1 DEF Places, Checks, Moved
<1> QED BY <1>1, <1>2, <1>3, <1>4, StepShape

------------------------------------------------------------------------------
(* Sessions.                                                               *)
LEMMA TailElements ==
  ASSUME NEW S, NEW s \in Seq(S), s # <<>>, IsInjective(s)
  PROVE  /\ Elements(Tail(s)) = Elements(s) \ {s[1]} /\ IsInjective(Tail(s)) /\ s[1] \in Elements(s)
         /\ Len(s) = 1 => Elements(s) = {s[1]}
         /\ Len(s) # 1 => Tail(s) # <<>>
<1>1. /\ Tail(s) \in Seq(S) /\ Len(Tail(s)) = Len(s) - 1 /\ Len(s) \in Nat \ {0}
      /\ DOMAIN s = 1..Len(s) /\ DOMAIN Tail(s) = 1..(Len(s) - 1)
      /\ \A i \in 1..(Len(s) - 1) : Tail(s)[i] = s[i + 1]
  BY TailOf
<1>2. \A i, j \in 1..Len(s) : s[i] = s[j] => i = j
  BY <1>1 DEF IsInjective
<1>3. IsInjective(Tail(s))
  <2> SUFFICES ASSUME NEW i \in 1..(Len(s) - 1), NEW j \in 1..(Len(s) - 1), Tail(s)[i] = Tail(s)[j]
               PROVE  i = j
    BY <1>1 DEF IsInjective
  <2>1. i + 1 \in 1..Len(s) /\ j + 1 \in 1..Len(s) /\ s[i + 1] = s[j + 1]
    BY <1>1
  <2>2. i + 1 = j + 1
    BY <1>2, <2>1
  <2> QED BY <2>2
<1>4. 1 \in DOMAIN s /\ s[1] \in Elements(s)
  BY <1>1 DEF Elements
<1>5. ASSUME NEW x \in Elements(Tail(s)) PROVE x \in Elements(s) \ {s[1]}
  <2>1. PICK i \in 1..(Len(s) - 1) : x = Tail(s)[i]
    BY <1>1 DEF Elements
  <2>2. i + 1 \in 1..Len(s) /\ 1 \in 1..Len(s) /\ i + 1 # 1 /\ x = s[i + 1]
    BY <1>1, <2>1
  <2>3. x # s[1]
    BY <1>2, <2>2
  <2> QED BY <1>1, <2>2, <2>3 DEF Elements
<1>6. ASSUME NEW x \in Elements(s) \ {s[1]} PROVE x \in Elements(Tail(s))
  <2>1. PICK i \in 1..Len(s) : x = s[i]
    BY <1>1, <1>6 DEF Elements
  <2>2. i # 1
    BY <1>6, <2>1
  <2>3. i - 1 \in 1..(Len(s) - 1) /\ (i - 1) + 1 = i
    BY <1>1, <2>2
  <2>4. Tail(s)[i - 1] = x
    BY <1>1, <2>1, <2>3
  <2> QED BY <1>1, <2>3, <2>4 DEF Elements
<1>7. Len(s) = 1 => Elements(s) = {s[1]}
  BY <1>1 DEF Elements
<1>8. Len(s) # 1 => Tail(s) # <<>>
  <2>1. Len(<<>>) = 0
    OBVIOUS
  <2>2. Len(s) # 1 => Len(Tail(s)) # 0
    BY <1>1
  <2> QED BY <2>1, <2>2
<1> QED BY <1>3, <1>4, <1>5, <1>6, <1>7, <1>8

LEMMA LooseStays ==
  ASSUME Lifecycle, TxnEnabled, NEW r \in Req, Step(r), NEW q \in Req,
         pc[q] # "idle", snap'[q] = snap[q]
  PROVE  /\ Loose(q)' = Loose(q) /\ op'[q] = op[q]
<1>1. op'[q] = op[q]
  BY OpsStay
<1>2. \A e \in Edges(snap[q]) : op'[e] = op[e]
  <2> SUFFICES ASSUME NEW e \in snap[q], e \in Req PROVE op'[e] = op[e]
    BY DEF Edges
  <2>1. Born(e)
    BY DEF Lifecycle, Past
  <2> QED BY <2>1, OpsStay
<1>3. \A c : EdgesOf(c, snap[q])' = EdgesOf(c, snap[q])
  BY <1>2 DEF EdgesOf, Touches, Edges
<1> QED BY <1>1, <1>3 DEF Loose, EdgesOf, Touches, Edges

(* A request whose state is the same has the same session.                 *)
LEMMA SameSession ==
  ASSUME NEW q \in Req, pc'[q] = pc[q], op'[q] = op[q], todo'[q] = todo[q],
         Loose(q)' = Loose(q)
  PROVE  /\ Changed(q)' = Changed(q)
         /\ Session(q) /\ pend'[q] = pend[q] => Session(q)'
<1>1. ActionOf(q)' = ActionOf(q) /\ Subject(q)' = Subject(q)
  BY DEF ActionOf, Subject
<1>2. Changed(q)' = Changed(q) /\ Recorded(q)' = Recorded(q) /\ Announced(q)' = Announced(q)
  BY <1>1 DEF Changed, Recorded, Announced
<1> QED BY <1>1, <1>2 DEF Session

(* Before the first write there is nothing to hold back.                   *)
Before == {"idle", "source", "target", "outgoing", "incoming", "cycle", "insert", "find", "count", "detach",
           "done"}

LEMMA NothingYet ==
  ASSUME NEW q \in Req
  PROVE  /\ pc[q] \in Before => Changed(q) = {} /\ Recorded(q) = {} /\ Announced(q) = {}
         /\ pc[q] \in Before => (Session(q) <=> pend[q] = {})
         /\ pc[q] \in Before \cup {"drop"} => (Session(q) => pend[q] = {})
BY DEF Changed, Recorded, Announced, Session, Before, Writes

LEMMA DoAdds ==
  ASSUME TypeOK, TxnEnabled, NEW r \in Req, NEW writes, Do(r, writes)
  PROVE  pend'[r] = pend[r] \cup writes
BY DEF Do, TypeOK

LEMMA SnapStays ==
  ASSUME TypeOK, NEW r \in Req, Local(r) \/ Sent(r), ~Find(r), pc'[r] # "done"
  PROVE  snap'[r] = snap[r]
<1>1. ASSUME NEW a, End(r, a) PROVE FALSE
  BY <1>1 DEF End, Goto, TypeOK
<1>2. CASE Sent(r)
  BY <1>2 DEF Sent, Send
<1>3. CASE Local(r)
  BY <1>1, <1>3 DEF Local, Handle, CheckSource, CheckTarget, CheckOutgoing, CheckIncoming, SearchLevel,
       CheckCycle, InsertEdge, Find, CountEdges, DetachRead, DetachDrop, DetachAudit,
       DetachEvent, Erase, RecordAudit, AddToOutbox, Commit, Fail, Passed, Refused, Reject
<1> QED BY <1>2, <1>3

LEMMA NothingThen ==
  ASSUME NEW q \in Req, pc'[q] \in Before, pend'[q] = {}
  PROVE  Session(q)' /\ Changed(q)' = {}
BY DEF Changed, Recorded, Announced, Session, Before, Writes

LEMMA EndSession ==
  ASSUME TypeOK, NEW r \in Req, NEW a, End(r, a)
  PROVE  pc'[r] = "done" /\ pend'[r] = {} /\ Session(r)' /\ Changed(r)' = {}
<1>1. pc'[r] = "done" /\ pend'[r] = {}
  BY DEF End, Goto, TypeOK
<1> QED BY <1>1, NothingThen DEF Before

(* The detaching of edges, step by step.                                   *)
LEMMA DetachSessions ==
  ASSUME Lifecycle, TxnEnabled, NEW r \in Req, Step(r),
         DetachRead(r) \/ DetachDrop(r) \/ DetachAudit(r) \/ DetachEvent(r)
  PROVE  Session(r)'
<1>0. /\ TypeOK /\ Session(r) /\ op[r].kind = "remove" /\ pc[r] # "idle" /\ todo[r] \in Seq(Req)
      /\ ActionOf(r) = "delete" /\ Loose(r) = EdgesOf(op[r].ci, View(r))
      /\ pc \in [Req -> Steps] /\ todo \in [Req -> Seq(Req)]
  BY DEF Lifecycle, TypeOK, Places, Sessions, DetachRead, DetachDrop, DetachAudit, DetachEvent, ActionOf,
         Loose, View
<1>1. op'[r] = op[r] /\ snap'[r] = snap[r] /\ Loose(r)' = Loose(r) /\ ActionOf(r)' = "delete"
  <2>1. snap' = snap /\ op' = op
    BY DEF DetachRead, DetachDrop, DetachAudit, DetachEvent
  <2> QED BY <1>0, <2>1, LooseStays DEF ActionOf
<1>2. CASE DetachRead(r)
  <2>1. PICK found \in Listings(Loose(r)) :
          /\ todo'[r] = found /\ pc'[r] = (IF found = <<>> THEN "erase" ELSE "drop")
          /\ pend' = pend /\ pc[r] = "detach"
    BY <1>0, <1>2 DEF DetachRead, Goto
  <2>2. Elements(found) = Loose(r) /\ IsInjective(found) /\ (found = <<>> <=> Loose(r) = {})
    BY <1>0, <2>1, ListingType DEF EdgesOf, Edges
  <2>3. pend'[r] = {}
    BY <1>0, <2>1, NothingYet DEF Before
  <2>4. Changed(r)' = {} /\ Recorded(r)' = {} /\ Announced(r)' = {}
    BY <1>1, <2>1, <2>2 DEF Changed, Recorded, Announced
  <2> QED BY <2>1, <2>2, <2>3, <2>4, <1>1, WritesAdd DEF Session
<1>3. CASE DetachDrop(r)
  <2>1. /\ pc[r] = "drop" /\ pc'[r] = "logaudit" /\ todo'[r] = todo[r]
        /\ Do(r, Writes("data", Loose(r), "delete"))
    BY <1>0, <1>3 DEF DetachDrop, Goto, Writes
  <2>2. pend'[r] = Writes("data", Loose(r), "delete")
    <3>1. pend[r] = {}
      BY <1>0, <2>1, NothingYet
    <3> QED BY <1>0, <2>1, <3>1, DoAdds
  <2>3. /\ Elements(todo[r]) = Loose(r) /\ todo[r] # <<>> /\ IsInjective(todo[r])
        /\ Elements(todo'[r]) = Loose(r)
    BY <1>0, <2>1 DEF Session
  <2>4. Changed(r)' = Loose(r) /\ Recorded(r)' = {} /\ Announced(r)' = {}
    BY <1>1, <2>1, <2>3 DEF Changed, Recorded, Announced
  <2> QED BY <1>1, <2>1, <2>2, <2>3, <2>4, WritesAdd DEF Session
<1>4. CASE DetachAudit(r)
  <2>1. pc[r] = "logaudit" /\ pc'[r] = "logevent" /\ todo'[r] = todo[r]
        /\ Do(r, {W("audit", Head(todo[r]), "delete")})
    BY <1>0, <1>4 DEF DetachAudit, Goto
  <2>2. /\ todo[r] # <<>> /\ IsInjective(todo[r]) /\ Elements(todo[r]) \subseteq Loose(r)
        /\ Changed(r) = Loose(r) /\ Recorded(r) = Loose(r) \ Elements(todo[r])
        /\ Announced(r) = Loose(r) \ Elements(todo[r])
    BY <1>0, <2>1 DEF Session, Changed, Recorded, Announced
  <2>3. Head(todo[r]) = todo[r][1]
    BY <1>0, <2>2, TailOf
  <2>4. /\ Changed(r)' = Changed(r) /\ Announced(r)' = Announced(r)
        /\ Recorded(r)' = Recorded(r) \cup {todo[r][1]}
    BY <1>1, <2>1, <2>2 DEF Changed, Recorded, Announced
  <2>5. pend'[r] = pend[r] \cup {W("audit", todo[r][1], "delete")}
    BY <1>0, <2>1, <2>3, DoAdds
  <2>6. Writes("audit", Recorded(r)', "delete") =
          Writes("audit", Recorded(r), "delete") \cup {W("audit", todo[r][1], "delete")}
    <3>1. \A x : Writes("audit", Recorded(r) \cup {x}, "delete") =
                   Writes("audit", Recorded(r), "delete") \cup {W("audit", x, "delete")}
      BY WritesAdd
    <3> QED BY <2>4, <3>1
  <2>7. pend'[r] = Writes("data", Changed(r)', "delete") \cup Writes("audit", Recorded(r)', "delete")
                     \cup Writes("outbox", Announced(r)', "delete")
    BY <1>0, <2>4, <2>5, <2>6 DEF Session
  <2> QED BY <1>1, <2>1, <2>2, <2>7 DEF Session
<1>5. CASE DetachEvent(r)
  <2>1. /\ pc[r] = "logevent" /\ todo'[r] = Tail(todo[r])
        /\ pc'[r] = (IF Len(todo[r]) = 1 THEN "erase" ELSE "logaudit")
        /\ Do(r, {W("outbox", Head(todo[r]), "delete")})
    BY <1>0, <1>5 DEF DetachEvent, Goto
  <2>2. /\ todo[r] # <<>> /\ IsInjective(todo[r]) /\ Elements(todo[r]) \subseteq Loose(r)
        /\ Changed(r) = Loose(r) /\ Recorded(r) = (Loose(r) \ Elements(todo[r])) \cup {todo[r][1]}
        /\ Announced(r) = Loose(r) \ Elements(todo[r])
    BY <1>0, <2>1 DEF Session, Changed, Recorded, Announced
  <2>3. Head(todo[r]) = todo[r][1]
    BY <1>0, <2>2, TailOf
  <2>4. /\ Elements(todo'[r]) = Elements(todo[r]) \ {todo[r][1]} /\ IsInjective(todo'[r])
        /\ todo[r][1] \in Elements(todo[r])
        /\ Len(todo[r]) = 1 => Elements(todo[r]) = {todo[r][1]}
        /\ Len(todo[r]) # 1 => todo'[r] # <<>>
    BY <1>0, <2>1, <2>2, TailElements
  <2>5. /\ Changed(r)' = Changed(r) /\ Recorded(r)' = Recorded(r)
        /\ Announced(r)' = Announced(r) \cup {todo[r][1]}
    <3>1. CASE Len(todo[r]) = 1
      BY <1>1, <2>1, <2>2, <2>4, <3>1 DEF Changed, Recorded, Announced
    <3>2. CASE Len(todo[r]) # 1
      BY <1>1, <2>1, <2>2, <2>4, <3>2 DEF Changed, Recorded, Announced
    <3> QED BY <3>1, <3>2
  <2>6. pend'[r] = pend[r] \cup {W("outbox", todo[r][1], "delete")}
    BY <1>0, <2>1, <2>3, DoAdds
  <2>7. Writes("outbox", Announced(r)', "delete") =
          Writes("outbox", Announced(r), "delete") \cup {W("outbox", todo[r][1], "delete")}
    <3>1. \A x : Writes("outbox", Announced(r) \cup {x}, "delete") =
                   Writes("outbox", Announced(r), "delete") \cup {W("outbox", x, "delete")}
      BY WritesAdd
    <3> QED BY <2>5, <3>1
  <2>8. pend'[r] = Writes("data", Changed(r)', "delete") \cup Writes("audit", Recorded(r)', "delete")
                     \cup Writes("outbox", Announced(r)', "delete")
    BY <1>0, <2>5, <2>6, <2>7 DEF Session
  <2>9. pc'[r] = "logaudit" => todo'[r] # <<>> /\ Elements(todo'[r]) \subseteq Loose(r)
    BY <2>1, <2>2, <2>4
  <2> QED BY <1>1, <2>1, <2>4, <2>8, <2>9 DEF Session
<1> QED BY <1>2, <1>3, <1>4, <1>5

(* The other writes: an edge inserted, a thing erased, its records.        *)
LEMMA WriteSessions ==
  ASSUME Lifecycle, TxnEnabled, NEW r \in Req, Step(r),
         InsertEdge(r) \/ Erase(r) \/ RecordAudit(r) \/ AddToOutbox(r), pc'[r] # "done"
  PROVE  Session(r)'
<1>0. TypeOK /\ Session(r) /\ pc \in [Req -> Steps] /\ pc[r] # "idle"
  BY DEF Lifecycle, TypeOK, Places, Sessions, InsertEdge, Erase, RecordAudit, AddToOutbox
<1>1. /\ op'[r] = op[r] /\ Loose(r)' = Loose(r) /\ ActionOf(r)' = ActionOf(r) /\ Subject(r)' = Subject(r)
  <2>1. snap'[r] = snap[r] /\ op' = op
    BY <1>0, EndSession DEF InsertEdge, Refused, Reject, Erase, RecordAudit, AddToOutbox
  <2> QED BY <1>0, <2>1, LooseStays DEF ActionOf, Subject
<1> DEFINE Held(D, A, O) == Writes("data", D, ActionOf(r)) \cup Writes("audit", A, ActionOf(r))
                              \cup Writes("outbox", O, ActionOf(r))
<1>2. pend[r] = Held(Changed(r), Recorded(r), Announced(r))
  BY <1>0 DEF Session
<1>3. ASSUME pc'[r] \in {"audit", "outbox", "commit"}, pend'[r] = Held(Changed(r)', Recorded(r)', Announced(r)')
      PROVE  Session(r)'
  BY <1>1, <1>3 DEF Session
<1>4. \A D, A, O, x : /\ Held(D \cup {x}, A, O) = Held(D, A, O) \cup {W("data", x, ActionOf(r))}
                      /\ Held(D, A \cup {x}, O) = Held(D, A, O) \cup {W("audit", x, ActionOf(r))}
                      /\ Held(D, A, O \cup {x}) = Held(D, A, O) \cup {W("outbox", x, ActionOf(r))}
  <2> TAKE D, A, O, x
  <2> DEFINE act == ActionOf(r)
  <2>1. /\ Writes("data", D \cup {x}, act) = Writes("data", D, act) \cup {W("data", x, act)}
        /\ Writes("audit", A \cup {x}, act) = Writes("audit", A, act) \cup {W("audit", x, act)}
        /\ Writes("outbox", O \cup {x}, act) = Writes("outbox", O, act) \cup {W("outbox", x, act)}
    BY WritesAdd
  <2> QED BY <2>1
<1> HIDE DEF Held
<1>5. CASE InsertEdge(r)
  <2>1. pc[r] = "insert" /\ pc'[r] = "audit" /\ Do(r, {W("data", r, "create")})
    BY <1>0, <1>5, EndSession DEF InsertEdge, Refused, Reject, Goto
  <2>2. op[r].kind = "link" /\ Subject(r) = r /\ ActionOf(r) = "create" /\ Loose(r) = {}
    BY <2>1 DEF Lifecycle, Places, Checks, Subject, ActionOf, Loose
  <2>3. Changed(r) = {} /\ Recorded(r) = {} /\ Announced(r) = {}
    BY <2>1, NothingYet DEF Before
  <2>4. Changed(r)' = {} \cup {r} /\ Recorded(r)' = {} /\ Announced(r)' = {}
    BY <1>1, <2>1, <2>2 DEF Changed, Recorded, Announced
  <2>5. pend'[r] = pend[r] \cup {W("data", r, ActionOf(r))}
    BY <1>0, <2>1, <2>2, DoAdds
  <2>6. Held({} \cup {r}, {}, {}) = pend'[r]
    <3>1. pend[r] = Held({}, {}, {})
      BY <1>2, <2>3
    <3>2. Held({} \cup {r}, {}, {}) = Held({}, {}, {}) \cup {W("data", r, ActionOf(r))}
      <4>1. PICK none : none = {}
        OBVIOUS
      <4>2. Held(none \cup {r}, none, none) = Held(none, none, none) \cup {W("data", r, ActionOf(r))}
        BY <1>4
      <4> QED BY <4>1, <4>2
    <3> QED BY <2>5, <3>1, <3>2
  <2> QED BY <1>3, <2>1, <2>4, <2>6
<1>6. CASE Erase(r)
  <2>1. pc[r] = "erase" /\ pc'[r] = "audit" /\ Do(r, {W("data", Subject(r), "delete")})
    BY <1>0, <1>6 DEF Erase, Goto
  <2>2. ActionOf(r) = "delete"
    BY <2>1 DEF Lifecycle, Places, ActionOf
  <2>3. Changed(r) = Loose(r) /\ Recorded(r) = Loose(r) /\ Announced(r) = Loose(r)
    BY <2>1 DEF Changed, Recorded, Announced
  <2>4. Changed(r)' = Loose(r) \cup {Subject(r)} /\ Recorded(r)' = Loose(r) /\ Announced(r)' = Loose(r)
    BY <1>1, <2>1 DEF Changed, Recorded, Announced
  <2>5. pend'[r] = pend[r] \cup {W("data", Subject(r), ActionOf(r))}
    BY <1>0, <2>1, <2>2, DoAdds
  <2> QED BY <1>2, <1>3, <1>4, <2>1, <2>3, <2>4, <2>5
<1>7. CASE RecordAudit(r)
  <2>1. pc[r] = "audit" /\ pc'[r] = "outbox" /\ Do(r, {W("audit", Subject(r), ActionOf(r))})
    BY <1>0, <1>7 DEF RecordAudit, Goto
  <2>2. Recorded(r) = Loose(r) /\ Announced(r) = Loose(r)
    BY <2>1 DEF Recorded, Announced
  <2>3. Changed(r)' = Changed(r) /\ Recorded(r)' = Loose(r) \cup {Subject(r)} /\ Announced(r)' = Loose(r)
    BY <1>1, <2>1 DEF Changed, Recorded, Announced
  <2>4. pend'[r] = pend[r] \cup {W("audit", Subject(r), ActionOf(r))}
    BY <1>0, <2>1, DoAdds
  <2> QED BY <1>2, <1>3, <1>4, <2>1, <2>2, <2>3, <2>4
<1>8. CASE AddToOutbox(r)
  <2>1. pc[r] = "outbox" /\ pc'[r] = "commit" /\ Do(r, {W("outbox", Subject(r), ActionOf(r))})
    BY <1>0, <1>8 DEF AddToOutbox, Goto
  <2>2. Announced(r) = Loose(r)
    BY <2>1 DEF Announced
  <2>3. Changed(r)' = Changed(r) /\ Recorded(r)' = Recorded(r) /\ Announced(r)' = Loose(r) \cup {Subject(r)}
    BY <1>1, <2>1 DEF Changed, Recorded, Announced
  <2>4. pend'[r] = pend[r] \cup {W("outbox", Subject(r), ActionOf(r))}
    BY <1>0, <2>1, DoAdds
  <2> QED BY <1>2, <1>3, <1>4, <2>1, <2>2, <2>3, <2>4
<1> QED BY <1>5, <1>6, <1>7, <1>8

LEMMA OwnSession ==
  ASSUME Lifecycle, TxnEnabled, NEW r \in Req, Step(r)
  PROVE  Session(r)'
<1>0. TypeOK /\ Session(r) /\ pc \in [Req -> Steps]
  BY DEF Lifecycle, Sessions, TypeOK
<1>2. ASSUME NEW a, End(r, a) PROVE Session(r)'
  BY <1>0, <1>2, EndSession
<1>3. CASE Sent(r)
  <2>1. pc[r] = "idle" /\ pc'[r] \in {"source", "find"} /\ pend'[r] = pend[r]
    BY <1>0, <1>3 DEF Sent, Send, Goto
  <2> QED BY <1>0, <2>1, NothingYet, NothingThen DEF Before
<1>4. CASE Commit(r) \/ Fail(r)
  BY <1>2, <1>4 DEF Commit, Fail, Reject
<1>5. CASE CheckSource(r) \/ CheckTarget(r) \/ CheckOutgoing(r) \/ CheckIncoming(r) \/ CheckCycle(r)
           \/ SearchLevel(r)
  <2>1. \/ Reject(r, "refused")
        \/ pc[r] \in Checks /\ pc'[r] \in Checks /\ pend'[r] = pend[r]
    BY <1>0, <1>5 DEF CheckSource, CheckTarget, CheckOutgoing, CheckIncoming, CheckCycle, SearchLevel,
                      Refused, Passed, Goto, Checks
  <2> QED BY <1>0, <1>2, <2>1, NothingYet, NothingThen DEF Reject, Before, Checks
<1>6. CASE Find(r)
  <2>1. CASE Reject(r, "refused")
    BY <1>2, <2>1 DEF Reject
  <2>2. CASE ~Reject(r, "refused")
    <3>1. /\ pc[r] = "find" /\ pc'[r] = (IF op[r].kind = "remove" THEN "count" ELSE "erase")
          /\ pend'[r] = pend[r] /\ op'[r] = op[r]
      BY <1>0, <1>6, <2>2 DEF Find, Refused, Goto
    <3>2. pend'[r] = {}
      BY <1>0, <3>1, NothingYet DEF Before
    <3>3. CASE op[r].kind = "remove"
      BY <3>1, <3>2, <3>3, NothingThen DEF Before
    <3>4. CASE op[r].kind # "remove"
      <4>1. Changed(r)' = {} /\ Recorded(r)' = {} /\ Announced(r)' = {}
        BY <3>1, <3>4 DEF Changed, Recorded, Announced, Loose
      <4> QED BY <3>1, <3>2, <3>4, <4>1, WritesAdd DEF Session
    <3> QED BY <3>3, <3>4
  <2> QED BY <2>1, <2>2
<1>7. CASE CountEdges(r)
  <2>1. CASE Reject(r, "refused")
    BY <1>2, <2>1 DEF Reject
  <2>2. CASE ~Reject(r, "refused")
    <3>1. /\ pc[r] = "count" /\ pend'[r] = pend[r] /\ op'[r] = op[r] /\ snap'[r] = snap[r]
          /\ \/ pc'[r] = "detach"
             \/ pc'[r] = "erase" /\ EdgesOf(op[r].ci, View(r)) = {}
      BY <1>0, <1>7, <2>2 DEF CountEdges, Refused, Passed, Goto
    <3>2. pend'[r] = {}
      BY <1>0, <3>1, NothingYet DEF Before
    <3>3. CASE pc'[r] = "detach"
      BY <3>2, <3>3, NothingThen DEF Before
    <3>4. CASE pc'[r] = "erase" /\ EdgesOf(op[r].ci, View(r)) = {}
      <4>1. Loose(r)' = {}
        <5>1. Loose(r) = {}
          BY <3>4 DEF Loose, View
        <5> QED BY <3>1, <5>1, LooseStays
      <4>2. Changed(r)' = {} /\ Recorded(r)' = {} /\ Announced(r)' = {}
        BY <3>4, <4>1 DEF Changed, Recorded, Announced
      <4> QED BY <3>2, <3>4, <4>2, WritesAdd DEF Session
    <3> QED BY <3>1, <3>3, <3>4
  <2> QED BY <2>1, <2>2
<1>8. CASE DetachRead(r) \/ DetachDrop(r) \/ DetachAudit(r) \/ DetachEvent(r)
  BY <1>8, DetachSessions
<1>9. CASE InsertEdge(r) \/ Erase(r) \/ RecordAudit(r) \/ AddToOutbox(r)
  <2>1. CASE Reject(r, "refused")
    BY <1>2, <2>1 DEF Reject
  <2>2. CASE ~Reject(r, "refused")
    <3>1. pc'[r] \in {"audit", "outbox", "commit"}
      BY <1>0, <1>9, <2>2 DEF InsertEdge, Erase, RecordAudit, AddToOutbox, Refused, Goto
    <3> QED BY <1>9, <3>1, WriteSessions
  <2> QED BY <2>1, <2>2
<1> QED BY <1>3, <1>4, <1>5, <1>6, <1>7, <1>8, <1>9, StepShape DEF Local, Handle

LEMMA StepSessions ==
  ASSUME Lifecycle, TxnEnabled, NEW r \in Req, Step(r)
  PROVE  Sessions'
<1> SUFFICES ASSUME NEW q \in Req PROVE Session(q)'
  BY DEF Sessions
<1>0. TypeOK /\ Session(q)
  BY DEF Lifecycle, Sessions
<1>1. CASE q # r
  <2>1. /\ pc'[q] = pc[q] /\ op'[q] = op[q] /\ snap'[q] = snap[q] /\ todo'[q] = todo[q] /\ pend'[q] = pend[q]
    BY <1>0, <1>1, StepFrame DEF Frame
  <2>2. CASE pc[q] = "idle"
    BY <1>0, <2>1, <2>2, NothingYet, NothingThen DEF Before
  <2>3. CASE pc[q] # "idle"
    BY <1>0, <2>1, <2>3, LooseStays, SameSession
  <2> QED BY <2>2, <2>3
<1> QED BY <1>1, OwnSession

------------------------------------------------------------------------------
(* What a session deletes is there, and no other session changes it.       *)
LEMMA DataWrites ==
  ASSUME Lifecycle, TxnEnabled, NEW r \in Req, Step(r), NEW x, NEW act, W("data", x, act) \in pend'[r]
  PROVE  \/ W("data", x, act) \in pend[r]
         \/ op[r].kind = "link" /\ x = r
         \/ /\ op[r].kind # "link" /\ x \in stored
            /\ \A q \in Req \ {r} : W("data", x, "delete") \notin pend[q]
<1>0. TypeOK /\ pend \in [Req -> SUBSET Write]
  BY DEF Lifecycle, TypeOK
<1>1. ASSUME NEW a, End(r, a) PROVE FALSE
  BY <1>0, <1>1 DEF End
<1>2. ASSUME pend' = pend PROVE W("data", x, act) \in pend[r]
  BY <1>2
<1>3. CASE Sent(r) \/ Commit(r) \/ Fail(r)
  BY <1>1, <1>2, <1>3 DEF Sent, Send, Commit, Fail, Reject
<1>4. CASE CheckSource(r) \/ CheckTarget(r) \/ CheckOutgoing(r) \/ CheckIncoming(r) \/ CheckCycle(r)
           \/ SearchLevel(r) \/ Find(r) \/ CountEdges(r) \/ DetachRead(r)
  <2>1. pend' = pend \/ \E a : End(r, a)
    BY <1>4 DEF CheckSource, CheckTarget, CheckOutgoing, CheckIncoming, CheckCycle, SearchLevel, Find,
                CountEdges, DetachRead, Refused, Passed, Reject
  <2> QED BY <1>1, <1>2, <2>1
<1>5. CASE InsertEdge(r)
  <2>1. op[r].kind = "link"
    BY <1>5 DEF InsertEdge, Lifecycle, Places, Checks
  <2>2. Do(r, {W("data", r, "create")})
    BY <1>1, <1>5 DEF InsertEdge, Refused, Reject
  <2>3. pend'[r] = pend[r] \cup {W("data", r, "create")}
    BY <1>0, <2>2, DoAdds
  <2> QED BY <2>1, <2>3 DEF W
<1>6. CASE DetachDrop(r)
  <2>1. op[r].kind = "remove" /\ pc[r] = "drop"
    BY <1>6 DEF DetachDrop, Lifecycle, Places
  <2>2. PICK gone : gone = EdgesOf(op[r].ci, View(r)) /\ ~Conflict(r, gone)
                    /\ Do(r, {W("data", e, "delete") : e \in gone})
    BY <1>6 DEF DetachDrop
  <2>3. pend'[r] = pend[r] \cup {W("data", e, "delete") : e \in gone}
    BY <1>0, <2>2, DoAdds
  <2>4. W("data", x, act) \in pend[r] \/ x \in gone
    BY <2>3 DEF W
  <2> QED BY <2>1, <2>2, <2>4 DEF Conflict
<1>7. CASE Erase(r)
  <2>1. op[r].kind # "link"
    BY <1>7 DEF Erase, Lifecycle, Places
  <2>2. ~Conflict(r, {Subject(r)}) /\ Do(r, {W("data", Subject(r), "delete")})
    BY <1>7 DEF Erase
  <2>3. pend'[r] = pend[r] \cup {W("data", Subject(r), "delete")}
    BY <1>0, <2>2, DoAdds
  <2>4. W("data", x, act) \in pend[r] \/ x = Subject(r)
    BY <2>3 DEF W
  <2> QED BY <2>1, <2>2, <2>4 DEF Conflict
<1>8. CASE DetachAudit(r) \/ DetachEvent(r) \/ RecordAudit(r) \/ AddToOutbox(r)
  <2>1. \E to \in {"audit", "outbox"} : \E y, a : Do(r, {W(to, y, a)})
    BY <1>8 DEF DetachAudit, DetachEvent, RecordAudit, AddToOutbox
  <2>2. \E to \in {"audit", "outbox"} : \E y, a : pend'[r] = pend[r] \cup {W(to, y, a)}
    BY <1>0, <2>1, DoAdds
  <2> QED BY <2>2 DEF W
<1> QED BY <1>3, <1>4, <1>5, <1>6, <1>7, <1>8, StepShape DEF Local, Handle

LEMMA ChangedThen ==
  ASSUME NEW r \in Req, Session(r)', NEW x \in Changed(r)'
  PROVE  W("data", x, ActionOf(r)') \in pend'[r]
BY WritesHas DEF Session

LEMMA ChangedGrows ==
  ASSUME Lifecycle, TxnEnabled, NEW r \in Req, Step(r), NEW x \in Changed(r)'
  PROVE  \/ x \in Changed(r)
         \/ op[r].kind = "link" /\ x = r
         \/ /\ op[r].kind # "link" /\ x \in stored
            /\ \A q \in Req \ {r} : W("data", x, "delete") \notin pend[q]
<1>1. Session(r)' /\ Session(r)
  BY StepSessions DEF Sessions, Lifecycle
<1>2. W("data", x, ActionOf(r)') \in pend'[r]
  BY <1>1, ChangedThen
<1>3. W("data", x, ActionOf(r)') \in pend[r] => x \in Changed(r)
  BY <1>1, SessionHas
<1> QED BY <1>2, <1>3, DataWrites

LEMMA ChangedStays ==
  ASSUME Lifecycle, TxnEnabled, NEW r \in Req, Step(r), NEW q \in Req \ {r}
  PROVE  Changed(q)' = Changed(q) /\ op'[q] = op[q]
<1>1. /\ pc'[q] = pc[q] /\ op'[q] = op[q] /\ snap'[q] = snap[q] /\ todo'[q] = todo[q]
  BY StepFrame DEF Frame, Lifecycle
<1>2. CASE pc[q] = "idle"
  BY <1>1, <1>2 DEF Changed
<1>3. CASE pc[q] # "idle"
  BY <1>1, <1>3, LooseStays, SameSession
<1> QED BY <1>1, <1>2, <1>3

(* A link changes its own edge, which nobody has seen.                     *)
LEMMA LinkChanges ==
  ASSUME Lifecycle, NEW q \in Req, op[q].kind = "link", NEW x \in Changed(q)
  PROVE  x = q /\ x \notin stored
<1>1. Changed(q) \subseteq {q} /\ pc[q] # "done"
  BY DEF Changed, Loose, Subject
<1>2. q \notin stored
  BY <1>1, StoredIsBorn DEF Lifecycle, Past
<1> QED BY <1>1, <1>2

LEMMA StepIsolated ==
  ASSUME Lifecycle, TxnEnabled, NEW r \in Req, Step(r)
  PROVE  Isolated'
<1> SUFFICES ASSUME NEW p \in Req, op'[p].kind # "link", NEW x \in Changed(p)'
             PROVE  x \in stored' /\ \A q \in Req \ {p} : x \notin Changed(q)'
  BY DEF Isolated
<1>1. \A s \in Req : op[s].kind # "link" => \A y \in Changed(s) :
        y \in stored /\ W("data", y, "delete") \in pend[s] /\ \A t \in Req \ {s} : y \notin Changed(t)
  BY SessionHas DEF Lifecycle, Isolated, Sessions, ActionOf
<1>2. CASE Commit(r)
  <2>1. Changed(r)' = {} /\ op' = op
    BY <1>2, EndSession DEF Commit, Lifecycle
  <2>2. stored' = (stored \cup Added(r)) \ Removed(r)
    BY <1>2, CommitMoves
  <2>3. p # r /\ x \in Changed(p) /\ op[p].kind # "link"
    BY <2>1, ChangedStays
  <2>4. x \in stored /\ \A q \in Req \ {p} : x \notin Changed(q)
    BY <1>1, <2>3
  <2>5. x \in stored'
    BY <2>2, <2>3, <2>4 DEF Removed
  <2>6. ASSUME NEW q \in Req \ {p} PROVE x \notin Changed(q)'
    BY <2>1, <2>4, ChangedStays
  <2> QED BY <2>5, <2>6
<1>3. CASE ~Commit(r)
  <2>1. stored' = stored
    BY <1>3, StepShape DEF Sent, Send, Local, Store
  <2>2. CASE p # r
    <3>1. x \in Changed(p) /\ op[p].kind # "link"
      BY <2>2, ChangedStays
    <3>2. x \in stored /\ W("data", x, "delete") \in pend[p] /\ \A q \in Req \ {p} : x \notin Changed(q)
      BY <1>1, <3>1
    <3>3. ASSUME x \in Changed(r)' PROVE FALSE
      <4>1. ~(op[r].kind = "link" /\ x = r)
        <5>1. ASSUME x = r PROVE pc[r] = "done"
          BY <3>2, <5>1, StoredIsBorn DEF Lifecycle, Past
        <5>2. pc[r] # "done"
          BY StepShape DEF Sent, Send, Local, Commit
        <5> QED BY <5>1, <5>2
      <4> QED BY <2>2, <3>2, <3>3, <4>1, ChangedGrows
    <3>4. ASSUME NEW q \in Req \ {p} PROVE x \notin Changed(q)'
      BY <3>2, <3>3, ChangedStays
    <3> QED BY <2>1, <3>2, <3>4
  <2>3. CASE p = r
    <3>1. op[r].kind # "link"
      <4>1. CASE pc[r] # "idle"
        BY <2>3, <4>1, OpsStay
      <4>2. CASE pc[r] = "idle"
        BY <4>2 DEF Lifecycle, Places
      <4> QED BY <4>1, <4>2
    <3>2. CASE x \in Changed(r)
      BY <1>1, <2>1, <2>3, <3>1, <3>2, ChangedStays
    <3>3. CASE x \in stored /\ \A t \in Req \ {r} : W("data", x, "delete") \notin pend[t]
      <4>1. ASSUME NEW q \in Req \ {p} PROVE x \notin Changed(q)'
        <5>1. x \notin Changed(q)
          BY <1>1, <2>3, <3>3, LinkChanges
        <5> QED BY <2>3, <5>1, ChangedStays
      <4> QED BY <2>1, <3>3, <4>1
    <3> QED BY <2>3, <3>1, <3>2, <3>3, ChangedGrows
  <2> QED BY <2>2, <2>3
<1> QED BY <1>2, <1>3

LEMMA StepLifecycle ==
  ASSUME Lifecycle, TxnEnabled, NEW r \in Req, Step(r)
  PROVE  Lifecycle'
BY StepType, StepPlaces, StepPast, StepLineage, StepSessions, StepIsolated DEF Lifecycle

------------------------------------------------------------------------------
(***************************************************************************)
(* The checks of a link.                                                   *)
(***************************************************************************)
(* What was known when q was sent can only vanish.                         *)
LEMMA KnownShrinks ==
  ASSUME Lifecycle, TxnEnabled, NEW r \in Req, Step(r), NEW q \in Req, pc[q] # "idle"
  PROVE  /\ op'[q] = op[q] /\ known'[q] = known[q] /\ known'[q] \cap stored' \subseteq known[q] \cap stored
         /\ \A e \in Edges(known[q] \cap stored) : op'[e] = op[e]
<1>1. op'[q] = op[q] /\ known'[q] = known[q]
  BY OpsStay
<1>2. \A x \in known[q] : Born(x)
  BY DEF Lifecycle, Past
<1>3. \A x \in stored' : x \in stored \/ ~Born(x)
  BY StepLineage
<1>4. \A e \in Edges(known[q] \cap stored) : op'[e] = op[e]
  BY <1>2, OpsStay DEF Edges
<1> QED BY <1>1, <1>2, <1>3, <1>4

(* The steps of the checks, and what is known after each of them.          *)
LEMMA CheckMoves ==
  ASSUME TypeOK, NEW r \in Req, Local(r), pc[r] \in Checks, pc'[r] \in Checks
  PROVE  \/ SearchLevel(r) /\ pc[r] = "cycle" /\ pc'[r] = "cycle"
         \/ /\ search'[r] = search[r]
            /\ \/ pc[r] = "source" /\ pc'[r] = "target" /\ op[r].from \in stored
               \/ pc[r] = "target" /\ pc'[r] = "outgoing" /\ op[r].to \in stored
               \/ /\ pc[r] = "outgoing" /\ pc'[r] = "incoming"
                  /\ Def(r).card \in {"one_to_one", "many_to_one"} => Outgoing(r) = {}
               \/ /\ pc[r] = "incoming" /\ pc'[r] = (IF Def(r).dependency THEN "cycle" ELSE "insert")
                  /\ Def(r).card \in {"one_to_one", "one_to_many"} => Incoming(r) = {}
               \/ pc[r] = "cycle" /\ pc'[r] = "insert" /\ Searched(r) /\ ~FoundSource(r)
<1>0. pc \in [Req -> Steps]
  BY DEF TypeOK
<1>1. ASSUME NEW a, End(r, a) PROVE FALSE
  BY <1>0, <1>1 DEF End, Goto, Checks
<1>2. CASE CheckSource(r) \/ CheckTarget(r)
  BY <1>0, <1>1, <1>2 DEF CheckSource, CheckTarget, Refused, Reject, Passed, Goto
<1>3. CASE CheckOutgoing(r)
  <2>1. /\ pc[r] = "outgoing" /\ ~(Def(r).card \in {"one_to_one", "many_to_one"} /\ Outgoing(r) # {})
        /\ Goto(r, "incoming") /\ search' = search
    BY <1>1, <1>3 DEF CheckOutgoing, Refused, Reject, Passed
  <2> QED BY <1>0, <2>1 DEF Goto
<1>4. CASE CheckIncoming(r)
  <2>1. /\ pc[r] = "incoming" /\ ~(Def(r).card \in {"one_to_one", "one_to_many"} /\ Incoming(r) # {})
        /\ Goto(r, IF Def(r).dependency THEN "cycle" ELSE "insert") /\ search' = search
    BY <1>1, <1>4 DEF CheckIncoming, Refused, Reject, Passed
  <2> QED BY <1>0, <2>1 DEF Goto
<1>5. CASE SearchLevel(r)
  BY <1>5 DEF SearchLevel
<1>6. CASE CheckCycle(r)
  BY <1>0, <1>1, <1>6 DEF CheckCycle, Refused, Reject, Passed, Goto
<1>7. CASE InsertEdge(r)
  BY <1>0, <1>1, <1>7 DEF InsertEdge, Refused, Reject, Goto, Checks
<1>8. CASE Find(r) \/ CountEdges(r) \/ DetachRead(r) \/ DetachDrop(r) \/ DetachAudit(r) \/ DetachEvent(r)
           \/ Erase(r) \/ RecordAudit(r) \/ AddToOutbox(r)
  BY <1>8 DEF Find, CountEdges, DetachRead, DetachDrop, DetachAudit, DetachEvent, Erase, RecordAudit,
              AddToOutbox, Checks
<1>9. CASE Commit(r) \/ Fail(r)
  BY <1>1, <1>9 DEF Commit, Fail, Reject
<1> QED BY <1>2, <1>3, <1>4, <1>5, <1>6, <1>7, <1>8, <1>9 DEF Local, Handle

LEMMA InsertedGrows ==
  ASSUME Lifecycle, TxnEnabled, NEW r \in Req, Step(r), NEW q \in Req, Inserted(q)'
  PROVE  /\ pc[q] # "idle" /\ op'[q] = op[q]
         /\ \/ Inserted(q)
            \/ /\ q = r /\ pc[r] = "insert" /\ op[r].kind = "link" /\ ~Duplicate(r) /\ stored' = stored
               /\ \A s \in Req \ {r} : W("data", s, "create") \in pend[s] => ~SameEdge(s, r)
<1>0. op'[q].kind = "link" /\ pc'[q] \in {"audit", "outbox", "commit"} /\ TypeOK
  BY DEF Inserted, Lifecycle
<1>1. CASE q # r
  <2>1. pc'[q] = pc[q]
    BY <1>0, <1>1, StepFrame DEF Frame
  <2> QED BY <1>0, <1>1, <2>1, OpsStay DEF Inserted
<1>2. CASE q = r
  <2>1. Local(r) /\ pc[r] # "idle" /\ op'[r] = op[r] /\ Moved(r)
    <3>1. ~Sent(r) /\ ~Commit(r)
      BY <1>0, <1>2 DEF Sent, Send, Commit, End, Goto, TypeOK
    <3> QED BY <1>0, <3>1, StepShape, LocalMoves DEF Local
  <2>2. pc[r] \in {"insert", "audit", "outbox"}
    <3>1. pc[r] \in {"insert", "audit", "outbox", "erase"}
      BY <1>0, <1>2, <2>1 DEF Moved, Checks
    <3>2. pc[r] # "erase"
      BY <1>0, <1>2, <2>1 DEF Lifecycle, Places
    <3> QED BY <3>1, <3>2
  <2>3. CASE pc[r] = "insert"
    <3>1. InsertEdge(r)
      <4>1. ~Fail(r)
        BY <1>0, <1>2, EndSession DEF Fail, Reject
      <4> QED BY <2>1, <2>3, <4>1 DEF Local, Handle, CheckSource, CheckTarget, CheckOutgoing, CheckIncoming,
           SearchLevel, CheckCycle, Find, CountEdges, DetachRead, DetachDrop, DetachAudit, DetachEvent,
           Erase, RecordAudit, AddToOutbox, Commit
    <3>2. ~Reject(r, "refused")
      BY <1>0, <1>2, EndSession DEF Reject
    <3>3. ~Duplicate(r) /\ \A s \in Req \ {r} : W("data", s, "create") \in pend[s] => ~SameEdge(s, r)
      BY <3>1, <3>2 DEF InsertEdge, Refused
    <3> QED BY <1>0, <1>2, <2>1, <2>3, <3>3 DEF Local, Store
  <2>4. CASE pc[r] \in {"audit", "outbox"}
    BY <1>0, <1>2, <2>1, <2>4 DEF Inserted
  <2> QED BY <2>2, <2>3, <2>4
<1> QED BY <1>1, <1>2

LEMMA StepClaimed ==
  ASSUME Lifecycle, Checked, TxnEnabled, NEW r \in Req, Step(r)
  PROVE  Claimed'
<1> SUFFICES ASSUME NEW q \in Req, Inserted(q)'
             PROVE  /\ \A e \in Edges(stored') : op'[e] # op'[q]
                    /\ \A s \in Req \ {q} : Inserted(s)' => op'[s] # op'[q]
  BY DEF Claimed, SameEdge, Edges
<1>0. /\ pc[q] # "idle" /\ op'[q] = op[q]
      /\ \/ Inserted(q)
         \/ q = r /\ pc[r] = "insert" /\ op[r].kind = "link" /\ ~Duplicate(r) /\ stored' = stored
  BY InsertedGrows
<1>1. \A e \in Edges(stored) : op'[e] = op[e]
  BY StoredIsBorn, OpsStay DEF Edges
<1>2. \A s \in Req : Inserted(s) => /\ \A e \in Edges(stored) : op[e] # op[s]
                                    /\ \A t \in Req \ {s} : Inserted(t) => op[t] # op[s]
  BY DEF Checked, Claimed, SameEdge
<1>3. ASSUME NEW e \in Edges(stored') PROVE op'[e] # op'[q]
  <2>1. e \in Req /\ (e \in stored \/ (e = r /\ op[r].kind = "link" /\ Commit(r)))
    BY <1>3, StepLineage DEF Edges
  <2>2. CASE e \in stored
    <3>1. CASE Inserted(q)
      BY <1>0, <1>1, <1>2, <2>1, <2>2, <3>1 DEF Edges
    <3>2. CASE ~Inserted(q)
      BY <1>0, <1>1, <2>1, <2>2, <3>2 DEF Edges, Duplicate, SameEdge
    <3> QED BY <3>1, <3>2
  <2>3. CASE e = r /\ op[r].kind = "link" /\ Commit(r)
    <3>1. Inserted(r) /\ pc'[r] = "done" /\ op' = op
      BY <2>3, EndSession DEF Commit, Inserted, Lifecycle
    <3>2. q # r
      BY <3>1 DEF Inserted
    <3>3. Inserted(q)
      BY <1>0, <3>2
    <3> QED BY <1>2, <2>3, <3>1, <3>2, <3>3
  <2> QED BY <2>1, <2>2, <2>3
<1>4. ASSUME NEW s \in Req \ {q}, Inserted(s)' PROVE op'[s] # op'[q]
  <2>1. /\ op'[s] = op[s]
        /\ Inserted(s) \/ (s = r /\ \A t \in Req \ {r} : W("data", t, "create") \in pend[t] => ~SameEdge(t, r))
    BY <1>4, InsertedGrows
  <2>2. Inserted(q) \/ (q = r /\ \A t \in Req \ {r} : W("data", t, "create") \in pend[t] => ~SameEdge(t, r))
    BY InsertedGrows
  <2>3. \A t \in Req : Inserted(t) => W("data", t, "create") \in pend[t]
    <3> SUFFICES ASSUME NEW t \in Req, Inserted(t) PROVE W("data", t, "create") \in pend[t]
      OBVIOUS
    <3>1. t \in Changed(t) /\ ActionOf(t) = "create" /\ Session(t)
      BY DEF Inserted, Changed, Subject, ActionOf, Lifecycle, Sessions
    <3> QED BY <3>1, SessionHas
  <2>4. CASE Inserted(s) /\ Inserted(q)
    BY <1>0, <1>2, <2>1, <2>4
  <2>5. CASE ~Inserted(s)
    BY <1>0, <2>1, <2>2, <2>3, <2>5 DEF SameEdge
  <2>6. CASE ~Inserted(q)
    BY <1>0, <1>4, <2>1, <2>2, <2>3, <2>6 DEF SameEdge
  <2> QED BY <2>4, <2>5, <2>6
<1> QED BY <1>3, <1>4

LEMMA StepUniqueEdges ==
  ASSUME Lifecycle, Checked, TxnEnabled, NEW r \in Req, Step(r)
  PROVE  UniqueEdges'
<1> SUFFICES ASSUME NEW d \in Edges(stored'), NEW e \in Edges(stored'), op'[d] = op'[e]
             PROVE  d = e
  BY DEF UniqueEdges, SameEdge, Edges
<1>1. \A x \in Edges(stored') : \/ x \in Edges(stored) /\ op'[x] = op[x]
                                \/ x = r /\ op[r].kind = "link" /\ Commit(r)
  BY StepLineage, StoredIsBorn, OpsStay DEF Edges
<1>2. CASE op[r].kind = "link" /\ Commit(r)
  <2>1. Inserted(r) /\ op' = op
    BY <1>2 DEF Commit, Inserted
  <2>2. \A x \in Edges(stored) : op[x] # op[r]
    BY <2>1 DEF Checked, Claimed, SameEdge
  <2> QED BY <1>1, <2>1, <2>2 DEF Checked, UniqueEdges, SameEdge
<1>3. CASE ~(op[r].kind = "link" /\ Commit(r))
  BY <1>1, <1>3 DEF Checked, UniqueEdges, SameEdge
<1> QED BY <1>2, <1>3

(* A request that is beyond some checks was so before, or passes the last  *)
(* of them in this step.                                                   *)
LEMMA BeyondGrows ==
  ASSUME Lifecycle, TxnEnabled, NEW r \in Req, Step(r), NEW q \in Req,
         NEW S \in SUBSET (Checks \ {"source"}), "insert" \in S, Beyond(q, S)'
  PROVE  /\ pc[q] # "idle"
         /\ \/ Beyond(q, S)
            \/ /\ q = r /\ op[r].kind = "link" /\ Local(r) /\ stored' = stored
               /\ pc[r] \in Checks \ S /\ pc'[r] \in S
<1>0. TypeOK
  BY DEF Lifecycle
<1>1. CASE q # r
  <2>1. pc'[q] = pc[q] /\ op'[q] = op[q] /\ (Born(q)' => Born(q))
    BY <1>0, <1>1, StepFrame, StepLineage DEF Frame, Thing
  <2>2. Beyond(q, S)
    BY <2>1 DEF Beyond, Inserted
  <2> QED BY <2>2 DEF Beyond, Inserted, Lifecycle, Places, Past, Checks
<1>2. CASE q = r
  <2>1. CASE Inserted(r)'
    <3>1. pc[r] # "idle" /\ (Inserted(r) \/ (pc[r] = "insert" /\ op[r].kind = "link"))
      BY <2>1, InsertedGrows
    <3> QED BY <1>2, <3>1 DEF Beyond
  <2>2. CASE Born(r)'
    <3>1. Born(r) \/ (op[r].kind = "link" /\ Commit(r))
      BY <2>2, StepLineage DEF Thing
    <3>2. Commit(r) => pc[r] = "commit"
      BY DEF Commit
    <3> QED BY <1>2, <3>1, <3>2 DEF Beyond, Inserted, Lifecycle, Past
  <2>3. CASE op'[r].kind = "link" /\ pc'[r] \in S
    <3>1. ~Sent(r) /\ ~Commit(r)
      BY <1>0, <2>3 DEF Sent, Send, Commit, End, Goto, TypeOK, Checks
    <3>2. Local(r) /\ Moved(r) /\ op'[r] = op[r] /\ pc[r] # "idle" /\ stored' = stored
      BY <1>0, <3>1, StepShape, LocalMoves DEF Local, Store
    <3>3. pc[r] \in Checks
      BY <2>3, <3>2 DEF Moved, Checks
    <3> QED BY <1>2, <2>3, <3>2, <3>3 DEF Beyond
  <2> QED BY <1>2, <2>1, <2>2, <2>3 DEF Beyond
<1> QED BY <1>1, <1>2

LEMMA StepEndsKnown ==
  ASSUME Lifecycle, Checked, TxnEnabled, NEW r \in Req, Step(r)
  PROVE  EndsKnown'
<1> DEFINE ToTarget == {"target", "outgoing", "incoming", "cycle", "insert"}
           ToOutgoing == {"outgoing", "incoming", "cycle", "insert"}
<1> SUFFICES ASSUME NEW q \in Req
             PROVE  /\ pc'[q] # "idle" => stored' \cap Ci \subseteq known'[q]
                    /\ Beyond(q, ToTarget)' => op'[q].from \in known'[q]
                    /\ Beyond(q, ToOutgoing)' => op'[q].to \in known'[q]
  BY DEF EndsKnown
<1>0. /\ TypeOK /\ EndsKnown /\ Req \cap Ci = {}
      /\ ToTarget \in SUBSET (Checks \ {"source"}) /\ ToOutgoing \in SUBSET (Checks \ {"source"})
  BY GraphAssumption DEF Lifecycle, Checked, Checks
<1>1. stored' \cap Ci \subseteq stored
  BY <1>0, StepLineage
<1>2. pc'[q] # "idle" => stored' \cap Ci \subseteq known'[q]
  <2>1. CASE pc[q] # "idle"
    BY <1>0, <1>1, <2>1, KnownShrinks DEF EndsKnown
  <2>2. CASE pc[q] = "idle" /\ q = r
    BY <1>0, <1>1, <2>2, StepShape DEF Sent, Send, Local, Commit, TypeOK
  <2>3. CASE pc[q] = "idle" /\ q # r
    BY <1>0, <2>3, StepFrame DEF Frame
  <2> QED BY <2>1, <2>2, <2>3
<1>3. ASSUME Beyond(q, ToTarget)' PROVE op'[q].from \in known'[q]
  <2>1. /\ pc[q] # "idle"
        /\ Beyond(q, ToTarget) \/ (q = r /\ op[r].kind = "link" /\ Local(r) /\ pc[r] \in Checks \ ToTarget
                                     /\ pc'[r] \in ToTarget)
    BY <1>0, <1>3, BeyondGrows
  <2>2. op'[q] = op[q] /\ known'[q] = known[q]
    BY <2>1, KnownShrinks
  <2>3. CASE Beyond(q, ToTarget)
    BY <1>0, <2>2, <2>3 DEF EndsKnown
  <2>4. CASE q = r /\ op[r].kind = "link" /\ Local(r) /\ pc[r] \in Checks \ ToTarget /\ pc'[r] \in ToTarget
    <3>1. op[r].from \in stored
      BY <1>0, <2>4, CheckMoves DEF Checks
    <3>2. op[r].from \in Ci
      BY <1>0, <2>4, OpTypes
    <3> QED BY <1>0, <2>1, <2>2, <2>4, <3>1, <3>2 DEF EndsKnown
  <2> QED BY <2>1, <2>3, <2>4
<1>4. ASSUME Beyond(q, ToOutgoing)' PROVE op'[q].to \in known'[q]
  <2>1. /\ pc[q] # "idle"
        /\ Beyond(q, ToOutgoing) \/ (q = r /\ op[r].kind = "link" /\ Local(r) /\ pc[r] \in Checks \ ToOutgoing
                                       /\ pc'[r] \in ToOutgoing)
    BY <1>0, <1>4, BeyondGrows
  <2>2. op'[q] = op[q] /\ known'[q] = known[q]
    BY <2>1, KnownShrinks
  <2>3. CASE Beyond(q, ToOutgoing)
    BY <1>0, <2>2, <2>3 DEF EndsKnown
  <2>4. CASE q = r /\ op[r].kind = "link" /\ Local(r) /\ pc[r] \in Checks \ ToOutgoing /\ pc'[r] \in ToOutgoing
    <3>1. op[r].to \in stored
      BY <1>0, <2>4, CheckMoves DEF Checks
    <3>2. op[r].to \in Ci
      BY <1>0, <2>4, OpTypes
    <3> QED BY <1>0, <2>1, <2>2, <2>4, <3>1, <3>2 DEF EndsKnown
  <2> QED BY <2>1, <2>3, <2>4
<1> QED BY <1>2, <1>3, <1>4

LEMMA RivalsShrink ==
  ASSUME Lifecycle, TxnEnabled, NEW r \in Req, Step(r), NEW q \in Req, pc[q] # "idle", NEW d \in Rivals(q)'
  PROVE  d \in Rivals(q) /\ op'[d] = op[d]
<1>1. d \in Edges(known'[q] \cap stored') /\ d # q /\ op'[d].rel = op'[q].rel
  BY DEF Rivals, Edges
<1>2. d \in Edges(known[q] \cap stored) /\ op'[q] = op[q] /\ op'[d] = op[d]
  BY <1>1, KnownShrinks DEF Edges
<1> QED BY <1>1, <1>2 DEF Rivals

LEMMA StepUncrowded ==
  ASSUME Lifecycle, Checked, TxnEnabled, NEW r \in Req, Step(r)
  PROVE  Uncrowded'
<1> DEFINE ToIncoming == {"incoming", "cycle", "insert"}
           ToCycle == {"cycle", "insert"}
<1> SUFFICES ASSUME NEW q \in Req
             PROVE  /\ Beyond(q, ToIncoming)' /\ RelDef[op'[q].rel].card \in {"one_to_one", "many_to_one"} =>
                         \A d \in Rivals(q)' : op'[d].from # op'[q].from
                    /\ Beyond(q, ToCycle)' /\ RelDef[op'[q].rel].card \in {"one_to_one", "one_to_many"} =>
                         \A d \in Rivals(q)' : op'[d].to # op'[q].to
  BY DEF Uncrowded, Def
<1>0. /\ TypeOK /\ Uncrowded
      /\ ToIncoming \in SUBSET (Checks \ {"source"}) /\ ToCycle \in SUBSET (Checks \ {"source"})
  BY DEF Lifecycle, Checked, Checks
<1>1. ASSUME Beyond(q, ToIncoming)', RelDef[op'[q].rel].card \in {"one_to_one", "many_to_one"},
             NEW d \in Rivals(q)'
      PROVE  op'[d].from # op'[q].from
  <2>1. /\ pc[q] # "idle"
        /\ Beyond(q, ToIncoming) \/ (q = r /\ op[r].kind = "link" /\ Local(r) /\ pc[r] \in Checks \ ToIncoming
                                       /\ pc'[r] \in ToIncoming)
    BY <1>0, <1>1, BeyondGrows
  <2>2. op'[q] = op[q] /\ op'[d] = op[d] /\ d \in Rivals(q) /\ Def(q).card \in {"one_to_one", "many_to_one"}
    BY <1>1, <2>1, KnownShrinks, RivalsShrink DEF Def
  <2>3. CASE Beyond(q, ToIncoming)
    BY <1>0, <2>2, <2>3 DEF Uncrowded
  <2>4. CASE q = r /\ op[r].kind = "link" /\ Local(r) /\ pc[r] \in Checks \ ToIncoming /\ pc'[r] \in ToIncoming
    <3>1. Outgoing(r) = {}
      BY <1>0, <2>2, <2>4, CheckMoves DEF Checks
    <3> QED BY <2>2, <2>4, <3>1 DEF Outgoing, Rivals, Edges
  <2> QED BY <2>1, <2>3, <2>4
<1>2. ASSUME Beyond(q, ToCycle)', RelDef[op'[q].rel].card \in {"one_to_one", "one_to_many"},
             NEW d \in Rivals(q)'
      PROVE  op'[d].to # op'[q].to
  <2>1. /\ pc[q] # "idle"
        /\ Beyond(q, ToCycle) \/ (q = r /\ op[r].kind = "link" /\ Local(r) /\ pc[r] \in Checks \ ToCycle
                                    /\ pc'[r] \in ToCycle)
    BY <1>0, <1>2, BeyondGrows
  <2>2. op'[q] = op[q] /\ op'[d] = op[d] /\ d \in Rivals(q) /\ Def(q).card \in {"one_to_one", "one_to_many"}
    BY <1>2, <2>1, KnownShrinks, RivalsShrink DEF Def
  <2>3. CASE Beyond(q, ToCycle)
    BY <1>0, <2>2, <2>3 DEF Uncrowded
  <2>4. CASE q = r /\ op[r].kind = "link" /\ Local(r) /\ pc[r] \in Checks \ ToCycle /\ pc'[r] \in ToCycle
    <3>1. Incoming(r) = {}
      BY <1>0, <2>2, <2>4, CheckMoves DEF Checks
    <3> QED BY <2>2, <2>4, <3>1 DEF Incoming, Rivals, Edges
  <2> QED BY <2>1, <2>3, <2>4
<1> QED BY <1>1, <1>2

------------------------------------------------------------------------------
(***************************************************************************)
(* The cycle check.                                                        *)
(***************************************************************************)
LEMMA GraphShrinks ==
  ASSUME Lifecycle, TxnEnabled, NEW r \in Req, Step(r), NEW q \in Req, pc[q] # "idle"
  PROVE  /\ Graph(q)' \subseteq Graph(q) /\ op'[q] = op[q]
         /\ \A k \in Nat : \A p \in [0..k -> Ci] : Leads(q, p, k)' => Leads(q, p, k)
<1>1. /\ op'[q] = op[q] /\ known'[q] \cap stored' \subseteq known[q] \cap stored
      /\ \A e \in Edges(known[q] \cap stored) : op'[e] = op[e]
  BY KnownShrinks
<1>2. Graph(q)' \subseteq Graph(q)
  <2> SUFFICES ASSUME NEW x \in Graph(q)' PROVE x \in Graph(q)
    OBVIOUS
  <2>1. PICK e \in Edges(known'[q] \cap stored') : RelDef[op'[e].rel].dependency /\ x = <<op'[e].from, op'[e].to>>
    BY DEF Graph, Dependencies, Edges
  <2>2. e \in Edges(known[q] \cap stored) /\ op'[e] = op[e]
    BY <1>1, <2>1 DEF Edges
  <2> QED BY <2>1, <2>2 DEF Graph, Dependencies
<1>3. ASSUME NEW k \in Nat, NEW p \in [0..k -> Ci], Leads(q, p, k)' PROVE Leads(q, p, k)
  BY <1>1, <1>2, <1>3 DEF Leads, Path
<1> QED BY <1>1, <1>2, <1>3

(* What leads to the last node of a path leads to the one before it.       *)
LEMMA LeadsBack ==
  ASSUME NEW r \in Req, NEW k \in Nat, NEW p \in [0..(k + 1) -> Ci], Leads(r, p, k + 1)
  PROVE  \E s \in [0..k -> Ci] : Leads(r, s, k) /\ s[k] = p[k] /\ <<s[k], p[k + 1]>> \in Graph(r)
<1> DEFINE s == [i \in 0..k |-> p[i]]
<1>1. s \in [0..k -> Ci] /\ s[0] = p[0] /\ s[k] = p[k]
  OBVIOUS
<1>2. \A i \in 1..k : s[i - 1] = p[i - 1] /\ s[i] = p[i] /\ i \in 1..(k + 1)
  OBVIOUS
<1>3. Leads(r, s, k)
  BY <1>1, <1>2 DEF Leads, Path
<1>4. <<p[k], p[k + 1]>> \in Graph(r)
  <2>1. k + 1 \in 1..(k + 1) /\ (k + 1) - 1 = k
    OBVIOUS
  <2> QED BY <2>1 DEF Leads, Path
<1> QED BY <1>1, <1>3, <1>4

(* One level of the search.                                                *)
LEMMA LevelSearches ==
  ASSUME Lifecycle, Searching, NEW r \in Req, SearchLevel(r)
  PROVE  /\ search'[r].frontier \subseteq search'[r].visited
         /\ \A k \in 0..search'[r].level : \A p \in [0..k -> Ci] : Leads(r, p, k) => p[k] \in search'[r].visited
         /\ \A e \in Graph(r) : e[1] \in search'[r].visited \ search'[r].frontier => e[2] \in search'[r].visited
<1> DEFINE l == search[r].level
           visited == IF l = 0 THEN {op[r].to} ELSE search[r].visited
           frontier == IF l = 0 THEN {op[r].to} ELSE search[r].frontier
<1>1. /\ search'[r].level = l + 1 /\ search'[r].visited = visited \cup search'[r].frontier
      /\ \A m : m \in search'[r].frontier <=>
           m \notin visited /\ \E e \in Dependencies(stored) : e[1] \in frontier /\ e[2] = m
  <2>1. Expanded(r)
    BY LevelExpands
  <2> DEFINE was == [visited |-> visited, frontier |-> frontier]
  <2>2. was.visited = visited /\ was.frontier = frontier
    OBVIOUS
  <2>3. /\ search'[r].level = l + 1 /\ search'[r].visited = was.visited \cup search'[r].frontier
        /\ \A m : m \in search'[r].frontier <=>
             m \notin was.visited /\ \E e \in Dependencies(stored) : e[1] \in was.frontier /\ e[2] = m
    BY <2>1, Zenon DEF Expanded
  <2> HIDE DEF was, visited, frontier
  <2> QED BY <2>2, <2>3
<1>2. Graph(r) \subseteq Dependencies(stored)
  BY DEF Graph, Dependencies, Edges
<1>3. l \in Nat /\ pc[r] = "cycle"
  BY DEF Lifecycle, TypeOK, SearchLevel
<1>4. \A k \in 0..l : \A p \in [0..k -> Ci] : Leads(r, p, k) => p[k] \in visited
  <2>1. CASE l = 0
    BY <2>1 DEF Leads
  <2>2. CASE l # 0
    BY <1>3, <2>2 DEF Searching
  <2> QED BY <2>1, <2>2
<1>5. \A e \in Graph(r) : e[1] \in visited \ frontier => e[2] \in visited
  <2>1. CASE l = 0
    BY <2>1
  <2>2. CASE l # 0
    BY <1>3, <2>2 DEF Searching
  <2> QED BY <2>1, <2>2
<1> HIDE DEF visited, frontier
<1>6. \A e \in Graph(r) : e[1] \in visited => e[2] \in search'[r].visited
  <2> SUFFICES ASSUME NEW e \in Graph(r), e[1] \in visited PROVE e[2] \in search'[r].visited
    OBVIOUS
  <2>1. CASE e[1] \in frontier
    BY <1>1, <1>2, <2>1
  <2>2. CASE e[1] \notin frontier
    BY <1>1, <1>5, <2>2
  <2> QED BY <2>1, <2>2
<1>7. ASSUME NEW k \in 0..(l + 1), NEW p \in [0..k -> Ci], Leads(r, p, k) PROVE p[k] \in search'[r].visited
  <2>1. CASE k \in 0..l
    BY <1>1, <1>4, <1>7, <2>1
  <2>2. CASE k = l + 1
    <3>1. p \in [0..(l + 1) -> Ci] /\ Leads(r, p, l + 1)
      BY <1>7, <2>2
    <3>2. \E s \in [0..l -> Ci] : Leads(r, s, l) /\ s[l] = p[l] /\ <<s[l], p[l + 1]>> \in Graph(r)
      BY <1>3, <3>1, LeadsBack
    <3>3. PICK s \in [0..l -> Ci] : Leads(r, s, l) /\ <<s[l], p[k]>> \in Graph(r)
      BY <2>2, <3>2
    <3>4. l \in 0..l
      BY <1>3
    <3>5. \A t \in [0..l -> Ci] : Leads(r, t, l) => t[l] \in visited
      BY <1>4, <3>4
    <3>6. s[l] \in visited
      BY <3>3, <3>5
    <3> QED BY <1>6, <3>3, <3>6
  <2> QED BY <1>3, <2>1, <2>2
<1>8. ASSUME NEW e \in Graph(r), e[1] \in search'[r].visited \ search'[r].frontier
      PROVE  e[2] \in search'[r].visited
  BY <1>1, <1>6, <1>8
<1> QED BY <1>1, <1>7, <1>8

LEMMA StepSearching ==
  ASSUME Lifecycle, Checked, TxnEnabled, NEW r \in Req, Step(r)
  PROVE  Searching'
<1> DEFINE Early == {"idle", "source", "target", "outgoing", "incoming"}
<1> SUFFICES ASSUME NEW q \in Req
             PROVE  /\ pc'[q] = "cycle" /\ search'[q].level > 0 =>
                         /\ search'[q].frontier \subseteq search'[q].visited
                         /\ \A k \in 0..search'[q].level : \A p \in [0..k -> Ci] :
                              Leads(q, p, k)' => p[k] \in search'[q].visited
                         /\ \A e \in Graph(q)' : e[1] \in search'[q].visited \ search'[q].frontier =>
                              e[2] \in search'[q].visited
                    /\ pc'[q] \in Early => search'[q].level = 0
  BY DEF Searching
<1>0. TypeOK /\ Searching
  BY DEF Lifecycle, Checked
<1>1. ASSUME search'[q] = search[q], pc[q] = "cycle", pc'[q] = "cycle"
      PROVE  /\ search'[q].level > 0 =>
                  /\ search'[q].frontier \subseteq search'[q].visited
                  /\ \A k \in 0..search'[q].level : \A p \in [0..k -> Ci] :
                       Leads(q, p, k)' => p[k] \in search'[q].visited
                  /\ \A e \in Graph(q)' : e[1] \in search'[q].visited \ search'[q].frontier =>
                       e[2] \in search'[q].visited
  <2>1. /\ Graph(q)' \subseteq Graph(q)
        /\ \A k \in Nat : \A p \in [0..k -> Ci] : Leads(q, p, k)' => Leads(q, p, k)
    BY <1>1, GraphShrinks
  <2>2. \A k \in 0..search[q].level : k \in Nat
    BY <1>0 DEF TypeOK
  <2> QED BY <1>0, <1>1, <2>1, <2>2 DEF Searching
<1>2. CASE q # r
  <2>1. pc'[q] = pc[q] /\ search'[q] = search[q]
    BY <1>0, <1>2, StepFrame DEF Frame
  <2>2. pc'[q] \in Early => search'[q].level = 0
    BY <1>0, <2>1 DEF Searching
  <2> QED BY <1>1, <2>1, <2>2
<1>3. CASE q = r /\ Sent(r)
  <2>1. pc[r] = "idle" /\ pc'[r] \in {"source", "find"} /\ search'[r] = search[r]
    BY <1>0, <1>3 DEF Sent, Send, Goto, TypeOK
  <2> QED BY <1>0, <1>3, <2>1 DEF Searching
<1>4. CASE q = r /\ Commit(r)
  BY <1>0, <1>4, EndSession DEF Commit
<1>5. CASE q = r /\ Local(r) /\ pc'[r] \in Checks
  <2>1. pc[r] \in Checks
    BY <1>0, <1>5, LocalMoves DEF Moved, Checks
  <2>2. CASE SearchLevel(r) /\ pc[r] = "cycle" /\ pc'[r] = "cycle"
    <3>1. /\ search'[r].frontier \subseteq search'[r].visited
          /\ \A k \in 0..search'[r].level : \A p \in [0..k -> Ci] : Leads(r, p, k) => p[k] \in search'[r].visited
          /\ \A e \in Graph(r) : e[1] \in search'[r].visited \ search'[r].frontier => e[2] \in search'[r].visited
      BY <1>0, <2>2, LevelSearches
    <3>2. /\ Graph(r)' \subseteq Graph(r)
          /\ \A k \in Nat : \A p \in [0..k -> Ci] : Leads(r, p, k)' => Leads(r, p, k)
      BY <2>2, GraphShrinks
    <3>3. \A k \in 0..search'[r].level : k \in Nat
      BY <2>2, LevelExpands, <1>0 DEF Expanded, TypeOK
    <3> QED BY <1>5, <2>2, <3>1, <3>2, <3>3
  <2>3. CASE search'[r] = search[r] /\ pc[r] # "cycle" /\ pc[r] # "insert"
    BY <1>0, <1>5, <2>1, <2>3 DEF Searching, Checks
  <2>4. CASE pc[r] = "cycle" /\ pc'[r] = "insert"
    BY <1>5, <2>4
  <2> QED BY <1>0, <1>5, <2>1, <2>2, <2>3, <2>4, CheckMoves
<1>6. CASE q = r /\ Local(r) /\ pc'[r] \notin Checks
  <2>1. pc'[r] \notin Early
    BY <1>0, <1>6, LocalMoves DEF Moved, Checks
  <2> QED BY <1>6, <2>1 DEF Checks
<1> QED BY <1>2, <1>3, <1>4, <1>5, <1>6, StepShape

(* Every set of numbers has a least one.                                   *)
Less == {p \in Nat \X Nat : p[1] < p[2]}

LEMMA LeastNat ==
  ASSUME NEW T \in SUBSET Nat, T # {}
  PROVE  \E n \in T : \A m \in T : n <= m
<1>1. IsWellFoundedOn(Less, Nat)
  BY NatLessThanWellFounded DEF OpToRel, Less
<1>2. PICK n \in T : \A m \in T : ~(<<m, n>> \in Less)
  BY <1>1, WFMin
<1>3. \A m \in T : ~(m < n)
  BY <1>2 DEF Less
<1> QED BY <1>3

(* A search with nothing left has visited all that its target leads to.    *)
LEMMA AllVisited ==
  ASSUME Lifecycle, Searching, NEW r \in Req, pc[r] = "cycle", search[r].level > 0, search[r].frontier = {},
         NEW k \in Nat, NEW p \in [0..k -> Ci], Leads(r, p, k)
  PROVE  p[k] \in search[r].visited
<1>1. \A e \in Graph(r) : e[1] \in search[r].visited => e[2] \in search[r].visited
  BY DEF Searching
<1>2. p[0] \in search[r].visited
  <2> DEFINE s == [i \in 0..0 |-> p[0]]
  <2>1. s \in [0..0 -> Ci] /\ s[0] = p[0] /\ Leads(r, s, 0)
    BY DEF Leads, Path
  <2>2. 0 \in 0..search[r].level
    BY DEF Lifecycle, TypeOK
  <2> HIDE DEF s
  <2>3. s[0] \in search[r].visited
    BY <2>1, <2>2 DEF Searching
  <2> QED BY <2>1, <2>3
<1> DEFINE T == {i \in 0..k : p[i] \notin search[r].visited}
<1>3. SUFFICES ASSUME p[k] \notin search[r].visited PROVE FALSE
  OBVIOUS
<1>4. T # {} /\ T \in SUBSET Nat
  BY <1>3
<1>5. PICK n \in T : \A m \in T : n <= m
  BY <1>4, LeastNat
<1>6. n \in 0..k /\ p[n] \notin search[r].visited /\ n # 0
  BY <1>2, <1>5
<1>7. n - 1 \in 0..k /\ n - 1 \notin T /\ n \in 1..k
  BY <1>5, <1>6
<1>8. p[n - 1] \in search[r].visited /\ <<p[n - 1], p[n]>> \in Graph(r)
  BY <1>7 DEF Leads, Path
<1> QED BY <1>1, <1>6, <1>8

LEMMA StepAcyclic ==
  ASSUME Lifecycle, Checked, TxnEnabled, NEW r \in Req, Step(r)
  PROVE  Acyclic'
<1> SUFFICES ASSUME NEW q \in Req, Beyond(q, {"insert"})', RelDef[op'[q].rel].dependency,
                    op'[q].from # op'[q].to, NEW k \in 1..MaxDepth, NEW p \in [0..k -> Ci], Leads(q, p, k)'
             PROVE  p[k] # op'[q].from
  BY DEF Acyclic, Def
<1>0. /\ TypeOK /\ Searching /\ Acyclic /\ {"insert"} \in SUBSET (Checks \ {"source"})
      /\ MaxDepth \in Nat \ {0} /\ k \in Nat
  BY GraphAssumption DEF Lifecycle, Checked, Checks
<1>1. /\ pc[q] # "idle"
      /\ Beyond(q, {"insert"}) \/ (q = r /\ op[r].kind = "link" /\ Local(r) /\ pc[r] \in Checks \ {"insert"}
                                     /\ pc'[r] \in {"insert"})
  BY <1>0, BeyondGrows
<1>2. op'[q] = op[q] /\ Leads(q, p, k)
  BY <1>0, <1>1, GraphShrinks
<1>3. CASE Beyond(q, {"insert"})
  BY <1>0, <1>2, <1>3 DEF Acyclic, Def
<1>4. CASE q = r /\ op[r].kind = "link" /\ Local(r) /\ pc[r] \in Checks \ {"insert"} /\ pc'[r] = "insert"
  <2>1. pc[r] = "cycle" /\ Searched(r) /\ ~FoundSource(r)
    BY <1>0, <1>2, <1>4, CheckMoves DEF Checks, Def
  <2>2. op[r].from \notin search[r].visited
    BY <1>2, <1>4, <2>1 DEF FoundSource
  <2>3. p[k] \in search[r].visited
    <3>1. CASE search[r].frontier = {}
      BY <1>0, <1>2, <1>4, <2>1, <3>1, AllVisited DEF Searched
    <3>2. CASE search[r].level = MaxDepth
      <4>1. k \in 0..search[r].level /\ search[r].level > 0
        BY <1>0, <3>2
      <4> QED BY <1>0, <1>2, <1>4, <2>1, <4>1 DEF Searching
    <3> QED BY <2>1, <3>1, <3>2 DEF Searched
  <2> QED BY <1>2, <1>4, <2>2, <2>3
<1> QED BY <1>1, <1>3, <1>4

------------------------------------------------------------------------------
(***************************************************************************)
(* The deletion of a CI.                                                   *)
(***************************************************************************)
LEMMA StepSwept ==
  ASSUME Lifecycle, Checked, TxnEnabled, NEW r \in Req, Step(r)
  PROVE  Swept'
<1> SUFFICES ASSUME NEW q \in Req, op'[q].kind = "remove"
             PROVE  /\ pc'[q] \in Deleting => Edges(known'[q] \cap stored') \subseteq snap'[q]
                    /\ resp'[q] = "ok" => \A e \in Edges(known'[q] \cap stored') :
                         op'[q].ci \notin {op'[e].from, op'[e].to}
  BY DEF Swept, Edges, Touches
<1>0. TypeOK /\ Swept
  BY DEF Lifecycle, Checked
<1>1. ASSUME pc[q] # "idle"
      PROVE  /\ op'[q] = op[q] /\ Edges(known'[q] \cap stored') \subseteq Edges(known[q] \cap stored)
             /\ \A e \in Edges(known[q] \cap stored) : op'[e] = op[e]
  BY <1>1, KnownShrinks DEF Edges
<1>2. ASSUME pc[q] # "idle", resp'[q] = resp[q], resp'[q] = "ok", NEW e \in Edges(known'[q] \cap stored')
      PROVE  op'[q].ci \notin {op'[e].from, op'[e].to}
  BY <1>0, <1>1, <1>2 DEF Swept, Touches
<1>3. CASE pc[q] = "idle"
  <2>1. CASE q # r
    <3>1. pc'[q] = "idle" /\ resp'[q] = resp[q] /\ resp[q] # "ok"
      BY <1>0, <1>3, <2>1, StepFrame DEF Frame, Lifecycle, Places
    <3> QED BY <3>1 DEF Deleting
  <2>2. CASE q = r
    <3>1. pc'[r] \in {"source", "find"} /\ resp'[r] = resp[r] /\ resp[r] # "ok"
      BY <1>0, <1>3, <2>2, StepShape DEF Sent, Send, Goto, TypeOK, Local, Commit, Lifecycle, Places
    <3> QED BY <2>2, <3>1 DEF Deleting
  <2> QED BY <2>1, <2>2
<1>4. CASE pc[q] # "idle" /\ q # r
  <2>1. pc'[q] = pc[q] /\ resp'[q] = resp[q] /\ snap'[q] = snap[q]
    BY <1>0, <1>4, StepFrame DEF Frame
  <2> QED BY <1>0, <1>1, <1>2, <1>4, <2>1 DEF Swept
<1>5. CASE pc[q] # "idle" /\ q = r
  <2>1. op[r].kind = "remove" /\ resp[r] # "ok" /\ pc[r] # "done"
    <3>1. pc[r] # "done"
      BY <1>5, StepShape DEF Sent, Send, Local, Commit
    <3> QED BY <1>1, <1>5, <3>1 DEF Lifecycle, Places
  <2>2. CASE Commit(r)
    <3>1. pc[r] = "commit" /\ pc'[r] = "done" /\ op' = op
      BY <1>0, <2>2, EndSession DEF Commit
    <3>2. stored' = stored \ Changed(r) /\ EdgesOf(op[r].ci, snap[r]) \subseteq Changed(r)
      <4>1. Added(r) = {} /\ Removed(r) = Changed(r)
        BY <2>1 DEF Added, Removed
      <4>2. EdgesOf(op[r].ci, snap[r]) \subseteq Changed(r)
        BY <2>1, <3>1 DEF Changed, Loose
      <4> QED BY <2>2, <4>1, <4>2, CommitMoves
    <3>3. ASSUME NEW e \in Edges(known'[r] \cap stored') PROVE op[r].ci \notin {op[e].from, op[e].to}
      <4>1. e \in Edges(known[r] \cap stored) /\ e \notin Changed(r)
        BY <1>1, <1>5, <3>2, <3>3 DEF Edges
      <4>2. e \in Edges(snap[r])
        BY <1>0, <2>1, <3>1, <4>1 DEF Swept, Deleting, Edges
      <4> QED BY <3>2, <4>1, <4>2 DEF EdgesOf, Touches
    <3> QED BY <1>5, <3>1, <3>3 DEF Deleting
  <2>3. CASE Local(r)
    <3>1. Moved(r) /\ stored' = stored /\ known' = known /\ op' = op
      BY <1>0, <2>3, LocalMoves DEF Local, Store
    <3>2. resp'[r] # "ok"
      <4>1. ASSUME NEW a, End(r, a) PROVE resp'[r] = a
        BY <1>0, <4>1 DEF End, TypeOK
      <4>2. resp'[r] = resp[r] \/ \E a \in {"refused", "error"} : End(r, a)
        <5>1. CASE CheckSource(r) \/ CheckTarget(r) \/ CheckOutgoing(r) \/ CheckIncoming(r) \/ CheckCycle(r)
                   \/ SearchLevel(r) \/ InsertEdge(r) \/ Find(r) \/ CountEdges(r)
          BY <5>1 DEF CheckSource, CheckTarget, CheckOutgoing, CheckIncoming, CheckCycle, SearchLevel,
               InsertEdge, Find, CountEdges, Refused, Passed, Reject
        <5>2. CASE DetachRead(r) \/ DetachDrop(r) \/ DetachAudit(r) \/ DetachEvent(r) \/ Erase(r)
                   \/ RecordAudit(r) \/ AddToOutbox(r) \/ Fail(r)
          BY <5>2 DEF DetachRead, DetachDrop, DetachAudit, DetachEvent, Erase, RecordAudit, AddToOutbox,
               Fail, Reject
        <5>3. ~Commit(r)
          <6>1. ASSUME Commit(r) PROVE FALSE
            <7>1. pc[r] = "commit" /\ stored' = stored /\ stored' = stored \ Changed(r) /\ op[r].ci \in Changed(r)
              BY <2>1, <3>1, <6>1, CommitMoves DEF Commit, Added, Removed, Changed, Subject
            <7>2. op[r].ci \in stored
              BY <2>1, <7>1 DEF Lifecycle, Isolated
            <7> QED BY <7>1, <7>2
          <6> QED BY <6>1
        <5> QED BY <2>3, <5>1, <5>2, <5>3 DEF Local, Handle
      <4> QED BY <2>1, <4>1, <4>2
    <3>3. CASE pc'[r] \in Deleting
      <4>1. CASE Find(r)
        <5>1. snap'[r] = stored
          <6>1. ~Reject(r, "refused")
            BY <1>0, <3>3, EndSession DEF Reject, Deleting
          <6> QED BY <1>0, <4>1, <6>1 DEF Find, Refused, TypeOK
        <5> QED BY <1>5, <3>1, <3>2, <5>1 DEF Edges
      <4>2. CASE ~Find(r)
        <5>1. snap'[r] = snap[r]
          BY <1>0, <2>3, <3>3, <4>2, SnapStays DEF Deleting
        <5>2. pc[r] \in Deleting
          <6>1. pc[r] # "find"
            <7>1. pc[r] = "find" => Fail(r)
              BY <2>3, <4>2 DEF Local, Handle, CheckSource, CheckTarget, CheckOutgoing, CheckIncoming,
                 SearchLevel, CheckCycle, InsertEdge, CountEdges, DetachRead, DetachDrop, DetachAudit,
                 DetachEvent, Erase, RecordAudit, AddToOutbox, Commit
            <7>2. ~Fail(r)
              BY <1>0, <3>3, EndSession DEF Fail, Reject, Deleting
            <7> QED BY <7>1, <7>2
          <6>2. pc[r] \notin Checks
            BY <2>1 DEF Lifecycle, Places
          <6> QED BY <3>1, <3>3, <6>1, <6>2 DEF Moved, Deleting, Checks
        <5> QED BY <1>0, <1>5, <2>1, <3>1, <3>2, <5>1, <5>2 DEF Swept
      <4> QED BY <4>1, <4>2
    <3> QED BY <1>5, <3>2, <3>3
  <2>4. ~Sent(r)
    BY <1>5 DEF Sent, Send
  <2> QED BY <2>2, <2>3, <2>4, StepShape
<1> QED BY <1>3, <1>4, <1>5

------------------------------------------------------------------------------
LEMMA NextIInv ==
  ASSUME TxnEnabled, IInv, [Next]_vars
  PROVE  IInv'
<1>0. Lifecycle /\ Checked
  BY DEF IInv
<1>1. ASSUME NEW r \in Req, Step(r) PROVE IInv'
  <2>1. Lifecycle'
    BY <1>0, <1>1, StepLifecycle
  <2>2. Claimed' /\ UniqueEdges' /\ EndsKnown' /\ Uncrowded'
    BY <1>0, <1>1, StepClaimed, StepUniqueEdges, StepEndsKnown, StepUncrowded
  <2>3. Searching' /\ Acyclic' /\ Swept'
    BY <1>0, <1>1, StepSearching, StepAcyclic, StepSwept
  <2> QED BY <2>1, <2>2, <2>3 DEF IInv, Checked
<1>2. CASE UNCHANGED vars
  <2>1. Lifecycle'
    <3>1. TypeOK' /\ Places' /\ Past' /\ EdgeLineage'
      BY <1>0, <1>2 DEF Lifecycle, TypeOK, Places, Past, EdgeLineage, Born, vars
    <3>2. ASSUME NEW q \in Req PROVE Changed(q)' = Changed(q) /\ Session(q)'
      <4>1. Loose(q)' = Loose(q)
        BY <1>2 DEF Loose, EdgesOf, Edges, Touches, vars
      <4>2. pc' = pc /\ op' = op /\ todo' = todo /\ pend' = pend /\ Session(q)
        BY <1>0, <1>2 DEF Lifecycle, Sessions, vars
      <4> QED BY <4>1, <4>2, SameSession
    <3>3. Isolated'
      BY <1>0, <1>2, <3>2 DEF Lifecycle, Isolated, vars
    <3>4. Sessions'
      BY <3>2 DEF Sessions
    <3> QED BY <3>1, <3>3, <3>4 DEF Lifecycle
  <2>2. Claimed' /\ UniqueEdges' /\ EndsKnown' /\ Uncrowded'
    BY <1>0, <1>2 DEF Checked, Claimed, UniqueEdges, EndsKnown, Uncrowded, Inserted, SameEdge, Beyond, Born,
         Rivals, Def, Edges, vars
  <2>3. Searching' /\ Acyclic' /\ Swept'
    BY <1>0, <1>2 DEF Checked, Searching, Acyclic, Swept, Leads, Path, Graph, Dependencies, Beyond, Inserted,
         Born, Def, Edges, Touches, vars
  <2> QED BY <2>1, <2>2, <2>3 DEF IInv, Checked
<1>3. Next => (\E r \in Req : Step(r)) \/ UNCHANGED vars
  BY DEF Next, Step, Quiet
<1> QED BY <1>1, <1>2, <1>3

LEMMA Invariance == ASSUME TxnEnabled PROVE Spec => []IInv
<1>1. Init => IInv
  BY InitIInv
<1>2. TxnEnabled /\ IInv /\ [Next]_vars => IInv'
  BY NextIInv
<1>3. TxnEnabled
  OBVIOUS
<1> QED BY <1>1, <1>2, <1>3, PTL DEF Spec

(* Each request's state, the store and the records keep their types.       *)
THEOREM TypeCorrect == ASSUME TxnEnabled PROVE Spec => []TypeOK
<1>1. IInv => TypeOK
  BY DEF IInv, Lifecycle
<1> QED BY <1>1, Invariance, PTL

(* "Edge changes are atomic": whatever the interleaving, an edge or a CI   *)
(* is stored if and only if it has been created and not deleted, and every *)
(* change has one audit record and one event, also of an edge that went    *)
(* with its CI (create_edge, delete_edge, detach_ci, CIRepository.delete). *)
THEOREM EdgeLineageHolds == ASSUME TxnEnabled PROVE Spec => []EdgeLineage
<1>1. IInv => EdgeLineage
  BY DEF IInv, Lifecycle
<1> QED BY <1>1, Invariance, PTL

(* create_edge never stores two edges of one type with the same ends.      *)
THEOREM UniqueEdgesHolds == ASSUME TxnEnabled PROVE Spec => []UniqueEdges
<1>1. IInv => UniqueEdges
  BY DEF IInv, Checked
<1> QED BY <1>1, Invariance, PTL

(* An edge outlives a CI it touches only if the requests overlapped: what  *)
(* the checks of create_edge and the guard of CIRepository.delete are for. *)
THEOREM DanglesByOverlapOnlyHolds == ASSUME TxnEnabled PROVE Spec => []DanglesByOverlapOnly
<1>1. ASSUME IInv PROVE DanglesByOverlapOnly
  <2> SUFFICES ASSUME NEW e \in Edges(stored), NEW c \in Ci, Touches(e, c), c \notin stored
               PROVE  /\ c \in known[e]
                      /\ \A r \in Req : op[r].kind = "remove" /\ op[r].ci = c /\ resp[r] = "ok" =>
                           e \notin known[r]
    BY DEF DanglesByOverlapOnly
  <2>1. e \in Req /\ Born(e)
    BY <1>1, StoredIsBorn DEF IInv, Edges
  <2>2. c \in known[e]
    BY <1>1, <2>1 DEF IInv, Checked, EndsKnown, Beyond, Touches
  <2>3. ASSUME NEW r \in Req, op[r].kind = "remove", op[r].ci = c, resp[r] = "ok", e \in known[r] PROVE FALSE
    <3>1. e \in Edges(known[r] \cap stored)
      BY <2>3 DEF Edges
    <3> QED BY <1>1, <2>3, <3>1 DEF IInv, Checked, Swept
  <2> QED BY <2>2, <2>3
<1> QED BY <1>1, Invariance, PTL

(* _check_cardinality: an edge respects all those stored when it was asked *)
(* for, whatever else is written between the check and the insert.         *)
THEOREM CardinalityKeptHolds == ASSUME TxnEnabled PROVE Spec => []CardinalityKept
<1>1. ASSUME IInv PROVE CardinalityKept
  <2> SUFFICES ASSUME NEW d \in Edges(stored), NEW e \in Edges(stored), d # e, op[d].rel = op[e].rel,
                      d \in known[e]
               PROVE  /\ RelDef[op[e].rel].card \in {"one_to_one", "many_to_one"} => op[d].from # op[e].from
                      /\ RelDef[op[e].rel].card \in {"one_to_one", "one_to_many"} => op[d].to # op[e].to
    BY DEF CardinalityKept
  <2>1. e \in Req /\ Born(e) /\ d \in Rivals(e)
    BY <1>1, StoredIsBorn DEF IInv, Edges, Rivals
  <2>2. Beyond(e, {"incoming", "cycle", "insert"}) /\ Beyond(e, {"cycle", "insert"})
    BY <2>1 DEF Beyond
  <2> QED BY <1>1, <2>1, <2>2 DEF IInv, Checked, Uncrowded, Def
<1> QED BY <1>1, Invariance, PTL

(* _check_no_cycle: a dependency closes no cycle of at most                *)
(* graph_max_depth other edges with those stored when it was asked for.    *)
THEOREM NoCycleClosedHolds == ASSUME TxnEnabled PROVE Spec => []NoCycleClosed
<1>1. ASSUME IInv PROVE NoCycleClosed
  <2> SUFFICES ASSUME NEW e \in Edges(stored), RelDef[op[e].rel].dependency, op[e].from # op[e].to,
                      NEW k \in 1..MaxDepth, NEW p \in [0..k -> Ci], p[0] = op[e].to, p[k] = op[e].from,
                      \A i \in 1..k : <<p[i - 1], p[i]>> \in Dependencies(known[e] \cap stored)
               PROVE  FALSE
    BY DEF NoCycleClosed, DependsBy
  <2>1. e \in Req /\ Born(e)
    BY <1>1, StoredIsBorn DEF IInv, Edges
  <2>2. Leads(e, p, k)
    BY DEF Leads, Path, Graph
  <2> QED BY <1>1, <2>1, <2>2 DEF IInv, Checked, Acyclic, Beyond, Def
<1> QED BY <1>1, Invariance, PTL

-----------------------------------------------------------------------------
(* GraphSearch: dependencies and impact, while others change the graph.    *)
(*                                                                         *)
(* A search goes along the edges for dependencies and against them for     *)
(* impact; a trail is a walk from the root in the direction of the search. *)
Along(g, m, n) == IF direction = "out" THEN <<m, n>> \in g ELSE <<n, m>> \in g

IsTrail(g, p, k) ==
  /\ p \in [0..k -> Node] /\ p[0] = root
  /\ \A i \in 1..k : Along(g, p[i - 1], p[i])

Trail(g, n, k) == \E p \in [0..k -> Node] : IsTrail(g, p, k) /\ p[k] = n

SearchType ==
  /\ always \subseteq graph /\ graph \subseteq ever /\ ever \subseteq Node \X Node
  /\ root \in Node /\ direction \in {"out", "in"}
  /\ root \in bfs.visited /\ bfs.frontier \subseteq bfs.visited /\ bfs.visited \subseteq Node
  /\ level \in Nat

(* What a search has visited and left behind: trails that were there led   *)
(* to it, all that trails of as many edges as it has levels lead to is in  *)
(* it, and from what is no longer on the frontier there is no way out.     *)
Reached == \A n \in bfs.visited \ {root} : \E j \in 1..level : Trail(ever, n, j)

Covered == \A k \in 0..level : \A p \in [0..k -> Node] :
           IsTrail(always, p, k) => p[k] \in bfs.visited

LeftBehind ==
  /\ \A m \in bfs.visited \ bfs.frontier : \A n \in Node :
       Along(always, m, n) => n \in bfs.visited
  /\ Leaving(always, bfs.visited \ bfs.frontier, direction) \subseteq edges
  /\ edges \subseteq ever

GSInv == SearchType /\ Reached /\ Covered /\ LeftBehind

(* A walk to the root is a trail backwards.                                *)
LEMMA WalksAreTrails ==
  ASSUME SearchType, NEW g, NEW n \in Node, NEW k \in Nat
  PROVE  (IF direction = "out" THEN Walk(g, root, n, k) ELSE Walk(g, n, root, k)) <=> Trail(g, n, k)
<1>1. CASE direction = "out"
  BY <1>1 DEF Walk, Trail, IsTrail, Along
<1>2. CASE direction # "out"
  <2>1. ASSUME Walk(g, n, root, k) PROVE Trail(g, n, k)
    <3>1. PICK p \in [0..k -> Node] :
            p[0] = n /\ p[k] = root /\ \A i \in 1..k : <<p[i - 1], p[i]>> \in g
      BY <2>1 DEF Walk
    <3> DEFINE q == [i \in 0..k |-> p[k - i]]
    <3>2. q \in [0..k -> Node] /\ q[0] = root /\ q[k] = n
      BY <3>1
    <3>3. ASSUME NEW i \in 1..k PROVE <<q[i], q[i - 1]>> \in g
      <4>1. k - i + 1 \in 1..k /\ (k - i + 1) - 1 = k - i /\ k - (i - 1) = k - i + 1
        OBVIOUS
      <4>2. q[i] = p[k - i] /\ q[i - 1] = p[k - i + 1]
        BY <4>1
      <4> QED BY <3>1, <4>1, <4>2
    <3> HIDE DEF q
    <3> QED BY <1>2, <3>2, <3>3 DEF Trail, IsTrail, Along
  <2>2. ASSUME Trail(g, n, k) PROVE Walk(g, n, root, k)
    <3>1. PICK p \in [0..k -> Node] :
            p[0] = root /\ p[k] = n /\ \A i \in 1..k : <<p[i], p[i - 1]>> \in g
      BY <1>2, <2>2 DEF Trail, IsTrail, Along
    <3> DEFINE q == [i \in 0..k |-> p[k - i]]
    <3>2. q \in [0..k -> Node] /\ q[0] = n /\ q[k] = root
      BY <3>1
    <3>3. ASSUME NEW i \in 1..k PROVE <<q[i - 1], q[i]>> \in g
      <4>1. k - i + 1 \in 1..k /\ (k - i + 1) - 1 = k - i /\ k - (i - 1) = k - i + 1
        OBVIOUS
      <4>2. q[i] = p[k - i] /\ q[i - 1] = p[k - i + 1]
        BY <4>1
      <4> QED BY <3>1, <4>1, <4>2
    <3> HIDE DEF q
    <3> QED BY <3>2, <3>3 DEF Walk
  <2> QED BY <1>2, <2>1, <2>2
<1> QED BY <1>1, <1>2

LEMMA TrailGrows ==
  ASSUME NEW g, NEW h, g \subseteq h, NEW n, NEW k \in Nat, Trail(g, n, k)
  PROVE  Trail(h, n, k)
BY DEF Trail, IsTrail, Along

LEMMA TrailExtends ==
  ASSUME NEW g, NEW m, NEW k \in Nat, Trail(g, m, k), NEW n \in Node, Along(g, m, n)
  PROVE  Trail(g, n, k + 1)
<1>1. PICK p \in [0..k -> Node] : IsTrail(g, p, k) /\ p[k] = m
  BY DEF Trail
<1> DEFINE q == [i \in 0..(k + 1) |-> IF i = k + 1 THEN n ELSE p[i]]
<1>2. q \in [0..(k + 1) -> Node] /\ q[0] = root /\ q[k + 1] = n
  BY <1>1 DEF IsTrail
<1>3. ASSUME NEW i \in 1..(k + 1) PROVE Along(g, q[i - 1], q[i])
  <2>1. CASE i \in 1..k
    <3>1. q[i] = p[i] /\ q[i - 1] = p[i - 1]
      BY <2>1
    <3> QED BY <1>1, <2>1, <3>1 DEF IsTrail
  <2>2. CASE i = k + 1
    <3>1. q[i] = n /\ q[i - 1] = m
      BY <1>1, <2>2
    <3> QED BY <3>1
  <2> QED BY <2>1, <2>2
<1> HIDE DEF q
<1> QED BY <1>2, <1>3 DEF Trail, IsTrail

LEMMA RootTrail ==
  ASSUME SearchType, NEW g, NEW n \in Node, Along(g, root, n)
  PROVE  Trail(g, n, 1)
<1> DEFINE p == [i \in 0..0 |-> root]
<1>1. p \in [0..0 -> Node] /\ p[0] = root
  BY DEF SearchType
<1>2. IsTrail(g, p, 0)
  BY <1>1 DEF IsTrail
<1>3. Trail(g, root, 0)
  BY <1>1, <1>2 DEF Trail
<1> QED BY <1>3, TrailExtends

(* One level.                                                              *)
LEMMA LevelMoves ==
  ASSUME SearchType, Expand
  PROVE  /\ bfs'.visited = bfs.visited \cup bfs'.frontier
         /\ bfs'.frontier \cap bfs.visited = {}
         /\ \A n \in bfs'.frontier : n \in Node /\ \E m \in bfs.frontier : Along(graph, m, n)
         /\ \A m \in bfs.frontier : \A n \in Node : Along(graph, m, n) => n \in bfs'.visited
<1> DEFINE next == Ends(Leaving(graph, bfs.frontier, direction), direction) \ bfs.visited
<1>1. bfs' = [visited |-> bfs.visited \cup next, frontier |-> next]
  BY DEF Expand, Level
<1>2. ASSUME NEW n PROVE n \in Ends(Leaving(graph, bfs.frontier, direction), direction)
                         <=> n \in Node /\ \E m \in bfs.frontier : Along(graph, m, n)
  <2>1. \A e \in graph : e = <<e[1], e[2]>> /\ e[1] \in Node /\ e[2] \in Node
    BY DEF SearchType
  <2>2. CASE direction = "out"
    BY <2>1, <2>2 DEF Ends, Leaving, Along
  <2>3. CASE direction # "out"
    BY <2>1, <2>3 DEF Ends, Leaving, Along
  <2> QED BY <2>2, <2>3
<1> QED BY <1>1, <1>2

LEMMA ExpandKeeps ==
  ASSUME GSInv, Expand
  PROVE  GSInv'
<1> USE DEF GSInv
<1>1. /\ UNCHANGED <<graph, always, ever, root, direction>> /\ level' = level + 1 /\ level \in Nat
      /\ edges' = edges \cup Leaving(graph, bfs.frontier, direction)
  BY DEF Expand, SearchType
<1>2. \A g, n, k : Trail(g, n, k)' <=> Trail(g, n, k)
  BY <1>1 DEF Trail, IsTrail, Along
<1>3. SearchType'
  BY <1>1, LevelMoves DEF SearchType
<1>4. Reached'
  <2> SUFFICES ASSUME NEW n \in bfs'.visited \ {root}
               PROVE  \E j \in 1..(level + 1) : Trail(ever, n, j)
    BY <1>1, <1>2 DEF Reached
  <2>1. CASE n \in bfs.visited
    <3>1. PICK j \in 1..level : Trail(ever, n, j)
      BY <2>1 DEF Reached
    <3> QED BY <1>1, <3>1
  <2>2. CASE n \notin bfs.visited
    <3>1. PICK m \in bfs.frontier : n \in Node /\ Along(graph, m, n)
      BY <2>2, LevelMoves
    <3>2. Along(ever, m, n)
      BY <3>1 DEF Along, SearchType
    <3>3. CASE m = root
      <4>1. Trail(ever, n, 1)
        BY <3>1, <3>2, <3>3, RootTrail
      <4> QED BY <1>1, <4>1
    <3>4. CASE m # root
      <4>1. PICK j \in 1..level : Trail(ever, m, j)
        BY <3>1, <3>4 DEF Reached, SearchType
      <4>2. Trail(ever, n, j + 1)
        BY <1>1, <3>1, <3>2, <4>1, TrailExtends
      <4> QED BY <1>1, <4>1, <4>2
    <3> QED BY <3>3, <3>4
  <2> QED BY <2>1, <2>2
<1>5. Covered'
  <2> SUFFICES ASSUME NEW k \in 0..(level + 1), NEW p \in [0..k -> Node], IsTrail(always, p, k)
               PROVE  p[k] \in bfs'.visited
    BY <1>1 DEF Covered, IsTrail, Along
  <2>1. CASE k \in 0..level
    BY <2>1, LevelMoves DEF Covered
  <2>2. CASE k = level + 1
    <3> DEFINE q == [i \in 0..level |-> p[i]]
    <3>1. q \in [0..level -> Node] /\ q[level] = p[level] /\ p[level] \in Node /\ p[k] \in Node
      BY <1>1, <2>2
    <3>2. IsTrail(always, q, level)
      <4>1. q[0] = root
        BY <1>1, <2>2 DEF IsTrail
      <4>2. ASSUME NEW i \in 1..level PROVE Along(always, q[i - 1], q[i])
        <5>1. q[i] = p[i] /\ q[i - 1] = p[i - 1] /\ i \in 1..k
          BY <1>1, <2>2
        <5> QED BY <5>1 DEF IsTrail
      <4> HIDE DEF q
      <4> QED BY <3>1, <4>1, <4>2 DEF IsTrail
    <3> HIDE DEF q
    <3>3. p[level] \in bfs.visited
      <4>1. level \in 0..level
        BY <1>1
      <4> QED BY <3>1, <3>2, <4>1 DEF Covered
    <3>4. Along(always, p[level], p[k])
      <4>1. k \in 1..k /\ k - 1 = level
        BY <1>1, <2>2
      <4> QED BY <4>1 DEF IsTrail
    <3>5. CASE p[level] \in bfs.frontier
      <4>1. Along(graph, p[level], p[k])
        BY <3>4 DEF Along, SearchType
      <4> QED BY <3>1, <3>5, <4>1, LevelMoves
    <3>6. CASE p[level] \notin bfs.frontier
      BY <3>1, <3>3, <3>4, <3>6, LevelMoves DEF LeftBehind
    <3> QED BY <3>5, <3>6
  <2> QED BY <1>1, <2>1, <2>2
<1>6. LeftBehind'
  <2>1. bfs'.visited \ bfs'.frontier = bfs.visited
    BY LevelMoves
  <2>2. ASSUME NEW m \in bfs.visited, NEW n \in Node, Along(always, m, n) PROVE n \in bfs'.visited
    <3>1. CASE m \in bfs.frontier
      <4>1. Along(graph, m, n)
        BY <2>2 DEF Along, SearchType
      <4> QED BY <3>1, <4>1, LevelMoves
    <3>2. CASE m \notin bfs.frontier
      BY <2>2, <3>2, LevelMoves DEF LeftBehind
    <3> QED BY <3>1, <3>2
  <2>3. Leaving(always, bfs.visited, direction) \subseteq edges'
    <3>1. /\ Leaving(always, bfs.visited \ bfs.frontier, direction) \subseteq edges
          /\ always \subseteq graph
      BY DEF LeftBehind, SearchType
    <3> QED BY <1>1, <3>1 DEF Leaving
  <2>4. edges' \subseteq ever
    BY <1>1 DEF LeftBehind, SearchType, Leaving
  <2> QED BY <1>1, <2>1, <2>2, <2>3, <2>4 DEF LeftBehind, Along
<1> QED BY <1>3, <1>4, <1>5, <1>6

LEMMA ChangeKeeps ==
  ASSUME GSInv, Change
  PROVE  GSInv'
<1> USE DEF GSInv
<1>1. /\ UNCHANGED <<root, direction, bfs, edges, level>>
      /\ always' = always \cap graph' /\ ever' = ever \cup graph'
  BY DEF Change
<1>2. graph' \subseteq Node \X Node
  <2>1. PICK e \in Node \X Node : graph' = IF e \in graph THEN graph \ {e} ELSE graph \cup {e}
    BY DEF Change
  <2> QED BY <2>1 DEF SearchType
<1>3. SearchType'
  BY <1>1, <1>2 DEF SearchType
<1>4. Reached'
  <2> SUFFICES ASSUME NEW n \in bfs.visited \ {root}
               PROVE  \E j \in 1..level : Trail(ever, n, j)'
    BY <1>1 DEF Reached
  <2>1. PICK j \in 1..level : Trail(ever, n, j)
    BY DEF Reached
  <2>2. PICK p \in [0..j -> Node] :
          p[0] = root /\ p[j] = n /\ \A i \in 1..j : Along(ever, p[i - 1], p[i])
    BY <2>1 DEF Trail, IsTrail
  <2>3. p[0] = root' /\ \A i \in 1..j : Along(ever, p[i - 1], p[i])'
    BY <1>1, <2>2 DEF Along
  <2> QED BY <2>2, <2>3 DEF Trail, IsTrail
<1>5. Covered'
  <2> SUFFICES ASSUME NEW k \in 0..level, NEW p \in [0..k -> Node], IsTrail(always', p, k)
               PROVE  p[k] \in bfs.visited
    BY <1>1 DEF Covered, IsTrail, Along
  <2>1. IsTrail(always, p, k)
    BY <1>1 DEF IsTrail, Along
  <2> QED BY <2>1 DEF Covered
<1>6. LeftBehind'
  <2>1. \A m, n : Along(always, m, n)' => Along(always, m, n)
    BY <1>1 DEF Along
  <2>2. Leaving(always', bfs.visited \ bfs.frontier, direction)
          \subseteq Leaving(always, bfs.visited \ bfs.frontier, direction)
    BY <1>1 DEF Leaving
  <2> QED BY <1>1, <2>1, <2>2 DEF LeftBehind
<1> QED BY <1>3, <1>4, <1>5, <1>6

LEMMA InitGSInv == GSInit => GSInv
<1> SUFFICES ASSUME GSInit PROVE GSInv
  OBVIOUS
<1>1. /\ bfs.visited = {root} /\ bfs.frontier = {root} /\ level = 0 /\ edges = {}
      /\ always = graph /\ ever = graph /\ graph \subseteq Node \X Node /\ root \in Node
      /\ direction \in {"out", "in"}
  BY DEF GSInit, Root
<1>2. SearchType
  BY <1>1 DEF SearchType
<1>3. Reached
  BY <1>1 DEF Reached
<1>4. Covered
  BY <1>1 DEF Covered, IsTrail
<1>5. LeftBehind
  BY <1>1 DEF LeftBehind, Leaving
<1> QED BY <1>2, <1>3, <1>4, <1>5 DEF GSInv

LEMMA GSInvariance == GSSpec => []GSInv
<1>1. GSInv /\ [GSNext]_gsVars => GSInv'
  <2> SUFFICES ASSUME GSInv, [GSNext]_gsVars PROVE GSInv'
    OBVIOUS
  <2>1. CASE UNCHANGED gsVars
    BY <2>1 DEF gsVars, GSInv, SearchType, Reached, Covered, LeftBehind, Trail, IsTrail, Along
  <2> QED BY <2>1, ExpandKeeps, ChangeKeeps DEF GSNext, Return
<1> QED BY <1>1, InitGSInv, PTL DEF GSSpec

(* A search with an empty frontier has visited all that trails lead to.    *)
LEMMA SearchedAll ==
  ASSUME GSInv, bfs.frontier = {}, NEW k \in Nat, NEW n, Trail(always, n, k)
  PROVE  n \in bfs.visited
<1>1. PICK p \in [0..k -> Node] : IsTrail(always, p, k) /\ p[k] = n
  BY DEF Trail
<1> DEFINE Out == {i \in 0..k : p[i] \notin bfs.visited}
<1>2. CASE Out = {}
  <2>1. k \in 0..k
    OBVIOUS
  <2> QED BY <1>1, <1>2, <2>1
<1>3. CASE Out # {}
  <2>1. PICK i \in Out : \A j \in Out : i <= j
    <3>1. Out \in SUBSET Nat
      OBVIOUS
    <3> QED BY <1>3, <3>1, LeastNat
  <2>2. i # 0
    BY <1>1 DEF IsTrail, GSInv, SearchType
  <2>3. i \in 1..k /\ i - 1 \in 0..k /\ ~(i <= i - 1)
    BY <2>2
  <2>4. p[i - 1] \in bfs.visited
    BY <2>1, <2>3
  <2>5. Along(always, p[i - 1], p[i]) /\ p[i] \in Node
    BY <1>1, <2>3 DEF IsTrail
  <2>6. p[i] \in bfs.visited
    BY <2>4, <2>5 DEF GSInv, LeftBehind
  <2> QED BY <2>6
<1> QED BY <1>2, <1>3

(* dependencies and impact answer with all that depends on the root, or it *)
(* on them, within the levels done and throughout the search, and with     *)
(* nothing that at no time did, on graphs of any size, cyclic or not.      *)
THEOREM FindsWhatIsNearHolds == GSSpec => []FindsWhatIsNear
<1>1. GSInv => FindsWhatIsNear
  <2> SUFFICES ASSUME GSInv PROVE FindsWhatIsNear
    OBVIOUS
  <2>1. SearchType /\ level \in Nat
    BY DEF GSInv, SearchType
  <2>2. ASSUME NEW n \in Within(always, level) PROVE n \in Nodes
    <3>1. PICK j \in 1..level : n \in Node \ {root} /\ Trail(always, n, j)
      BY <2>1, WalksAreTrails DEF Within
    <3>2. j \in 0..level
      BY <2>1
    <3> QED BY <3>1, <3>2 DEF GSInv, Covered, Trail, Nodes
  <2>3. ASSUME NEW n \in Nodes PROVE n \in Within(ever, level)
    <3>1. n \in Node \ {root}
      BY <2>1 DEF SearchType, Nodes
    <3>2. PICK j \in 1..level : Trail(ever, n, j)
      BY DEF GSInv, Reached, Nodes
    <3> QED BY <2>1, <3>1, <3>2, WalksAreTrails DEF Within
  <2> QED BY <2>2, <2>3 DEF GSInv, LeftBehind, FindsWhatIsNear
<1> QED BY <1>1, GSInvariance, PTL

(* An answer that is not flagged as truncated is the whole blast radius,   *)
(* with the edges inside it.                                               *)
THEOREM UntruncatedIsCompleteHolds == GSSpec => []UntruncatedIsComplete
<1>1. GSInv => UntruncatedIsComplete
  <2> SUFFICES ASSUME GSInv, ~Truncated
               PROVE  /\ Within(always, Cardinality(Node)) \subseteq Nodes
                      /\ Leaving(always, Nodes \cup {root}, direction) \subseteq edges
    BY DEF UntruncatedIsComplete
  <2>1. SearchType /\ bfs.frontier = {}
    BY DEF GSInv, Truncated
  <2>2. ASSUME NEW n \in Within(always, Cardinality(Node)) PROVE n \in Nodes
    <3>1. Cardinality(Node) \in Nat
      BY SearchAssumption, FS_CardinalityType
    <3>2. PICK j \in 1..Cardinality(Node) : n \in Node \ {root} /\ Trail(always, n, j)
      BY <2>1, <3>1, WalksAreTrails DEF Within
    <3> QED BY <2>1, <3>1, <3>2, SearchedAll DEF Nodes
  <2>3. Nodes \cup {root} = bfs.visited \ bfs.frontier
    BY <2>1 DEF Nodes, SearchType
  <2> QED BY <2>2, <2>3 DEF GSInv, LeftBehind
<1> QED BY <1>1, GSInvariance, PTL
=============================================================================
