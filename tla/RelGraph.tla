------------------------------ MODULE RelGraph ------------------------------
(***************************************************************************)
(* The relationship graph (src/cmdboss/graph.py) and the delete guard that *)
(* CIRepository.delete (repository.py) calls into it: edges are created    *)
(* and deleted, CIs are deleted with or without detaching their edges.     *)
(*                                                                         *)
(* Each member of Req is one request.  A "link" request creates at most    *)
(* one edge, so the edge is named after it and its ends are those the      *)
(* request asks for.  Edges and CIs are things; a thing is stored or not,  *)
(* and has audit records and outbox events.  The checks of create_edge     *)
(* read the store as it is; the writes, and all of a delete, belong to one *)
(* session, whose writes take effect at Commit when TxnEnabled and at once *)
(* otherwise.                                                              *)
(***************************************************************************)
EXTENDS Naturals, SequencesExt, Bfs

CONSTANTS Req, Ci, Rel,
          RelDef,      \* the relationship types: cardinality, dependency, allow_self, permits
          Kinds,       \* the kinds of request that occur
          MaxDepth,    \* graph_max_depth
          TxnEnabled,  \* does the deployment support transactions
          None

Cardinalities == {"one_to_one", "one_to_many", "many_to_one", "many_to_many"}
AllKinds == {"link", "unlink", "remove"}

ASSUME GraphAssumption ==
  /\ RelDef \in [Rel -> [card : Cardinalities, dependency : BOOLEAN, self : BOOLEAN,
                         permits : SUBSET (Ci \X Ci)]]
  /\ Kinds \subseteq AllKinds
  /\ MaxDepth \in Nat \ {0}
  /\ TxnEnabled \in BOOLEAN
  /\ IsFiniteSet(Req) /\ Req \cap Ci = {} /\ None \notin Ci \cup Req

VARIABLES
  stored,  \* the things in the database
  audit,   \* audit[x]: the actions recorded for x, oldest first
  outbox,  \* outbox[x]: the events enqueued for x, oldest first
  pc,      \* pc[r]: the next step of r
  op,      \* op[r]: what r asks for
  search,  \* search[r]: the state of r's cycle check
  snap,    \* snap[r]: the things stored at r's snapshot
  todo,    \* todo[r]: edges r has detached and not yet recorded
  pend,    \* pend[r]: the writes r's session holds back
  resp,    \* resp[r]: the answer
  known    \* known[r]: the things that were stored when r was sent

vars == <<stored, audit, outbox, pc, op, search, snap, todo, pend, resp, known>>

Thing == Ci \cup Req
Action == {"create", "delete"}
Write == [to : {"data", "audit", "outbox"}, on : Thing, act : Action]
W(to, x, act) == [to |-> to, on |-> x, act |-> act]

NoOp == [kind |-> "none"]
LinkOp == [kind : {"link"}, rel : Rel, from : Ci, to : Ci]
UnlinkOp == [kind : {"unlink"}, edge : Req, match : BOOLEAN]
RemoveOp == [kind : {"remove"}, ci : Ci, detach : BOOLEAN]
Idle == [visited |-> {}, frontier |-> {}, level |-> 0]

Edges(things) == things \cap Req
Touches(e, c) == c \in {op[e].from, op[e].to}
EdgesOf(c, things) == {e \in Edges(things) : Touches(e, c)}

Init ==
  /\ stored = Ci
  /\ audit = [x \in Thing |-> IF x \in Ci THEN <<"create">> ELSE <<>>]
  /\ outbox = audit
  /\ pc = [r \in Req |-> "idle"]
  /\ op = [r \in Req |-> NoOp]
  /\ search = [r \in Req |-> Idle]
  /\ snap = [r \in Req |-> {}]
  /\ todo = [r \in Req |-> <<>>]
  /\ pend = [r \in Req |-> {}]
  /\ resp = [r \in Req |-> "none"]
  /\ known = [r \in Req |-> {}]

(***************************************************************************)
(* The session.                                                            *)
(***************************************************************************)
Extend(log, writes, to, x) ==
  IF \E act \in Action : W(to, x, act) \in writes
    THEN Append(log, IF W(to, x, "create") \in writes THEN "create" ELSE "delete")
    ELSE log

Apply(writes) ==
  /\ stored' = (stored \cup {x \in Thing : W("data", x, "create") \in writes})
                 \ {x \in Thing : W("data", x, "delete") \in writes}
  /\ audit' = [x \in Thing |-> Extend(audit[x], writes, "audit", x)]
  /\ outbox' = [x \in Thing |-> Extend(outbox[x], writes, "outbox", x)]

Do(r, writes) ==
  IF TxnEnabled
    THEN /\ pend' = [pend EXCEPT ![r] = @ \cup writes]
         /\ UNCHANGED <<stored, audit, outbox>>
    ELSE Apply(writes) /\ UNCHANGED pend

(* What a read within r's session sees.                                    *)
View(r) == IF TxnEnabled THEN snap[r] ELSE stored

(* Another open session has written one of these things, or one of them    *)
(* has gone since the snapshot: MongoDB aborts the later writer.           *)
Conflict(r, things) ==
  TxnEnabled /\ \E x \in things :
    \/ x \notin stored
    \/ \E q \in Req \ {r} : W("data", x, "delete") \in pend[q]

Goto(r, step) == pc' = [pc EXCEPT ![r] = step]

End(r, a) ==
  /\ Goto(r, "done")
  /\ resp' = [resp EXCEPT ![r] = a]
  /\ pend' = [pend EXCEPT ![r] = {}]
  /\ search' = [search EXCEPT ![r] = Idle]
  /\ snap' = [snap EXCEPT ![r] = {}]
  /\ todo' = [todo EXCEPT ![r] = <<>>]

Reject(r, a) == End(r, a) /\ UNCHANGED <<stored, audit, outbox, op, known>>

Refused(r, condition) == condition /\ Reject(r, "refused")

(* A check passes: on to the next step.                                    *)
Passed(r, condition, step) ==
  /\ condition
  /\ Goto(r, step)
  /\ UNCHANGED <<stored, audit, outbox, op, search, snap, todo, pend, resp, known>>

(***************************************************************************)
(* Requests.                                                               *)
(***************************************************************************)
Send(r, request, step) ==
  /\ pc[r] = "idle" /\ request.kind \in Kinds
  /\ op' = [op EXCEPT ![r] = request]
  /\ Goto(r, step)
  /\ known' = [known EXCEPT ![r] = stored]
  /\ UNCHANGED <<stored, audit, outbox, search, snap, todo, pend, resp>>

(* The type permits the end points, and a loop only where it allows one.   *)
SendLink(r, rel, a, b) ==
  /\ <<a, b>> \in RelDef[rel].permits
  /\ a = b => RelDef[rel].self
  /\ Send(r, [kind |-> "link", rel |-> rel, from |-> a, to |-> b], "source")

(* match: the If-Match, if any, is the edge's revision, which is always 1. *)
SendUnlink(r, e, match) ==
  op[e].kind = "link" /\ Send(r, [kind |-> "unlink", edge |-> e, match |-> match], "find")

SendRemove(r, c, detach) ==
  Send(r, [kind |-> "remove", ci |-> c, detach |-> detach], "find")

(***************************************************************************)
(* create_edge: the checks, outside the transaction.                       *)
(***************************************************************************)
Def(r) == RelDef[op[r].rel]

CheckSource(r) ==
  /\ pc[r] = "source"
  /\ \/ Refused(r, op[r].from \notin stored)
     \/ Passed(r, op[r].from \in stored, "target")

CheckTarget(r) ==
  /\ pc[r] = "target"
  /\ \/ Refused(r, op[r].to \notin stored)
     \/ Passed(r, op[r].to \in stored, "outgoing")

(* _check_cardinality: two counts, each under its own condition.           *)
Outgoing(r) == {e \in Edges(stored) : op[e].rel = op[r].rel /\ op[e].from = op[r].from}
Incoming(r) == {e \in Edges(stored) : op[e].rel = op[r].rel /\ op[e].to = op[r].to}

CheckOutgoing(r) ==
  /\ pc[r] = "outgoing"
  /\ LET full == Def(r).card \in {"one_to_one", "many_to_one"} /\ Outgoing(r) # {}
     IN  Refused(r, full) \/ Passed(r, ~full, "incoming")

(* Fault: one_to_one is not checked at the target.                         *)
CheckIncomingOneToMany(r) ==
  /\ pc[r] = "incoming"
  /\ LET full == Def(r).card = "one_to_many" /\ Incoming(r) # {}
     IN  Refused(r, full) \/ Passed(r, ~full, IF Def(r).dependency THEN "cycle" ELSE "insert")

CheckIncoming(r) ==
  /\ pc[r] = "incoming"
  /\ LET full == Def(r).card \in {"one_to_one", "one_to_many"} /\ Incoming(r) # {}
     IN  Refused(r, full) \/ Passed(r, ~full, IF Def(r).dependency THEN "cycle" ELSE "insert")

(* The dependency edges, as pairs.                                         *)
Dependencies(things) ==
  {<<op[e].from, op[e].to>> : e \in {d \in Edges(things) : RelDef[op[d].rel].dependency}}

(* Fault: one level too many, also when there is nothing left to search.   *)
SearchedLate(r) == search[r].level > MaxDepth

(* There is nothing left to search, or graph_max_depth is reached.         *)
Searched(r) == search[r].level > 0 /\ (search[r].frontier = {} \/ search[r].level = MaxDepth)
FoundSource(r) == op[r].from \in search[r].visited \ {op[r].to}

(* Fault: the search follows the edges backwards.                          *)
SearchLevelBackwards(r) ==
  /\ pc[r] = "cycle" /\ ~Searched(r)
  /\ LET s == IF search[r].level = 0 THEN Root(op[r].to)
              ELSE [visited |-> search[r].visited, frontier |-> search[r].frontier]
         next == Level(Dependencies(stored), s, "in")
     IN  search' = [search EXCEPT ![r] = [visited |-> next.visited, frontier |-> next.frontier,
                                          level |-> search[r].level + 1]]
  /\ UNCHANGED <<stored, audit, outbox, pc, op, snap, todo, pend, resp, known>>

(* _check_no_cycle: a breadth-first search from the target, one query per  *)
(* level, down to MaxDepth levels.                                         *)
SearchLevel(r) ==
  /\ pc[r] = "cycle" /\ ~Searched(r)
  /\ LET s == IF search[r].level = 0 THEN Root(op[r].to)
              ELSE [visited |-> search[r].visited, frontier |-> search[r].frontier]
         next == Level(Dependencies(stored), s, "out")
     IN  search' = [search EXCEPT ![r] = [visited |-> next.visited, frontier |-> next.frontier,
                                          level |-> search[r].level + 1]]
  /\ UNCHANGED <<stored, audit, outbox, pc, op, snap, todo, pend, resp, known>>

CheckCycle(r) ==
  /\ pc[r] = "cycle" /\ Searched(r)
  /\ Refused(r, FoundSource(r)) \/ Passed(r, ~FoundSource(r), "insert")

(***************************************************************************)
(* create_edge: the unit of work.                                          *)
(***************************************************************************)
SameEdge(d, e) == op[d] = op[e]
Duplicate(r) == \E e \in Edges(stored) : SameEdge(e, r)

(* Fault: there is no unique index on the edge.                            *)
InsertEdgeAgain(r) ==
  /\ pc[r] = "insert"
  /\ Do(r, {W("data", r, "create")})
  /\ Goto(r, "audit")
  /\ UNCHANGED <<op, search, snap, todo, resp, known>>

(* insert_one under the unique index uq_edge; an insert of the same edge   *)
(* that another session has not committed yet is a write conflict (Fail).  *)
InsertEdge(r) ==
  /\ pc[r] = "insert"
  /\ \/ Refused(r, Duplicate(r))
     \/ /\ ~Duplicate(r)
        /\ \A q \in Req \ {r} : W("data", q, "create") \in pend[q] => ~SameEdge(q, r)
        /\ Do(r, {W("data", r, "create")})
        /\ Goto(r, "audit")
        /\ UNCHANGED <<op, search, snap, todo, resp, known>>

(***************************************************************************)
(* delete_edge, and CIRepository.delete with the guard.                    *)
(***************************************************************************)
Subject(r) ==
  CASE op[r].kind = "link" -> r
    [] op[r].kind = "unlink" -> op[r].edge
    [] op[r].kind = "remove" -> op[r].ci

(* The first read fixes the transaction's snapshot.                        *)
Find(r) ==
  /\ pc[r] = "find"
  /\ \/ Refused(r, Subject(r) \notin stored \/ (op[r].kind = "unlink" /\ ~op[r].match))
     \/ /\ Subject(r) \in stored
        /\ op[r].kind = "unlink" => op[r].match
        /\ snap' = [snap EXCEPT ![r] = stored]
        /\ Goto(r, IF op[r].kind = "remove" THEN "count" ELSE "erase")
        /\ UNCHANGED <<stored, audit, outbox, op, search, todo, pend, resp, known>>

(* Fault: only outgoing edges are counted.                                 *)
CountOutgoing(r) ==
  /\ pc[r] = "count"
  /\ LET some == \E e \in Edges(View(r)) : op[e].from = op[r].ci IN
       \/ Refused(r, some /\ ~op[r].detach)
       \/ Passed(r, some /\ op[r].detach, "detach")
       \/ Passed(r, ~some, "erase")

CountEdges(r) ==
  /\ pc[r] = "count"
  /\ LET some == EdgesOf(op[r].ci, View(r)) # {} IN
       \/ Refused(r, some /\ ~op[r].detach)
       \/ Passed(r, some /\ op[r].detach, "detach")
       \/ Passed(r, ~some, "erase")

(* The orders in which a find without a sort may return these things.      *)
Listings(things) == Bijection(1..Cardinality(things), things)

(* detach_ci: the edges are read, deleted by query, and then recorded one  *)
(* by one.                                                                 *)
DetachRead(r) ==
  /\ pc[r] = "detach"
  /\ \E found \in Listings(EdgesOf(op[r].ci, View(r))) :
       /\ todo' = [todo EXCEPT ![r] = found]
       /\ Goto(r, IF found = <<>> THEN "erase" ELSE "drop")
  /\ UNCHANGED <<stored, audit, outbox, op, search, snap, pend, resp, known>>

(* Fault: delete_many is given no session.                                 *)
DetachDropNoSession(r) ==
  /\ pc[r] = "drop"
  /\ Apply({W("data", e, "delete") : e \in EdgesOf(op[r].ci, stored)})
  /\ Goto(r, "logaudit")
  /\ UNCHANGED <<op, search, snap, todo, pend, resp, known>>

DetachDrop(r) ==
  /\ pc[r] = "drop"
  /\ LET gone == EdgesOf(op[r].ci, View(r)) IN
       /\ ~Conflict(r, gone)
       /\ Do(r, {W("data", e, "delete") : e \in gone})
  /\ Goto(r, "logaudit")
  /\ UNCHANGED <<op, search, snap, todo, resp, known>>

DetachAudit(r) ==
  /\ pc[r] = "logaudit"
  /\ Do(r, {W("audit", Head(todo[r]), "delete")})
  /\ Goto(r, "logevent")
  /\ UNCHANGED <<op, search, snap, todo, resp, known>>

DetachEvent(r) ==
  /\ pc[r] = "logevent"
  /\ Do(r, {W("outbox", Head(todo[r]), "delete")})
  /\ todo' = [todo EXCEPT ![r] = Tail(@)]
  /\ Goto(r, IF Len(todo[r]) = 1 THEN "erase" ELSE "logaudit")
  /\ UNCHANGED <<op, search, snap, resp, known>>

(* delete_one by _id.                                                      *)
Erase(r) ==
  /\ pc[r] = "erase"
  /\ ~Conflict(r, {Subject(r)})
  /\ Do(r, {W("data", Subject(r), "delete")})
  /\ Goto(r, "audit")
  /\ UNCHANGED <<op, search, snap, todo, resp, known>>

(***************************************************************************)
(* AuditLog.record, Outbox.add, and the end of the unit of work.           *)
(***************************************************************************)
ActionOf(r) == IF op[r].kind = "link" THEN "create" ELSE "delete"

RecordAudit(r) ==
  /\ pc[r] = "audit"
  /\ Do(r, {W("audit", Subject(r), ActionOf(r))})
  /\ Goto(r, "outbox")
  /\ UNCHANGED <<op, search, snap, todo, resp, known>>

AddToOutbox(r) ==
  /\ pc[r] = "outbox"
  /\ Do(r, {W("outbox", Subject(r), ActionOf(r))})
  /\ Goto(r, "commit")
  /\ UNCHANGED <<op, search, snap, todo, resp, known>>

Commit(r) ==
  /\ pc[r] = "commit"
  /\ Apply(pend[r])
  /\ \E a \in {"ok", "error"} : End(r, a)
  /\ UNCHANGED <<op, known>>

(* Any await may raise, and the worker may die.                            *)
Fail(r) == pc[r] \notin {"idle", "done"} /\ Reject(r, "error")

Quiet == (\A r \in Req : pc[r] \in {"idle", "done"}) /\ UNCHANGED vars

Handle(r) ==
  \/ CheckSource(r) \/ CheckTarget(r) \/ CheckOutgoing(r) \/ CheckIncoming(r)
  \/ SearchLevel(r) \/ CheckCycle(r) \/ InsertEdge(r)
  \/ Find(r) \/ CountEdges(r) \/ DetachRead(r) \/ DetachDrop(r)
  \/ DetachAudit(r) \/ DetachEvent(r) \/ Erase(r)
  \/ RecordAudit(r) \/ AddToOutbox(r) \/ Commit(r) \/ Fail(r)

Next ==
  \/ \E r \in Req :
       \/ \E rel \in Rel, a, b \in Ci : SendLink(r, rel, a, b)
       \/ \E e \in Req, match \in BOOLEAN : SendUnlink(r, e, match)
       \/ \E c \in Ci, detach \in BOOLEAN : SendRemove(r, c, detach)
       \/ Handle(r)
  \/ Quiet

Spec == Init /\ [][Next]_vars

(***************************************************************************)
(* Properties.                                                             *)
(***************************************************************************)
Steps == {"idle", "source", "target", "outgoing", "incoming", "cycle", "insert", "find",
          "count", "detach", "drop", "logaudit", "logevent", "erase", "audit", "outbox",
          "commit", "done"}

TypeOK ==
  /\ stored \subseteq Thing
  /\ audit \in [Thing -> Seq(Action)] /\ outbox \in [Thing -> Seq(Action)]
  /\ pc \in [Req -> Steps]
  /\ op \in [Req -> {NoOp} \cup LinkOp \cup UnlinkOp \cup RemoveOp]
  /\ search \in [Req -> [visited : SUBSET Ci, frontier : SUBSET Ci, level : 0..MaxDepth]]
  /\ snap \in [Req -> SUBSET Thing]
  /\ todo \in [Req -> Seq(Req)]
  /\ pend \in [Req -> SUBSET Write]
  /\ known \in [Req -> SUBSET Thing]
  /\ resp \in [Req -> {"none", "ok", "refused", "error"}]

(* "Edge changes are atomic": an edge or CI is stored if it was created    *)
(* and not deleted, each at most once, and for each there is one audit     *)
(* record and one event, also when the edge went with its CI.              *)
EdgeLineage ==
  \A x \in Thing :
    /\ audit[x] \in {<<>>, <<"create">>, <<"create", "delete">>}
    /\ outbox[x] = audit[x]
    /\ x \in stored <=> audit[x] = <<"create">>

(* No two edges of the same type join the same CIs in the same direction.  *)
UniqueEdges == \A d, e \in Edges(stored) : SameEdge(d, e) => d = e

(* Referential integrity: an edge may outlive an end of its only if the    *)
(* two requests overlapped.  A CI that was not there when the link was     *)
(* sent is refused, and an edge that was there when the deletion was sent  *)
(* stops it or goes with it.                                               *)
DanglesByOverlapOnly ==
  \A e \in Edges(stored), c \in Ci :
    (Touches(e, c) /\ c \notin stored) =>
      /\ c \in known[e]
      /\ \A r \in Req : op[r].kind = "remove" /\ op[r].ci = c /\ resp[r] = "ok" => e \notin known[r]

(* Cardinality: an edge respects all those that were there when it was     *)
(* asked for.                                                              *)
CardinalityKept ==
  \A d, e \in Edges(stored) : (d # e /\ op[d].rel = op[e].rel /\ d \in known[e]) =>
    LET card == RelDef[op[e].rel].card IN
    /\ card \in {"one_to_one", "many_to_one"} => op[d].from # op[e].from
    /\ card \in {"one_to_one", "one_to_many"} => op[d].to # op[e].to

(* a depends on b through k edges of these things.                         *)
DependsBy(things, a, b, k) ==
  \E p \in [0..k -> Ci] :
    p[0] = a /\ p[k] = b /\ \A i \in 1..k : <<p[i - 1], p[i]>> \in Dependencies(things)

(* A dependency closes no cycle of at most graph_max_depth other edges     *)
(* with those that were there when it was asked for (loops, which a type   *)
(* may allow, are left aside).                                             *)
NoCycleClosed ==
  \A e \in Edges(stored) : RelDef[op[e].rel].dependency /\ op[e].from # op[e].to =>
    \A k \in 1..MaxDepth : ~DependsBy(known[e] \cap stored, op[e].to, op[e].from, k)

(* "The dependency graph stays a DAG": there is no set of CIs each of      *)
(* which depends on another of the set.                                    *)
DependenciesAcyclic ==
  \A S \in SUBSET Ci :
    (\A a \in S : \E b \in S \ {a} : <<a, b>> \in Dependencies(stored)) => S = {}
=============================================================================
