------------------------------ MODULE Reconcile -----------------------------
(***************************************************************************)
(* Discovery runs: DiscoveryService.run (src/cmdboss/discovery/service.py) *)
(* and Reconciler.reconcile (discovery/reconciler.py).  A run takes what a *)
(* provider found in one source and makes the CMDB agree with it.          *)
(*                                                                         *)
(* Every call into the repositories is one step here: what happens inside  *)
(* such a call, and between two of them, is the subject of CIStore and     *)
(* RelGraph.  A call may be refused (an AppError goes into the report) or  *)
(* raise (the run fails).  Users link CIs at any time; there is one        *)
(* relationship type.                                                      *)
(***************************************************************************)
EXTENDS Naturals, FiniteSets

CONSTANTS Run, Source,
          Item, TypeOf,  \* external ids, and the CI type of each
          Id,            \* CI ids; as many creations occur
          Manual,        \* the CIs that users made
          Val,           \* contents of a CI
          Links,         \* the edges a provider may report
          Policies,      \* the on_missing policies that occur
          OnePerSource,  \* does a run of a source start only when no other runs
          None, Gone

VARIABLES
  cis,    \* cis[c]: the CI stored under c, None before, Gone after
  edges,  \* the edges, each with the source that owns it
  run,    \* run[r]: the state of discovery run r
  prior   \* prior[s]: the last run of s, if it reported no error

vars == <<cis, edges, run, prior>>

Snapshots == UNION {[S -> Val] : S \in SUBSET Item}
EmptySnapshot == [x \in {} |-> None]
Ci == [source : Source \cup {None}, item : Item \cup {None}, val : Val \cup {None},
       status : {"present", "missing"}]
Edge == [from : Id, to : Id, source : Source \cup {None}]

ASSUME ReconcileAssumption ==
  /\ Links \subseteq Item \X Item
  /\ Manual \subseteq Id
  /\ Policies \subseteq {"delete", "mark"}
  /\ OnePerSource \in BOOLEAN
  /\ DOMAIN TypeOf = Item
  /\ None # Gone /\ {None, Gone} \cap (Id \cup Source \cup Item \cup Val \cup Ci) = {}

Stored == {c \in Id : cis[c] \notin {None, Gone}}
Owned(s) == {c \in Stored : cis[c].source = s}
Joined(a, b) == \E e \in edges : e.from = a /\ e.to = b
Touching(c) == {e \in edges : c \in {e.from, e.to}}

NewRun ==
  [step |-> "idle", status |-> "none", source |-> None, policy |-> "mark",
   items |-> EmptySnapshot, links |-> {},     \* the provider's result
   types |-> {}, todo |-> {}, stale |-> {},   \* what is left to do
   toLink |-> {}, oldEdges |-> {},
   got |-> [x \in Item |-> None],             \* extid_to_ciid
   keys |-> {},                               \* desired_keys
   errors |-> FALSE,                          \* are there errors in the report
   rerun |-> FALSE,                           \* does it repeat the run before it
   bumped |-> {}]                             \* CIs created, deleted, or revised by r

Init ==
  /\ cis = [c \in Id |-> IF c \in Manual
              THEN [source |-> None, item |-> None, val |-> None, status |-> "present"]
              ELSE None]
  /\ edges = {}
  /\ run = [r \in Run |-> NewRun]
  /\ prior = [s \in Source |-> None]

Active(r) == run[r].step \notin {"idle", "over"}

(* run: the run record is inserted and the provider answers.               *)
Start(r, s, policy, items, links) ==
  /\ run[r].step = "idle"
  /\ OnePerSource => \A q \in Run : Active(q) => run[q].source # s
  /\ run' = [run EXCEPT ![r] = [@ EXCEPT
       !.step = "items", !.status = "running", !.source = s, !.policy = policy,
       !.items = items, !.links = links,
       !.types = {TypeOf[x] : x \in DOMAIN items}, !.toLink = links,
       !.rerun = /\ prior[s] # None
                 /\ run[prior[s]].items = items /\ run[prior[s]].links = links
                 /\ run[prior[s]].policy = policy]]
  /\ prior' = [prior EXCEPT ![s] = None]
  /\ UNCHANGED <<cis, edges>>

Refuse(r, done) ==
  /\ run' = [run EXCEPT ![r] = [done EXCEPT !.errors = TRUE]]
  /\ UNCHANGED <<cis, edges, prior>>

(***************************************************************************)
(* CIs, one type after the other.                                          *)
(***************************************************************************)
Between(r) == run[r].step = "items" /\ run[r].todo = {} /\ run[r].stale = {}
OfType(t, S) == {x \in S : TypeOf[x] = t}

(* Fault: iter_source does not ask for the source.                         *)
OpenTypeOfAnySource(r, t) ==
  /\ Between(r) /\ t \in run[r].types
  /\ LET desired == OfType(t, DOMAIN run[r].items)
         existing == {c \in Stored \ Manual : TypeOf[cis[c].item] = t}
     IN run' = [run EXCEPT ![r].types = @ \ {t}, ![r].todo = desired,
          ![r].stale = {c \in existing : cis[c].item \notin desired}]
  /\ UNCHANGED <<cis, edges, prior>>

(* Fault: "if ext_id in desired: continue" is left out.                     *)
OpenTypeSweepsAll(r, t) ==
  /\ Between(r) /\ t \in run[r].types
  /\ run' = [run EXCEPT ![r].types = @ \ {t},
       ![r].todo = OfType(t, DOMAIN run[r].items),
       ![r].stale = {c \in Owned(run[r].source) : TypeOf[cis[c].item] = t}]
  /\ UNCHANGED <<cis, edges, prior>>

(* iter_source, before any item of the type is applied.  It keeps one CI   *)
(* per external id.                                                        *)
OpenType(r, t) ==
  /\ Between(r) /\ t \in run[r].types
  /\ LET desired == OfType(t, DOMAIN run[r].items)
         existing == {c \in Owned(run[r].source) : TypeOf[cis[c].item] = t}
     IN \E kept \in SUBSET existing :
          /\ \A c \in existing : \E d \in kept : cis[c].item = cis[d].item
          /\ \A c, d \in kept : cis[c].item = cis[d].item => c = d
          /\ run' = [run EXCEPT ![r].types = @ \ {t}, ![r].todo = desired,
               ![r].stale = {c \in kept : cis[c].item \notin desired}]
  /\ UNCHANGED <<cis, edges, prior>>

(* apply_discovery: created, unchanged or updated; or refused.             *)
Ours(r, x, c) == cis[c] = [source |-> run[r].source, item |-> x,
                           val |-> run[r].items[x], status |-> "present"]

ApplyItem(r, x) ==
  LET found == {c \in Owned(run[r].source) : cis[c].item = x}
      done == [run[r] EXCEPT !.todo = @ \ {x}]
  IN
  /\ x \in run[r].todo
  /\ \/ Refuse(r, done)
     \/ \E c \in IF found # {} THEN found ELSE {d \in Id : cis[d] = None} :
          /\ cis' = [cis EXCEPT ![c] = [source |-> run[r].source, item |-> x,
                                        val |-> run[r].items[x], status |-> "present"]]
          /\ run' = [run EXCEPT ![r] = [done EXCEPT
               !.got[x] = c,
               !.bumped = IF c \in found /\ cis[c].val = run[r].items[x]
                            THEN @ ELSE @ \cup {c}]]
          /\ UNCHANGED <<edges, prior>>

(* delete with detach=True, or mark_missing, of a CI that may have gone.   *)
SweepItem(r, c) ==
  LET done == [run[r] EXCEPT !.stale = @ \ {c}]
      bumped == [done EXCEPT !.bumped = @ \cup {c}]
  IN
  /\ run[r].todo = {} /\ c \in run[r].stale
  /\ \/ Refuse(r, done)
     \/ /\ run[r].policy = "delete" /\ c \in Stored
        /\ cis' = [cis EXCEPT ![c] = Gone]
        /\ edges' = edges \ Touching(c)
        /\ run' = [run EXCEPT ![r] = bumped]
        /\ UNCHANGED prior
     \/ /\ run[r].policy = "mark"
        /\ IF c \in Stored
             THEN /\ cis' = [cis EXCEPT ![c].status = "missing"]
                  /\ run' = [run EXCEPT ![r] = bumped]
             ELSE UNCHANGED cis /\ run' = [run EXCEPT ![r] = done]
        /\ UNCHANGED <<edges, prior>>

(***************************************************************************)
(* _reconcile_edges.                                                       *)
(***************************************************************************)
ItemsDone(r) == Between(r) /\ run[r].types = {}

Resolved(r, link) == run[r].got[link[1]] # None /\ run[r].got[link[2]] # None

(* Fault: an edge is desired before its ends are resolved.                 *)
LinkUnresolved(r, link) ==
  /\ ItemsDone(r) /\ link \in run[r].toLink
  /\ Refuse(r, [run[r] EXCEPT
       !.toLink = @ \ {link},
       !.keys = @ \cup {<<run[r].got[link[1]], run[r].got[link[2]]>>}])

(* create_edge: created, a duplicate (whoever owns it), or refused.        *)
Link(r, link) ==
  LET key == <<run[r].got[link[1]], run[r].got[link[2]]>>
      left == [run[r] EXCEPT !.toLink = @ \ {link}]
      done == [left EXCEPT !.keys = @ \cup {key}]
  IN
  /\ ItemsDone(r) /\ link \in run[r].toLink
  /\ \/ ~Resolved(r, link) /\ Refuse(r, left)
     \/ /\ Resolved(r, link)
        /\ \/ Refuse(r, done)
           \/ /\ {key[1], key[2]} \subseteq Stored
              /\ edges' = IF Joined(key[1], key[2]) THEN edges
                          ELSE edges \cup {[from |-> key[1], to |-> key[2],
                                            source |-> run[r].source]}
              /\ run' = [run EXCEPT ![r] = done]
              /\ UNCHANGED <<cis, prior>>

(* Fault: the edges to delete are those with no desired CI at either end.  *)
ListEdgesByEnds(r) ==
  /\ ItemsDone(r) /\ run[r].toLink = {}
  /\ LET known == {run[r].got[x] : x \in Item} IN
     run' = [run EXCEPT ![r].step = "edges", ![r].oldEdges =
       {e \in edges : e.source = run[r].source /\ {e.from, e.to} \cap known = {}}]
  /\ UNCHANGED <<cis, edges, prior>>

(* iter_source_edges, less the desired keys.                               *)
ListEdges(r) ==
  /\ ItemsDone(r) /\ run[r].toLink = {}
  /\ run' = [run EXCEPT ![r].step = "edges", ![r].oldEdges =
       {e \in edges : e.source = run[r].source /\ <<e.from, e.to>> \notin run[r].keys}]
  /\ UNCHANGED <<cis, edges, prior>>

(* delete_edge; an edge that has gone is an error like any other.          *)
Unlink(r, e) ==
  LET done == [run[r] EXCEPT !.oldEdges = @ \ {e}] IN
  /\ e \in run[r].oldEdges
  /\ \/ Refuse(r, done)
     \/ /\ e \in edges
        /\ edges' = edges \ {e}
        /\ run' = [run EXCEPT ![r] = done]
        /\ UNCHANGED <<cis, prior>>

(***************************************************************************)
(* The end of a run.                                                       *)
(***************************************************************************)
(* The run's locals go; its record and what it asked for stay.             *)
Over(r, status) ==
  run' = [run EXCEPT ![r] = [NewRun EXCEPT
    !.step = "over", !.status = status, !.source = run[r].source, !.policy = run[r].policy,
    !.items = run[r].items, !.links = run[r].links, !.errors = run[r].errors,
    !.rerun = run[r].rerun, !.bumped = run[r].bumped]]

Finish(r) ==
  /\ run[r].step = "edges" /\ run[r].oldEdges = {}
  /\ Over(r, "completed")
  /\ prior' = [prior EXCEPT ![run[r].source] = IF run[r].errors THEN None ELSE r]
  /\ UNCHANGED <<cis, edges>>

(* An exception that is no AppError fails the run; one that is no          *)
(* Exception (cancellation), or the worker's death, leaves it running.     *)
Abort(r) ==
  /\ Active(r)
  /\ \E status \in {"failed", "running"} : Over(r, status)
  /\ UNCHANGED <<cis, edges, prior>>

(* A user links two CIs.                                                   *)
UserLink(a, b) ==
  /\ {a, b} \subseteq Stored /\ a # b /\ ~Joined(a, b)
  /\ edges' = edges \cup {[from |-> a, to |-> b, source |-> None]}
  /\ UNCHANGED <<cis, run, prior>>

Handle(r) ==
  \/ \E t \in {TypeOf[x] : x \in Item} : OpenType(r, t)
  \/ \E x \in run[r].todo : ApplyItem(r, x)
  \/ \E c \in run[r].stale : SweepItem(r, c)
  \/ \E link \in run[r].toLink : Link(r, link)
  \/ ListEdges(r)
  \/ \E e \in run[r].oldEdges : Unlink(r, e)
  \/ Finish(r)

Quiet == (\A r \in Run : ~Active(r)) /\ UNCHANGED vars

Next ==
  \/ \E r \in Run :
       \/ \E s \in Source, policy \in Policies, items \in Snapshots, links \in SUBSET Links :
            Start(r, s, policy, items, links)
       \/ Handle(r) \/ Abort(r)
  \/ \E m \in Manual, c \in Id : UserLink(m, c)
  \/ Quiet

Spec == Init /\ [][Next]_vars

(***************************************************************************)
(* Properties.                                                             *)
(***************************************************************************)
TypeOK ==
  /\ cis \in [Id -> Ci \cup {None, Gone}]
  /\ edges \subseteq Edge
  /\ prior \in [Source -> Run \cup {None}]
  /\ \A r \in Run :
       /\ run[r].step \in {"idle", "items", "edges", "over"}
       /\ run[r].status \in {"none", "running", "completed", "failed"}
       /\ run[r].source \in Source \cup {None} /\ run[r].policy \in {"delete", "mark"}
       /\ run[r].items \in Snapshots /\ run[r].links \subseteq Links
       /\ run[r].todo \subseteq DOMAIN run[r].items /\ run[r].toLink \subseteq run[r].links
       /\ run[r].stale \cup run[r].bumped \subseteq Id
       /\ run[r].got \in [Item -> Id \cup {None}]
       /\ run[r].keys \subseteq Id \X Id /\ run[r].oldEdges \subseteq edges \cup Edge

(* The CI of the source that an external id denotes.                       *)
Denotes(s, x, c) == c \in Owned(s) /\ cis[c].item = x
TypesOf(r) == {TypeOf[x] : x \in DOMAIN run[r].items}

(* A run that reported no error has made the CMDB agree with its snapshot, *)
(* and runs of other sources do not undo that: every item and every link   *)
(* it found is there, every other edge of the source is gone, and so is    *)
(* (or is marked) every other CI of the types the snapshot mentions.       *)
Converged ==
  \A s \in Source : prior[s] # None =>
    LET r == prior[s] IN
    /\ \A x \in DOMAIN run[r].items : \E c \in Id : Denotes(s, x, c) /\ Ours(r, x, c)
    /\ \A c \in Owned(s) :
         cis[c].item \notin DOMAIN run[r].items /\ TypeOf[cis[c].item] \in TypesOf(r)
           => run[r].policy = "mark" /\ cis[c].status = "missing"
    /\ \A link \in run[r].links : \E a, b \in Id :
         Denotes(s, link[1], a) /\ Denotes(s, link[2], b) /\ Joined(a, b)
    /\ \A e \in edges : e.source = s => \E link \in run[r].links :
         Denotes(s, link[1], e.from) /\ Denotes(s, link[2], e.to)

(* A run changes and deletes CIs of its source only, and edges of its      *)
(* source or of a CI it deletes.                                           *)
StaysInItsSource ==
  [][\A r \in Run : Active(r) /\ run'[r] # run[r] =>
       /\ \A c \in Stored : cis'[c] # cis[c] => cis[c].source = run[r].source
       /\ \A e \in edges \ edges' :
            e.source = run[r].source \/ cis'[e.from] = Gone \/ cis'[e.to] = Gone]_vars

(* Re-syncing is idempotent: a run that repeats a run without errors, its  *)
(* snapshot and its policy, creates, revises and deletes no CI (policy     *)
(* mark revises missing CIs every time, and leaves them to a later delete).*)
RerunIsQuiet ==
  \A r \in Run : run[r].rerun /\ run[r].policy = "delete" => run[r].bumped = {}

=============================================================================
