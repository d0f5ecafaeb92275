-------------------------- MODULE ReconcileProofs ---------------------------
(***************************************************************************)
(* What TLAPS proves of Reconcile, for any sources, items and CIs, and any *)
(* number of discovery runs.                                               *)
(*                                                                         *)
(* Base needs nothing of the runs: it types their records, keeps the store *)
(* sound, and ties what a run has still to do to its own source.  Typing   *)
(* and StaysInItsSource follow from it.  Agreed adds, where a source has   *)
(* one run at a time, what a run has found and already brought about       *)
(* (Going) and what that makes of the store once it is over (Agrees).  Its *)
(* step is proved twice: for the run that moves, action by action, and for *)
(* every other run, from the footprint of the step (Moves, OtherSource).   *)
(***************************************************************************)
EXTENDS Reconcile, TLAPS


Types == {TypeOf[x] : x \in Item}

(* A run, as a record.                                                     *)
RunState ==
  [step : {"idle", "items", "edges", "over"}, status : {"none", "running", "completed", "failed"},
   source : Source \cup {None}, policy : {"delete", "mark"}, items : Snapshots,
   links : SUBSET Links, types : SUBSET Types, todo : SUBSET Item,
   stale : SUBSET Id, toLink : SUBSET Links, oldEdges : SUBSET Edge,
   got : [Item -> Id \cup {None}], keys : SUBSET (Id \X Id), errors : BOOLEAN,
   rerun : BOOLEAN, bumped : SUBSET Id]

Typed == TypeOK /\ run \in [Run -> RunState]

(* The store by itself: edges join stored CIs, those of a source CIs of    *)
(* the source, and a source has one CI for an external id.                 *)
Sound ==
  /\ \A e \in edges :
       /\ e.from \in Stored /\ e.to \in Stored
       /\ e.source # None => cis[e.from].source = e.source /\ cis[e.to].source = e.source
  /\ \A c \in Stored : cis[c].source # None => cis[c].item \in Item
  /\ \A c, d \in Stored :
       cis[c].source # None /\ cis[c].source = cis[d].source /\ cis[c].item = cis[d].item => c = d

(* What a run has still to do concerns its source and nothing it found.    *)
Planned(r) ==
  /\ run[r].step = "idle" => run[r] = NewRun
  /\ Active(r) => run[r].source \in Source
  /\ \A c \in run[r].stale :
       \/ cis[c] = Gone
       \/ c \in Owned(run[r].source) /\ cis[c].item \notin DOMAIN run[r].items
  /\ \A x \in Item : run[r].got[x] # None =>
       \/ cis[run[r].got[x]] = Gone
       \/ run[r].got[x] \in Owned(run[r].source) /\ cis[run[r].got[x]].item = x
  /\ \A e \in run[r].oldEdges :
       e.source = run[r].source /\ <<e.from, e.to>> \notin run[r].keys
  /\ run[r].types \subseteq TypesOf(r)
  /\ \A x \in run[r].todo : TypeOf[x] \notin run[r].types
  /\ run[r].oldEdges # {} => run[r].step = "edges"
  /\ run[r].step \in {"edges", "over"} =>
       run[r].todo = {} /\ run[r].stale = {} /\ run[r].types = {} /\ run[r].toLink = {}

Base == Typed /\ Sound /\ \A r \in Run : Planned(r)

(* One run per source at a time, and a source whose last run is done and   *)
(* without errors has none.                                                *)
Alone ==
  /\ \A q, r \in Run : Active(q) /\ Active(r) /\ run[q].source = run[r].source => q = r
  /\ \A s \in Source : prior[s] # None =>
       /\ run[prior[s]].source = s /\ run[prior[s]].step = "over"
       /\ \A q \in Run : Active(q) => run[q].source # s

(* What a run has found, and what it has already brought about unless it   *)
(* has met an error.                                                       *)
Found(r) ==
  /\ \A x \in Item : run[r].got[x] # None =>
       /\ x \in DOMAIN run[r].items /\ x \notin run[r].todo /\ TypeOf[x] \notin run[r].types
       /\ Ours(r, x, run[r].got[x])
  /\ \A k \in run[r].keys : \E l \in run[r].links :
       Resolved(r, l) /\ k = <<run[r].got[l[1]], run[r].got[l[2]]>>

Done(r) ==
  /\ \A x \in DOMAIN run[r].items :
       TypeOf[x] \notin run[r].types /\ x \notin run[r].todo => run[r].got[x] # None
  /\ \A c \in Owned(run[r].source) :
       /\ cis[c].item \notin DOMAIN run[r].items
       /\ TypeOf[cis[c].item] \in TypesOf(r) \ run[r].types
       => c \in run[r].stale \/ (run[r].policy = "mark" /\ cis[c].status = "missing")
  /\ \A l \in run[r].links \ run[r].toLink :
       /\ Resolved(r, l) /\ <<run[r].got[l[1]], run[r].got[l[2]]>> \in run[r].keys
       /\ Joined(run[r].got[l[1]], run[r].got[l[2]])
  /\ run[r].step = "edges" => \A e \in edges :
       e.source = run[r].source => <<e.from, e.to>> \in run[r].keys \/ e \in run[r].oldEdges

(* A run that repeats one without errors finds all in place.               *)
InPlace(r) ==
  /\ run[r].bumped = {} /\ run[r].stale = {}
  /\ \A x \in DOMAIN run[r].items : \E c \in Id : Ours(r, x, c)
  /\ \A c \in Owned(run[r].source) :
       TypeOf[cis[c].item] \in TypesOf(r) => cis[c].item \in DOMAIN run[r].items

Going(r) ==
  /\ Found(r)
  /\ ~run[r].errors => Done(r)
  /\ run[r].rerun /\ run[r].policy = "delete" => InPlace(r)

Progress == \A r \in Run : Active(r) => Going(r)

-----------------------------------------------------------------------------
(* Runs as records.                                                        *)
LEMMA SnapshotType ==
  ASSUME NEW items \in Snapshots
  PROVE  DOMAIN items \subseteq Item /\ \A x \in DOMAIN items : items[x] \in Val
BY DEF Snapshots

LEMMA RunType ==
  ASSUME Typed, NEW r \in Run
  PROVE  /\ run[r] \in RunState
         /\ run[r].step \in {"idle", "items", "edges", "over"}
         /\ run[r].source \in Source \cup {None} /\ run[r].policy \in {"delete", "mark"}
         /\ run[r].items \in Snapshots /\ run[r].links \subseteq Links
         /\ run[r].types \subseteq Types
         /\ run[r].todo \subseteq DOMAIN run[r].items /\ run[r].stale \subseteq Id
         /\ run[r].toLink \subseteq run[r].links /\ run[r].oldEdges \subseteq Edge
         /\ run[r].got \in [Item -> Id \cup {None}] /\ run[r].keys \subseteq Id \X Id
         /\ run[r].errors \in BOOLEAN /\ run[r].rerun \in BOOLEAN
         /\ run[r].bumped \subseteq Id
<1>1. run[r] \in RunState
  BY DEF Typed
<1>2. run[r].todo \subseteq DOMAIN run[r].items /\ run[r].toLink \subseteq run[r].links
  BY DEF Typed, TypeOK
<1> QED BY <1>1, <1>2 DEF RunState

(* What a step does to the record of its run, and to no other.             *)
SameAim(r) ==
  /\ run'[r].source = run[r].source /\ run'[r].policy = run[r].policy
  /\ run'[r].items = run[r].items /\ run'[r].links = run[r].links
  /\ run'[r].rerun = run[r].rerun

Others(r) == \A q \in Run : q # r => run'[q] = run[q]

LEMMA NewRunType == NewRun \in RunState
<1>1. EmptySnapshot \in [{} -> Val]
  BY DEF EmptySnapshot
<1>2. EmptySnapshot \in Snapshots
  <2>1. {} \in SUBSET Item
    OBVIOUS
  <2> QED BY <1>1, <2>1 DEF Snapshots
<1>3. [x \in Item |-> None] \in [Item -> Id \cup {None}]
  OBVIOUS
<1> QED BY <1>2, <1>3 DEF NewRun, RunState

LEMMA StartRun ==
  ASSUME Typed, NEW r \in Run, Planned(r), NEW s \in Source, NEW policy \in Policies,
         NEW items \in Snapshots, NEW links \in SUBSET Links, Start(r, s, policy, items, links)
  PROVE  /\ run' \in [Run -> RunState] /\ Others(r)
         /\ run'[r].step = "items" /\ run'[r].source = s /\ run'[r].policy = policy
         /\ run'[r].items = items /\ run'[r].links = links /\ run'[r].toLink = links
         /\ run'[r].types = {TypeOf[x] : x \in DOMAIN items}
         /\ run'[r].todo = {} /\ run'[r].stale = {} /\ run'[r].oldEdges = {}
         /\ run'[r].got = [x \in Item |-> None] /\ run'[r].keys = {} /\ run'[r].bumped = {}
         /\ (run'[r].rerun <=>
               /\ prior[s] # None /\ run[prior[s]].items = items
               /\ run[prior[s]].links = links /\ run[prior[s]].policy = policy)
         /\ ~run'[r].errors
<1>1. run[r] = NewRun /\ run \in [Run -> RunState] /\ policy \in {"delete", "mark"}
  BY ReconcileAssumption DEF Start, Planned, Typed
<1> DEFINE again == /\ prior[s] # None
                    /\ run[prior[s]].items = items /\ run[prior[s]].links = links
                    /\ run[prior[s]].policy = policy
           types == {TypeOf[x] : x \in DOMAIN items}
           found == [x \in Item |-> None]
<1>2. run'[r] = [NewRun EXCEPT
       !.step = "items", !.status = "running", !.source = s, !.policy = policy,
       !.items = items, !.links = links, !.types = types, !.toLink = links, !.rerun = again]
  BY <1>1 DEF Start
<1>3. Others(r) /\ again \in BOOLEAN
  BY <1>1 DEF Start, Others
<1>4. types \in SUBSET Types /\ found \in [Item -> Id \cup {None}]
  BY SnapshotType DEF Types
<1>5. NewRun =
  [step |-> "idle", status |-> "none", source |-> None, policy |-> "mark",
   items |-> EmptySnapshot, links |-> {}, types |-> {}, todo |-> {}, stale |-> {},
   toLink |-> {}, oldEdges |-> {}, got |-> found, keys |-> {},
   errors |-> FALSE, rerun |-> FALSE, bumped |-> {}]
  BY Zenon DEF NewRun
<1> HIDE DEF again, types, found
<1>6. /\ run'[r].step = "items" /\ run'[r].source = s /\ run'[r].policy = policy
      /\ run'[r].items = items /\ run'[r].links = links /\ run'[r].toLink = links
      /\ run'[r].types = types
      /\ run'[r].todo = {} /\ run'[r].stale = {} /\ run'[r].oldEdges = {}
      /\ run'[r].got = found /\ run'[r].keys = {} /\ run'[r].bumped = {}
      /\ run'[r].rerun = again /\ run'[r].errors = FALSE
  BY <1>2, <1>5
<1>7. run'[r] \in RunState
  <2> DEFINE begun == [NewRun EXCEPT
        !.step = "items", !.status = "running", !.source = s, !.policy = policy]
             asked == [begun EXCEPT !.items = items, !.links = links, !.types = types]
  <2>1. begun \in RunState
    BY <1>1, NewRunType DEF RunState
  <2>2. asked \in RunState
    BY <2>1, <1>4 DEF RunState
  <2>3. PICK b \in BOOLEAN : b = again
    BY <1>3
  <2>4. run'[r] = [asked EXCEPT !.toLink = links, !.rerun = b]
    BY <1>2, <2>3
  <2> HIDE DEF asked
  <2> QED BY <2>2, <2>4 DEF RunState
<1>8. run' \in [Run -> RunState]
  BY <1>1, <1>3, <1>7 DEF Start, Others
<1> QED BY <1>3, <1>6, <1>8 DEF again, types, found

LEMMA OpenTypeRun ==
  ASSUME Typed, NEW r \in Run, NEW t, OpenType(r, t)
  PROVE  /\ run' \in [Run -> RunState] /\ Others(r) /\ SameAim(r)
         /\ run[r].step = "items" /\ run'[r].step = "items" /\ t \in run[r].types
         /\ run[r].todo = {} /\ run[r].stale = {}
         /\ run'[r].types = run[r].types \ {t}
         /\ run'[r].todo = OfType(t, DOMAIN run[r].items)
         /\ \A c \in run'[r].stale :
              /\ c \in Owned(run[r].source) /\ TypeOf[cis[c].item] = t
              /\ cis[c].item \notin run'[r].todo
         /\ \A c \in Owned(run[r].source) :
              TypeOf[cis[c].item] = t /\ cis[c].item \notin run'[r].todo =>
                \E d \in run'[r].stale : cis[d].item = cis[c].item
         /\ run'[r].toLink = run[r].toLink /\ run'[r].oldEdges = run[r].oldEdges
         /\ run'[r].got = run[r].got /\ run'[r].keys = run[r].keys
         /\ run'[r].errors = run[r].errors /\ run'[r].bumped = run[r].bumped
<1> DEFINE desired == OfType(t, DOMAIN run[r].items)
           existing == {c \in Owned(run[r].source) : TypeOf[cis[c].item] = t}
<1>1. run[r] \in RunState /\ run \in [Run -> RunState] /\ DOMAIN run[r].items \subseteq Item
  BY RunType, SnapshotType DEF Typed
<1>2. /\ run[r].step = "items" /\ run[r].todo = {} /\ run[r].stale = {} /\ t \in run[r].types
  BY DEF OpenType, Between
<1>3. PICK kept \in SUBSET existing :
        /\ \A c \in existing : \E d \in kept : cis[c].item = cis[d].item
        /\ run' = [run EXCEPT ![r].types = @ \ {t}, ![r].todo = desired,
             ![r].stale = {c \in kept : cis[c].item \notin desired}]
  BY DEF OpenType
<1> DEFINE sweep == {c \in kept : cis[c].item \notin desired}
<1>4. run' = [run EXCEPT ![r] =
               [run[r] EXCEPT !.types = @ \ {t}, !.todo = desired, !.stale = sweep]]
  BY <1>1, <1>3
<1>5. desired \in SUBSET Item /\ sweep \in SUBSET Id
  BY <1>1 DEF OfType, Owned, Stored
<1>6. /\ \A c \in sweep : c \in existing /\ cis[c].item \notin desired
      /\ \A c \in existing : cis[c].item \notin desired =>
           \E d \in sweep : cis[d].item = cis[c].item
  BY <1>3
<1> HIDE DEF desired, sweep
<1>7. run'[r] = [run[r] EXCEPT !.types = @ \ {t}, !.todo = desired, !.stale = sweep]
  BY <1>1, <1>4
<1>8. Others(r)
  BY <1>1, <1>4 DEF Others
<1>9. run'[r] \in RunState
  <2> DEFINE types == run[r].types \ {t}
             opened == [run[r] EXCEPT !.types = types, !.todo = desired]
  <2>1. types \in SUBSET Types
    BY <1>1 DEF RunState
  <2>2. opened \in RunState
    BY <1>1, <1>5, <2>1 DEF RunState
  <2>3. run'[r] = [opened EXCEPT !.stale = sweep]
    BY <1>1, <1>7 DEF RunState
  <2> HIDE DEF opened
  <2> QED BY <1>5, <2>2, <2>3 DEF RunState
<1>10. run' \in [Run -> RunState]
  BY <1>1, <1>4, <1>9
<1>11. SameAim(r)
  BY <1>1, <1>7 DEF SameAim, RunState
<1>12. /\ run'[r].step = run[r].step /\ run'[r].types = run[r].types \ {t}
       /\ run'[r].todo = desired /\ run'[r].stale = sweep
       /\ run'[r].toLink = run[r].toLink /\ run'[r].oldEdges = run[r].oldEdges
       /\ run'[r].got = run[r].got /\ run'[r].keys = run[r].keys
       /\ run'[r].errors = run[r].errors /\ run'[r].bumped = run[r].bumped
  BY <1>1, <1>7 DEF RunState
<1> QED BY <1>2, <1>6, <1>8, <1>10, <1>11, <1>12 DEF desired

LEMMA OneRun ==
  ASSUME run \in [Run -> RunState], NEW r \in Run, NEW next \in RunState,
         run' = [run EXCEPT ![r] = next]
  PROVE  run' \in [Run -> RunState] /\ Others(r) /\ run'[r] = next
BY DEF Others

(* A refused call: the item is off the list, and the report has an error.  *)
Refused == cis' = cis /\ edges' = edges /\ prior' = prior

(* The item is stored under c, the CI it had or else a new one.            *)
Applied(r, x, c) ==
  /\ \/ c \in Owned(run[r].source) /\ cis[c].item = x
     \/ cis[c] = None /\ \A d \in Owned(run[r].source) : cis[d].item # x
  /\ cis' = [cis EXCEPT ![c] = [source |-> run[r].source, item |-> x,
                                val |-> run[r].items[x], status |-> "present"]]
  /\ edges' = edges /\ prior' = prior
  /\ run'[r].errors = run[r].errors
  /\ run'[r].got = [run[r].got EXCEPT ![x] = c]
  /\ run'[r].bumped = run[r].bumped \/ run'[r].bumped = run[r].bumped \cup {c}
  /\ cis[c] # None /\ cis[c].val = run[r].items[x] => run'[r].bumped = run[r].bumped

LEMMA ApplyRun ==
  ASSUME Typed, NEW r \in Run, NEW x, ApplyItem(r, x)
  PROVE  /\ run' \in [Run -> RunState] /\ Others(r) /\ SameAim(r)
         /\ x \in run[r].todo /\ x \in DOMAIN run[r].items /\ x \in Item
         /\ run'[r].step = run[r].step /\ run'[r].types = run[r].types
         /\ run'[r].todo = run[r].todo \ {x} /\ run'[r].stale = run[r].stale
         /\ run'[r].toLink = run[r].toLink /\ run'[r].oldEdges = run[r].oldEdges
         /\ run'[r].keys = run[r].keys
         /\ \/ Refused /\ run'[r].errors /\ run'[r].got = run[r].got
               /\ run'[r].bumped = run[r].bumped
            \/ \E c \in Id : Applied(r, x, c)
<1> DEFINE found == {c \in Owned(run[r].source) : cis[c].item = x}
           done == [run[r] EXCEPT !.todo = @ \ {x}]
<1>1. /\ run[r] \in RunState /\ run \in [Run -> RunState] /\ x \in run[r].todo
      /\ x \in DOMAIN run[r].items /\ x \in Item
  BY RunType, SnapshotType DEF Typed, ApplyItem
<1>2. done \in RunState
  BY <1>1 DEF RunState
<1>3. /\ done.step = run[r].step /\ done.types = run[r].types /\ done.source = run[r].source
      /\ done.policy = run[r].policy /\ done.items = run[r].items /\ done.links = run[r].links
      /\ done.rerun = run[r].rerun /\ done.todo = run[r].todo \ {x}
      /\ done.stale = run[r].stale /\ done.toLink = run[r].toLink
      /\ done.oldEdges = run[r].oldEdges /\ done.keys = run[r].keys
      /\ done.got = run[r].got /\ done.errors = run[r].errors /\ done.bumped = run[r].bumped
  BY <1>1 DEF RunState
<1> HIDE DEF done
<1>4. CASE Refuse(r, done)
  <2> DEFINE next == [done EXCEPT !.errors = TRUE]
  <2>1. next \in RunState
    BY <1>2 DEF RunState
  <2>2. run' = [run EXCEPT ![r] = next] /\ Refused
    BY <1>4 DEF Refuse, Refused
  <2>3. /\ next.step = done.step /\ next.types = done.types /\ next.source = done.source
        /\ next.policy = done.policy /\ next.items = done.items /\ next.links = done.links
        /\ next.rerun = done.rerun /\ next.todo = done.todo
        /\ next.stale = done.stale /\ next.toLink = done.toLink
        /\ next.oldEdges = done.oldEdges /\ next.keys = done.keys
        /\ next.got = done.got /\ next.errors /\ next.bumped = done.bumped
    BY <1>2 DEF RunState
  <2> HIDE DEF next
  <2>4. run' \in [Run -> RunState] /\ Others(r) /\ run'[r] = next
    BY <1>1, <2>1, <2>2, OneRun
  <2>5. SameAim(r)
    BY <1>3, <2>3, <2>4 DEF SameAim
  <2> QED BY <1>1, <1>3, <2>2, <2>3, <2>4, <2>5
<1>5. CASE \E c \in IF found # {} THEN found ELSE {d \in Id : cis[d] = None} :
             /\ cis' = [cis EXCEPT ![c] = [source |-> run[r].source, item |-> x,
                                           val |-> run[r].items[x], status |-> "present"]]
             /\ run' = [run EXCEPT ![r] = [done EXCEPT
                  !.got[x] = c,
                  !.bumped = IF c \in found /\ cis[c].val = run[r].items[x]
                               THEN @ ELSE @ \cup {c}]]
             /\ UNCHANGED <<edges, prior>>
  <2>1. PICK c \in Id :
          /\ \/ c \in found
             \/ cis[c] = None /\ found = {}
          /\ cis' = [cis EXCEPT ![c] = [source |-> run[r].source, item |-> x,
                                        val |-> run[r].items[x], status |-> "present"]]
          /\ run' = [run EXCEPT ![r] = [done EXCEPT
               !.got[x] = c,
               !.bumped = IF c \in found /\ cis[c].val = run[r].items[x]
                            THEN @ ELSE @ \cup {c}]]
          /\ UNCHANGED <<edges, prior>>
    <3>1. found \subseteq Id
      BY DEF Owned, Stored
    <3> QED BY <1>5, <3>1
  <2> DEFINE got == [run[r].got EXCEPT ![x] = c]
             bumped == IF c \in found /\ cis[c].val = run[r].items[x]
                         THEN run[r].bumped ELSE run[r].bumped \cup {c}
             next == [done EXCEPT !.got = got, !.bumped = bumped]
  <2>2. got \in [Item -> Id \cup {None}] /\ bumped \in SUBSET Id
    <3>1. run[r].got \in [Item -> Id \cup {None}] /\ run[r].bumped \in SUBSET Id
      BY <1>1 DEF RunState
    <3> QED BY <3>1
  <2>3. run' = [run EXCEPT ![r] = next]
    BY <2>1, <1>3, <1>2 DEF RunState
  <2>4. /\ bumped = run[r].bumped \/ bumped = run[r].bumped \cup {c}
        /\ cis[c] # None /\ cis[c].val = run[r].items[x] => bumped = run[r].bumped
    BY <2>1
  <2> HIDE DEF got, bumped
  <2>5. next \in RunState
    BY <1>2, <2>2 DEF RunState
  <2>6. /\ next.step = done.step /\ next.types = done.types /\ next.source = done.source
        /\ next.policy = done.policy /\ next.items = done.items /\ next.links = done.links
        /\ next.rerun = done.rerun /\ next.todo = done.todo
        /\ next.stale = done.stale /\ next.toLink = done.toLink
        /\ next.oldEdges = done.oldEdges /\ next.keys = done.keys
        /\ next.got = got /\ next.errors = done.errors /\ next.bumped = bumped
    BY <1>2 DEF RunState
  <2> HIDE DEF next
  <2>7. run' \in [Run -> RunState] /\ Others(r) /\ run'[r] = next
    BY <1>1, <2>3, <2>5, OneRun
  <2>8. SameAim(r)
    BY <1>3, <2>6, <2>7 DEF SameAim
  <2>9. \/ c \in Owned(run[r].source) /\ cis[c].item = x
        \/ cis[c] = None /\ \A d \in Owned(run[r].source) : cis[d].item # x
    BY <2>1
  <2>10. Applied(r, x, c)
    BY <1>3, <2>1, <2>4, <2>6, <2>7, <2>9 DEF got, Applied
  <2> QED BY <1>1, <1>3, <2>6, <2>7, <2>8, <2>10
<1> QED BY <1>4, <1>5 DEF ApplyItem, done

LEMMA SweepRun ==
  ASSUME Typed, NEW r \in Run, NEW c, SweepItem(r, c)
  PROVE  /\ run' \in [Run -> RunState] /\ Others(r) /\ SameAim(r)
         /\ c \in run[r].stale /\ c \in Id /\ run[r].todo = {}
         /\ run'[r].step = run[r].step /\ run'[r].types = run[r].types
         /\ run'[r].todo = {} /\ run'[r].stale = run[r].stale \ {c}
         /\ run'[r].toLink = run[r].toLink /\ run'[r].oldEdges = run[r].oldEdges
         /\ run'[r].keys = run[r].keys /\ run'[r].got = run[r].got
         /\ prior' = prior
         /\ \/ Refused /\ run'[r].errors
            \/ /\ run'[r].errors = run[r].errors /\ c \in Stored /\ run[r].policy = "delete"
               /\ cis' = [cis EXCEPT ![c] = Gone] /\ edges' = edges \ Touching(c)
            \/ /\ run'[r].errors = run[r].errors /\ c \in Stored /\ run[r].policy = "mark"
               /\ cis' = [cis EXCEPT ![c].status = "missing"] /\ edges' = edges
            \/ /\ run'[r].errors = run[r].errors /\ c \notin Stored /\ Refused
<1> DEFINE done == [run[r] EXCEPT !.stale = @ \ {c}]
           bumped == [done EXCEPT !.bumped = @ \cup {c}]
           refused == [done EXCEPT !.errors = TRUE]
           Moved(next) ==
             /\ next.step = run[r].step /\ next.types = run[r].types
             /\ next.source = run[r].source /\ next.policy = run[r].policy
             /\ next.items = run[r].items /\ next.links = run[r].links
             /\ next.rerun = run[r].rerun /\ next.todo = run[r].todo
             /\ next.stale = run[r].stale \ {c} /\ next.toLink = run[r].toLink
             /\ next.oldEdges = run[r].oldEdges /\ next.keys = run[r].keys
             /\ next.got = run[r].got
<1>1. /\ run[r] \in RunState /\ run \in [Run -> RunState] /\ c \in run[r].stale
      /\ c \in Id /\ run[r].todo = {}
  BY RunType DEF Typed, SweepItem
<1>2. done \in RunState /\ bumped \in RunState /\ refused \in RunState
  BY <1>1 DEF RunState
<1>3. /\ Moved(done) /\ done.errors = run[r].errors
      /\ Moved(bumped) /\ bumped.errors = run[r].errors
      /\ Moved(refused) /\ refused.errors
  BY <1>1 DEF RunState
<1>4. \/ run' = [run EXCEPT ![r] = refused] /\ Refused
      \/ /\ run[r].policy = "delete" /\ c \in Stored
         /\ cis' = [cis EXCEPT ![c] = Gone] /\ edges' = edges \ Touching(c)
         /\ run' = [run EXCEPT ![r] = bumped] /\ prior' = prior
      \/ /\ run[r].policy = "mark" /\ c \in Stored
         /\ cis' = [cis EXCEPT ![c].status = "missing"]
         /\ run' = [run EXCEPT ![r] = bumped] /\ edges' = edges /\ prior' = prior
      \/ c \notin Stored /\ run' = [run EXCEPT ![r] = done] /\ Refused
  BY Zenon DEF SweepItem, Refuse, Refused
<1> HIDE DEF done, bumped, refused
<1>5. ASSUME NEW next \in RunState, Moved(next), run' = [run EXCEPT ![r] = next]
      PROVE  /\ run' \in [Run -> RunState] /\ Others(r) /\ SameAim(r)
             /\ Moved(run'[r]) /\ run'[r] = next
  <2>1. run' \in [Run -> RunState] /\ Others(r) /\ run'[r] = next
    BY <1>1, <1>5, OneRun
  <2> QED BY <1>5, <2>1 DEF SameAim
<1>6. CASE run' = [run EXCEPT ![r] = refused] /\ Refused
  BY <1>1, <1>2, <1>3, <1>5, <1>6 DEF Refused
<1>7. CASE /\ run[r].policy = "delete" /\ c \in Stored
           /\ cis' = [cis EXCEPT ![c] = Gone] /\ edges' = edges \ Touching(c)
           /\ run' = [run EXCEPT ![r] = bumped] /\ prior' = prior
  BY <1>1, <1>2, <1>3, <1>5, <1>7
<1>8. CASE /\ run[r].policy = "mark" /\ c \in Stored
           /\ cis' = [cis EXCEPT ![c].status = "missing"]
           /\ run' = [run EXCEPT ![r] = bumped] /\ edges' = edges /\ prior' = prior
  BY <1>1, <1>2, <1>3, <1>5, <1>8
<1>9. CASE c \notin Stored /\ run' = [run EXCEPT ![r] = done] /\ Refused
  BY <1>1, <1>2, <1>3, <1>5, <1>9 DEF Refused
<1> QED BY <1>4, <1>6, <1>7, <1>8, <1>9

LEMMA LinkRun ==
  ASSUME Typed, NEW r \in Run, NEW link, Link(r, link)
  PROVE  /\ run' \in [Run -> RunState] /\ Others(r) /\ SameAim(r)
         /\ ItemsDone(r) /\ link \in run[r].toLink
         /\ run'[r].step = run[r].step /\ run'[r].types = run[r].types
         /\ run'[r].todo = run[r].todo /\ run'[r].stale = run[r].stale
         /\ run'[r].toLink = run[r].toLink \ {link} /\ run'[r].oldEdges = run[r].oldEdges
         /\ run'[r].got = run[r].got /\ run'[r].bumped = run[r].bumped
         /\ cis' = cis /\ prior' = prior
         /\ \/ Refused /\ run'[r].errors
               /\ \/ run'[r].keys = run[r].keys
                  \/ /\ Resolved(r, link)
                     /\ run'[r].keys = run[r].keys \cup
                          {<<run[r].got[link[1]], run[r].got[link[2]]>>}
            \/ /\ run'[r].errors = run[r].errors /\ Resolved(r, link)
               /\ run[r].got[link[1]] \in Stored /\ run[r].got[link[2]] \in Stored
               /\ run'[r].keys = run[r].keys \cup
                    {<<run[r].got[link[1]], run[r].got[link[2]]>>}
               /\ edges' = IF Joined(run[r].got[link[1]], run[r].got[link[2]]) THEN edges
                           ELSE edges \cup {[from |-> run[r].got[link[1]],
                                             to |-> run[r].got[link[2]],
                                             source |-> run[r].source]}
<1> DEFINE a == run[r].got[link[1]]
           b == run[r].got[link[2]]
           left == [run[r] EXCEPT !.toLink = @ \ {link}]
           done == [left EXCEPT !.keys = @ \cup {<<a, b>>}]
           leftOut == [left EXCEPT !.errors = TRUE]
           refused == [done EXCEPT !.errors = TRUE]
           Moved(next) ==
             /\ next.step = run[r].step /\ next.types = run[r].types
             /\ next.source = run[r].source /\ next.policy = run[r].policy
             /\ next.items = run[r].items /\ next.links = run[r].links
             /\ next.rerun = run[r].rerun /\ next.todo = run[r].todo
             /\ next.stale = run[r].stale /\ next.toLink = run[r].toLink \ {link}
             /\ next.oldEdges = run[r].oldEdges /\ next.got = run[r].got
             /\ next.bumped = run[r].bumped
<1>1. /\ run[r] \in RunState /\ run \in [Run -> RunState] /\ link \in run[r].toLink
      /\ link \in Item \X Item /\ ItemsDone(r)
  BY RunType, ReconcileAssumption DEF Typed, Link
<1>2. Resolved(r, link) => a \in Id /\ b \in Id
  <2>1. run[r].got \in [Item -> Id \cup {None}]
    BY RunType
  <2> QED BY <1>1, <2>1 DEF Resolved
<1>3. \/ run' = [run EXCEPT ![r] = leftOut] /\ Refused
      \/ run' = [run EXCEPT ![r] = refused] /\ Refused /\ Resolved(r, link)
      \/ /\ run' = [run EXCEPT ![r] = done] /\ Resolved(r, link) /\ a \in Stored /\ b \in Stored
         /\ edges' = IF Joined(a, b) THEN edges
                     ELSE edges \cup {[from |-> a, to |-> b, source |-> run[r].source]}
         /\ cis' = cis /\ prior' = prior
  BY DEF Link, Refuse, Refused
<1> HIDE DEF a, b
<1>4. /\ left \in RunState /\ leftOut \in RunState
      /\ Resolved(r, link) => done \in RunState /\ refused \in RunState
  <2>1. left \in RunState
    BY <1>1 DEF RunState
  <2>2. leftOut \in RunState
    BY <2>1 DEF RunState
  <2>3. ASSUME Resolved(r, link)
        PROVE  done \in RunState
    <3>1. left.keys \cup {<<a, b>>} \in SUBSET (Id \X Id)
      <4>1. left.keys \in SUBSET (Id \X Id) /\ <<a, b>> \in Id \X Id
        BY <1>2, <2>1, <2>3 DEF RunState
      <4> QED BY <4>1
    <3> DEFINE keys == left.keys \cup {<<a, b>>}
    <3>2. done = [left EXCEPT !.keys = keys]
      BY <2>1 DEF RunState
    <3> HIDE DEF keys, done
    <3> QED BY <2>1, <3>1, <3>2 DEF RunState, keys
  <2>4. Resolved(r, link) => refused \in RunState
    BY <2>3 DEF RunState
  <2> QED BY <2>1, <2>2, <2>3, <2>4
<1>5. /\ Moved(leftOut) /\ leftOut.errors /\ leftOut.keys = run[r].keys
      /\ Moved(done) /\ done.errors = run[r].errors /\ done.keys = run[r].keys \cup {<<a, b>>}
      /\ Moved(refused) /\ refused.errors /\ refused.keys = run[r].keys \cup {<<a, b>>}
  BY <1>1 DEF RunState
<1> HIDE DEF left, done, leftOut, refused
<1>6. ASSUME NEW next \in RunState, Moved(next), run' = [run EXCEPT ![r] = next]
      PROVE  /\ run' \in [Run -> RunState] /\ Others(r) /\ SameAim(r)
             /\ Moved(run'[r]) /\ run'[r] = next
  <2>1. run' \in [Run -> RunState] /\ Others(r) /\ run'[r] = next
    BY <1>1, <1>6, OneRun
  <2> QED BY <1>6, <2>1 DEF SameAim
<1>7. CASE run' = [run EXCEPT ![r] = leftOut] /\ Refused
  BY <1>1, <1>4, <1>5, <1>6, <1>7 DEF Refused
<1>8. CASE run' = [run EXCEPT ![r] = refused] /\ Refused /\ Resolved(r, link)
  BY <1>1, <1>4, <1>5, <1>6, <1>8 DEF Refused, a, b
<1>9. CASE /\ run' = [run EXCEPT ![r] = done] /\ Resolved(r, link) /\ a \in Stored /\ b \in Stored
           /\ edges' = IF Joined(a, b) THEN edges
                       ELSE edges \cup {[from |-> a, to |-> b, source |-> run[r].source]}
           /\ cis' = cis /\ prior' = prior
  BY <1>1, <1>4, <1>5, <1>6, <1>9 DEF a, b
<1> QED BY <1>3, <1>7, <1>8, <1>9

LEMMA ListEdgesRun ==
  ASSUME Typed, NEW r \in Run, ListEdges(r)
  PROVE  /\ run' \in [Run -> RunState] /\ Others(r) /\ SameAim(r)
         /\ run[r].step = "items" /\ run[r].todo = {} /\ run[r].stale = {}
         /\ run[r].types = {} /\ run[r].toLink = {}
         /\ run'[r].step = "edges" /\ run'[r].types = {} /\ run'[r].todo = {}
         /\ run'[r].stale = {} /\ run'[r].toLink = {}
         /\ \A e : e \in run'[r].oldEdges <=>
              e \in edges /\ e.source = run[r].source /\ <<e.from, e.to>> \notin run[r].keys
         /\ run'[r].got = run[r].got /\ run'[r].keys = run[r].keys
         /\ run'[r].errors = run[r].errors /\ run'[r].bumped = run[r].bumped
         /\ cis' = cis /\ edges' = edges /\ prior' = prior
<1> DEFINE old == {e \in edges : e.source = run[r].source /\ <<e.from, e.to>> \notin run[r].keys}
           next == [run[r] EXCEPT !.step = "edges", !.oldEdges = old]
<1>1. /\ run[r] \in RunState /\ run \in [Run -> RunState]
      /\ run[r].step = "items" /\ run[r].todo = {} /\ run[r].stale = {}
      /\ run[r].types = {} /\ run[r].toLink = {}
  BY RunType DEF Typed, ListEdges, ItemsDone, Between
<1>2. old \in SUBSET Edge
  BY DEF Typed, TypeOK
<1>3. run' = [run EXCEPT ![r] = next] /\ cis' = cis /\ edges' = edges /\ prior' = prior
  BY <1>1 DEF ListEdges
<1>4. \A e : e \in old <=>
        e \in edges /\ e.source = run[r].source /\ <<e.from, e.to>> \notin run[r].keys
  OBVIOUS
<1> HIDE DEF old
<1>5. next \in RunState
  BY <1>1, <1>2 DEF RunState
<1>6. run' \in [Run -> RunState] /\ Others(r) /\ run'[r] = next
  BY <1>1, <1>3, <1>5, OneRun
<1>7. /\ next.step = "edges" /\ next.types = run[r].types /\ next.source = run[r].source
      /\ next.policy = run[r].policy /\ next.items = run[r].items /\ next.links = run[r].links
      /\ next.rerun = run[r].rerun /\ next.todo = run[r].todo /\ next.stale = run[r].stale
      /\ next.toLink = run[r].toLink /\ next.oldEdges = old /\ next.got = run[r].got
      /\ next.keys = run[r].keys /\ next.errors = run[r].errors /\ next.bumped = run[r].bumped
  BY <1>1 DEF RunState
<1> QED BY <1>1, <1>3, <1>4, <1>6, <1>7 DEF SameAim

LEMMA UnlinkRun ==
  ASSUME Typed, NEW r \in Run, NEW e, Unlink(r, e)
  PROVE  /\ run' \in [Run -> RunState] /\ Others(r) /\ SameAim(r)
         /\ e \in run[r].oldEdges
         /\ run'[r].step = run[r].step /\ run'[r].types = run[r].types
         /\ run'[r].todo = run[r].todo /\ run'[r].stale = run[r].stale
         /\ run'[r].toLink = run[r].toLink /\ run'[r].oldEdges = run[r].oldEdges \ {e}
         /\ run'[r].got = run[r].got /\ run'[r].keys = run[r].keys
         /\ run'[r].bumped = run[r].bumped
         /\ cis' = cis /\ prior' = prior
         /\ \/ Refused /\ run'[r].errors
            \/ run'[r].errors = run[r].errors /\ edges' = edges \ {e}
<1> DEFINE done == [run[r] EXCEPT !.oldEdges = @ \ {e}]
           refused == [done EXCEPT !.errors = TRUE]
           Moved(next) ==
             /\ next.step = run[r].step /\ next.types = run[r].types
             /\ next.source = run[r].source /\ next.policy = run[r].policy
             /\ next.items = run[r].items /\ next.links = run[r].links
             /\ next.rerun = run[r].rerun /\ next.todo = run[r].todo
             /\ next.stale = run[r].stale /\ next.toLink = run[r].toLink
             /\ next.oldEdges = run[r].oldEdges \ {e} /\ next.keys = run[r].keys
             /\ next.got = run[r].got /\ next.bumped = run[r].bumped
<1>1. run[r] \in RunState /\ run \in [Run -> RunState] /\ e \in run[r].oldEdges
  BY RunType DEF Typed, Unlink
<1>2. done \in RunState /\ refused \in RunState
  BY <1>1 DEF RunState
<1>3. /\ Moved(done) /\ done.errors = run[r].errors
      /\ Moved(refused) /\ refused.errors
  BY <1>1 DEF RunState
<1>4. \/ run' = [run EXCEPT ![r] = refused] /\ Refused
      \/ /\ run' = [run EXCEPT ![r] = done] /\ edges' = edges \ {e}
         /\ cis' = cis /\ prior' = prior
  BY DEF Unlink, Refuse, Refused
<1> HIDE DEF done, refused
<1>5. ASSUME NEW next \in RunState, Moved(next), run' = [run EXCEPT ![r] = next]
      PROVE  /\ run' \in [Run -> RunState] /\ Others(r) /\ SameAim(r)
             /\ Moved(run'[r]) /\ run'[r] = next
  <2>1. run' \in [Run -> RunState] /\ Others(r) /\ run'[r] = next
    BY <1>1, <1>5, OneRun
  <2> QED BY <1>5, <2>1 DEF SameAim
<1>6. CASE run' = [run EXCEPT ![r] = refused] /\ Refused
  BY <1>1, <1>2, <1>3, <1>5, <1>6 DEF Refused
<1>7. CASE /\ run' = [run EXCEPT ![r] = done] /\ edges' = edges \ {e}
           /\ cis' = cis /\ prior' = prior
  BY <1>1, <1>2, <1>3, <1>5, <1>7
<1> QED BY <1>4, <1>6, <1>7

LEMMA OverRun ==
  ASSUME Typed, NEW r \in Run, NEW status \in {"failed", "running", "completed"},
         Over(r, status)
  PROVE  /\ run' \in [Run -> RunState] /\ Others(r) /\ SameAim(r)
         /\ run'[r].step = "over" /\ run'[r].types = {} /\ run'[r].todo = {}
         /\ run'[r].stale = {} /\ run'[r].toLink = {} /\ run'[r].oldEdges = {}
         /\ run'[r].got = [x \in Item |-> None] /\ run'[r].keys = {}
         /\ run'[r].errors = run[r].errors /\ run'[r].bumped = run[r].bumped
<1> DEFINE next == [NewRun EXCEPT
      !.step = "over", !.status = status, !.source = run[r].source, !.policy = run[r].policy,
      !.items = run[r].items, !.links = run[r].links, !.errors = run[r].errors,
      !.rerun = run[r].rerun, !.bumped = run[r].bumped]
           found == [x \in Item |-> None]
<1>1. run[r] \in RunState /\ run \in [Run -> RunState] /\ NewRun \in RunState
  BY RunType, NewRunType DEF Typed
<1>2. run' = [run EXCEPT ![r] = next]
  BY Zenon DEF Over
<1>3. /\ NewRun.types = {} /\ NewRun.todo = {} /\ NewRun.stale = {} /\ NewRun.toLink = {}
      /\ NewRun.oldEdges = {} /\ NewRun.got = found /\ NewRun.keys = {}
  BY DEF NewRun
<1> HIDE DEF found
<1>4. next \in RunState
  BY <1>1 DEF RunState
<1>5. /\ next.step = "over" /\ next.types = NewRun.types /\ next.source = run[r].source
      /\ next.policy = run[r].policy /\ next.items = run[r].items /\ next.links = run[r].links
      /\ next.rerun = run[r].rerun /\ next.todo = NewRun.todo /\ next.stale = NewRun.stale
      /\ next.toLink = NewRun.toLink /\ next.oldEdges = NewRun.oldEdges
      /\ next.got = NewRun.got /\ next.keys = NewRun.keys
      /\ next.errors = run[r].errors /\ next.bumped = run[r].bumped
  BY <1>1 DEF RunState
<1> HIDE DEF next
<1>6. run' \in [Run -> RunState] /\ Others(r) /\ run'[r] = next
  BY <1>1, <1>2, <1>4, OneRun
<1> QED BY <1>3, <1>5, <1>6 DEF SameAim, found

-----------------------------------------------------------------------------
(* What a step may do to the store: create CIs of source s, change or      *)
(* delete those it has, add edges of s, remove those and the edges of a CI *)
(* that it deletes.                                                        *)
CiMoves(s) ==
  \A c \in Id :
    \/ cis'[c] = cis[c]
    \/ cis[c] = None /\ cis'[c] \in Ci /\ cis'[c].source = s /\ cis'[c].item \in Item
    \/ /\ c \in Owned(s)
       /\ \/ cis'[c] = Gone
          \/ cis'[c] \in Ci /\ cis'[c].source = s /\ cis'[c].item = cis[c].item

EdgeMoves(s) ==
  /\ \A e \in edges' \ edges : e.source \in {s, None}
  /\ \A e \in edges \ edges' : e.source = s \/ cis'[e.from] = Gone \/ cis'[e.to] = Gone

Moves(s) == CiMoves(s) /\ EdgeMoves(s)

LEMMA StoredCi ==
  ASSUME Typed, NEW c \in Stored
  PROVE  c \in Id /\ cis[c] \in Ci
BY DEF Typed, TypeOK, Stored

LEMMA TypedStep ==
  ASSUME Typed, NEW r \in Run, run' \in [Run -> RunState], Others(r),
         run'[r].todo \subseteq DOMAIN run'[r].items, run'[r].toLink \subseteq run'[r].links,
         cis' \in [Id -> Ci \cup {None, Gone}], edges' \subseteq Edge,
         prior' \in [Source -> Run \cup {None}]
  PROVE  Typed'
<1>1. \A q \in Run : run'[q] \in RunState
  OBVIOUS
<1>2. ASSUME NEW q \in Run
      PROVE  /\ run'[q].step \in {"idle", "items", "edges", "over"}
             /\ run'[q].status \in {"none", "running", "completed", "failed"}
             /\ run'[q].source \in Source \cup {None} /\ run'[q].policy \in {"delete", "mark"}
             /\ run'[q].items \in Snapshots /\ run'[q].links \subseteq Links
             /\ run'[q].todo \subseteq DOMAIN run'[q].items
             /\ run'[q].toLink \subseteq run'[q].links
             /\ run'[q].stale \cup run'[q].bumped \subseteq Id
             /\ run'[q].got \in [Item -> Id \cup {None}]
             /\ run'[q].keys \subseteq Id \X Id /\ run'[q].oldEdges \subseteq edges' \cup Edge
  <2>1. run'[q].todo \subseteq DOMAIN run'[q].items /\ run'[q].toLink \subseteq run'[q].links
    BY DEF Others, Typed, TypeOK
  <2>2. run'[q] \in RunState
    BY <1>1
  <2> QED BY <2>1, <2>2 DEF RunState
<1> QED BY <1>2 DEF Typed, TypeOK

(* A run that does not step keeps to its plan whatever the store does.     *)
LEMMA StillPlanned ==
  ASSUME Typed, NEW s, CiMoves(s), NEW q \in Run, run'[q] = run[q], Planned(q)
  PROVE  Planned(q)'
<1>1. \A c \in Id : cis[c] = Gone => cis'[c] = Gone
  BY ReconcileAssumption DEF CiMoves, Owned, Stored
<1>2. ASSUME NEW t, NEW c \in Owned(t)
      PROVE  cis'[c] = Gone \/ (c \in Owned(t)' /\ cis'[c].item = cis[c].item)
  BY <1>2, ReconcileAssumption DEF CiMoves, Owned, Stored
<1>3. run[q].stale \subseteq Id /\ run[q].got \in [Item -> Id \cup {None}]
  BY RunType
<1>0. PICK t, got : t = run[q].source /\ got = run[q].got
  OBVIOUS
<1>4. \A c \in run[q].stale :
       cis'[c] = Gone \/ (c \in Owned(t)' /\ cis'[c].item \notin DOMAIN run[q].items)
  BY <1>0, <1>1, <1>2, <1>3 DEF Planned
<1>5. \A x \in Item : got[x] # None =>
       cis'[got[x]] = Gone \/ (got[x] \in Owned(t)' /\ cis'[got[x]].item = x)
  <2>1. \A x \in Item : got[x] # None => got[x] \in Id
    BY <1>0, <1>3
  <2>2. \A x \in Item : got[x] # None =>
         cis[got[x]] = Gone \/ (got[x] \in Owned(t) /\ cis[got[x]].item = x)
    BY <1>0 DEF Planned
  <2> QED BY <1>1, <1>2, <2>1, <2>2
<1>6. Owned(run[q].source)' = Owned(t)'
  BY <1>0 DEF Owned, Stored
<1> QED BY <1>0, <1>4, <1>5, <1>6 DEF Planned, Active, TypesOf

LEMMA StillOthers ==
  ASSUME Base, NEW s, CiMoves(s), NEW r \in Run, Others(r), Planned(r)'
  PROVE  \A q \in Run : Planned(q)'
BY StillPlanned DEF Base, Others

(* A step that leaves the store alone, or takes edges from it.             *)
LEMMA FewerEdges ==
  ASSUME Sound, cis' = cis, edges' \subseteq edges
  PROVE  Sound'
BY DEF Sound, Stored

LEMMA SameStore ==
  ASSUME Sound, cis' = cis, edges' = edges
  PROVE  Sound' /\ \A s : Moves(s)
BY FewerEdges DEF Moves, CiMoves, EdgeMoves

LEMMA OneMoreEdge ==
  ASSUME Sound, cis' = cis, NEW e, edges' \subseteq edges \cup {e},
         e.from \in Stored, e.to \in Stored,
         e.source # None => cis[e.from].source = e.source /\ cis[e.to].source = e.source
  PROVE  Sound'
BY DEF Sound, Stored

(* What each action does to the store, to the types, and to the plan.      *)
LEMMA StartBase ==
  ASSUME Base, NEW r \in Run, NEW s \in Source, NEW policy \in Policies,
         NEW items \in Snapshots, NEW links \in SUBSET Links, Start(r, s, policy, items, links)
  PROVE  Typed' /\ Sound' /\ Moves(s) /\ Planned(r)'
<1>1. Typed /\ Sound /\ Planned(r)
  BY DEF Base
<1>2. /\ run' \in [Run -> RunState] /\ Others(r)
      /\ run'[r].step = "items" /\ run'[r].source = s
      /\ run'[r].items = items /\ run'[r].links = links /\ run'[r].toLink = links
      /\ run'[r].types = {TypeOf[x] : x \in DOMAIN items}
      /\ run'[r].todo = {} /\ run'[r].stale = {} /\ run'[r].oldEdges = {}
      /\ run'[r].got = [x \in Item |-> None]
  BY <1>1, StartRun
<1>3. cis' = cis /\ edges' = edges /\ prior' = [prior EXCEPT ![s] = None]
  BY DEF Start
<1>4. Sound' /\ Moves(s)
  BY <1>1, <1>3, SameStore
<1>5. Typed'
  <2>1. prior' \in [Source -> Run \cup {None}] /\ cis' \in [Id -> Ci \cup {None, Gone}]
        /\ edges' \subseteq Edge
    BY <1>1, <1>3 DEF Typed, TypeOK
  <2> QED BY <1>1, <1>2, <2>1, TypedStep
<1>6. Planned(r)'
  BY <1>2 DEF Planned, Active, TypesOf
<1> QED BY <1>4, <1>5, <1>6

LEMMA OpenTypeBase ==
  ASSUME Base, NEW r \in Run, NEW t, OpenType(r, t)
  PROVE  Typed' /\ Sound' /\ Moves(run[r].source) /\ Planned(r)'
<1>1. Typed /\ Sound /\ Planned(r) /\ run[r].todo \subseteq DOMAIN run[r].items
      /\ run[r].toLink \subseteq run[r].links
  BY RunType DEF Base
<1>2. /\ run' \in [Run -> RunState] /\ Others(r) /\ SameAim(r)
      /\ run[r].step = "items" /\ run'[r].step = "items" /\ t \in run[r].types
      /\ run'[r].types = run[r].types \ {t}
      /\ run'[r].todo = OfType(t, DOMAIN run[r].items)
      /\ \A c \in run'[r].stale :
           /\ c \in Owned(run[r].source) /\ TypeOf[cis[c].item] = t
           /\ cis[c].item \notin run'[r].todo
      /\ run'[r].toLink = run[r].toLink /\ run'[r].oldEdges = run[r].oldEdges
      /\ run'[r].got = run[r].got /\ run'[r].keys = run[r].keys
  BY <1>1, OpenTypeRun
<1>3. cis' = cis /\ edges' = edges /\ prior' = prior
  BY DEF OpenType
<1>4. Sound' /\ Moves(run[r].source)
  BY <1>1, <1>3, SameStore
<1>5. run'[r].todo \subseteq DOMAIN run[r].items
  BY <1>2 DEF OfType
<1>6. Typed'
  BY <1>1, <1>2, <1>3, <1>5, TypedStep DEF SameAim, Typed, TypeOK
<1>7. Planned(r)'
  <2>1. \A c \in run'[r].stale :
          c \in Owned(run[r].source)' /\ cis'[c].item \notin DOMAIN run[r].items
    BY <1>2, <1>3 DEF Owned, Stored, OfType, SameAim
  <2>2. \A x \in Item : run'[r].got[x] # None =>
         \/ cis'[run'[r].got[x]] = Gone
         \/ run[r].got[x] \in Owned(run[r].source)' /\ cis'[run'[r].got[x]].item = x
    BY <1>1, <1>2, <1>3 DEF Planned, Owned, Stored, SameAim
  <2>3. \A x \in run'[r].todo : TypeOf[x] \notin run'[r].types
    BY <1>2 DEF OfType
  <2>4. \A e \in run'[r].oldEdges :
          e.source = run'[r].source /\ <<e.from, e.to>> \notin run'[r].keys
    BY <1>1, <1>2 DEF Planned, SameAim
  <2>5. run'[r].types \subseteq {TypeOf[x] : x \in DOMAIN run'[r].items}
        /\ run'[r].source \in Source
    BY <1>1, <1>2 DEF Planned, SameAim, TypesOf, Active
  <2> QED BY <1>1, <1>2, <2>1, <2>2, <2>3, <2>4, <2>5 DEF Planned, SameAim, TypesOf
<1> QED BY <1>4, <1>6, <1>7

LEMMA ApplyItemBase ==
  ASSUME Base, NEW r \in Run, NEW x, ApplyItem(r, x)
  PROVE  Typed' /\ Sound' /\ Moves(run[r].source) /\ Planned(r)'
<1>1. Typed /\ Sound /\ Planned(r) /\ run[r].todo \subseteq DOMAIN run[r].items
      /\ run[r].toLink \subseteq run[r].links /\ run[r].items \in Snapshots
      /\ run[r].stale \subseteq Id /\ run[r].got \in [Item -> Id \cup {None}]
  BY RunType DEF Base
<1>2. /\ run' \in [Run -> RunState] /\ Others(r) /\ SameAim(r)
      /\ x \in run[r].todo /\ x \in DOMAIN run[r].items /\ x \in Item
      /\ run'[r].step = run[r].step /\ run'[r].types = run[r].types
      /\ run'[r].todo = run[r].todo \ {x} /\ run'[r].stale = run[r].stale
      /\ run'[r].toLink = run[r].toLink /\ run'[r].oldEdges = run[r].oldEdges
      /\ run'[r].keys = run[r].keys
  BY <1>1, ApplyRun
<1>3. run[r].step = "items" /\ run[r].source \in Source /\ run[r].source # None
  <2>1. run[r].step # "idle" /\ run[r].step # "edges"
    BY <1>1, <1>2 DEF Planned, NewRun
  <2>2. run[r].step # "over"
    BY <1>1, <1>2 DEF Planned
  <2> QED BY <1>1, <2>1, <2>2, RunType, ReconcileAssumption DEF Planned, Active
<1>4. run[r].items[x] \in Val
  BY <1>1, <1>2, SnapshotType
<1>5. CASE Refused /\ run'[r].got = run[r].got
  <2>1. Sound' /\ Moves(run[r].source)
    BY <1>1, <1>5, SameStore DEF Refused
  <2>2. Typed'
    BY <1>1, <1>2, <1>5, TypedStep DEF SameAim, Typed, TypeOK, Refused
  <2>3. \A c \in run'[r].stale :
         \/ cis'[c] = Gone
         \/ c \in Owned(run[r].source)' /\ cis'[c].item \notin DOMAIN run[r].items
    BY <1>1, <1>2, <1>5 DEF Owned, Stored, SameAim, Planned, Refused
  <2>4. \A y \in Item : run'[r].got[y] # None =>
         \/ cis'[run'[r].got[y]] = Gone
         \/ run[r].got[y] \in Owned(run[r].source)' /\ cis'[run'[r].got[y]].item = y
    BY <1>1, <1>2, <1>5 DEF Planned, Owned, Stored, SameAim, Refused
  <2>5. Planned(r)'
    BY <1>1, <1>2, <1>3, <1>5, <2>3, <2>4 DEF Planned, SameAim, TypesOf, Active
  <2> QED BY <2>1, <2>2, <2>5
<1>6. ASSUME NEW c \in Id, Applied(r, x, c)
      PROVE  Typed' /\ Sound' /\ Moves(run[r].source) /\ Planned(r)'
  <2> DEFINE ours == [source |-> run[r].source, item |-> x,
                      val |-> run[r].items[x], status |-> "present"]
  <2>0. /\ \/ c \in Owned(run[r].source) /\ cis[c].item = x
           \/ cis[c] = None /\ \A d \in Owned(run[r].source) : cis[d].item # x
        /\ cis' = [cis EXCEPT ![c] = ours] /\ edges' = edges /\ prior' = prior
        /\ run'[r].got = [run[r].got EXCEPT ![x] = c]
    BY <1>6 DEF Applied
  <2>1. ours \in Ci /\ ours.source = run[r].source /\ ours.item = x /\ ours \notin {None, Gone}
    BY <1>2, <1>3, <1>4, ReconcileAssumption DEF Ci
  <2> HIDE DEF ours
  <2>2. cis' = [cis EXCEPT ![c] = ours] /\ cis \in [Id -> Ci \cup {None, Gone}]
    BY <1>1, <2>0 DEF ours, Typed, TypeOK
  <2>3. /\ cis' \in [Id -> Ci \cup {None, Gone}] /\ cis'[c] = ours
        /\ \A d \in Id \ {c} : cis'[d] = cis[d]
    BY <2>1, <2>2
  <2>4. Typed'
    BY <1>1, <1>2, <2>0, <2>3, TypedStep DEF SameAim, Typed, TypeOK
  <2>5. Moves(run[r].source)
    BY <1>2, <2>0, <2>1, <2>3 DEF Moves, CiMoves, EdgeMoves
  <2>6. /\ Stored' = Stored \cup {c}
        /\ c \in Stored => cis[c].source = run[r].source /\ cis[c].item = x
    BY <2>0, <2>1, <2>3 DEF Stored, Owned
  <2>7. Sound'
    <3>1. ASSUME NEW e \in edges
          PROVE  /\ e.from \in Stored' /\ e.to \in Stored'
                 /\ e.source # None => cis'[e.from].source = e.source
                                       /\ cis'[e.to].source = e.source
      <4>1. e.from \in Stored /\ e.to \in Stored /\ e.from \in Id /\ e.to \in Id
        BY <1>1 DEF Sound, Stored
      <4>2. e.source # None => cis[e.from].source = e.source /\ cis[e.to].source = e.source
        BY <1>1 DEF Sound
      <4> QED BY <2>1, <2>3, <2>6, <4>1, <4>2
    <3>2. \A d \in Stored' : cis'[d].source # None => cis'[d].item \in Item
      BY <1>1, <1>2, <2>1, <2>3, <2>6 DEF Sound, Stored
    <3>3. ASSUME NEW d \in Stored \cup {c}, NEW f \in Stored \cup {c},
                 cis'[d].source # None, cis'[d].source = cis'[f].source,
                 cis'[d].item = cis'[f].item
          PROVE  d = f
      <4>1. CASE d # c /\ f # c
        BY <1>1, <2>3, <3>3, <4>1 DEF Sound, Stored
      <4>2. ASSUME NEW g \in Stored, g # c, cis[g].source = run[r].source, cis[g].item = x
            PROVE  FALSE
        BY <1>1, <1>3, <2>0, <4>2 DEF Sound, Owned, Stored
      <4> QED BY <2>1, <2>3, <3>3, <4>1, <4>2 DEF Stored
    <3> QED BY <2>0, <2>6, <3>1, <3>2, <3>3 DEF Sound
  <2>8. \A d \in Id : cis[d] = Gone => cis'[d] = Gone
    BY <2>0, <2>3, ReconcileAssumption DEF Owned, Stored
  <2>9. \A d \in Owned(run[r].source) : cis'[d] # Gone /\ cis'[d].source = run[r].source
          /\ cis'[d].item = cis[d].item /\ d \in Stored'
    BY <2>1, <2>3, <2>6 DEF Owned, Stored
  <2>10. \A d \in run'[r].stale :
         \/ cis'[d] = Gone
         \/ d \in Owned(run[r].source)' /\ cis'[d].item \notin DOMAIN run[r].items
    BY <1>1, <1>2, <2>8, <2>9 DEF Owned, SameAim, Planned
  <2>11. \A y \in Item : run'[r].got[y] # None =>
         \/ cis'[run'[r].got[y]] = Gone
         \/ run'[r].got[y] \in Stored' /\ cis'[run'[r].got[y]].source = run'[r].source
            /\ cis'[run'[r].got[y]].item = y
    <3>1. ASSUME NEW y \in Item, y # x, run[r].got[y] # None
          PROVE  \/ cis'[run[r].got[y]] = Gone
                 \/ run[r].got[y] \in Stored' /\ cis'[run[r].got[y]].source = run[r].source
                    /\ cis'[run[r].got[y]].item = y
      BY <1>1, <2>8, <2>9, <3>1 DEF Planned
    <3>2. run'[r].got[x] = c /\ \A y \in Item : y # x => run'[r].got[y] = run[r].got[y]
      BY <1>1, <1>2, <2>0
    <3> QED BY <1>2, <2>1, <2>3, <2>6, <3>1, <3>2 DEF SameAim
  <2>12. Planned(r)'
    BY <1>1, <1>2, <1>3, <2>10, <2>11 DEF Planned, SameAim, TypesOf, Active, Owned
  <2> QED BY <2>4, <2>5, <2>7, <2>12
<1>7. (Refused /\ run'[r].got = run[r].got) \/ \E c \in Id : Applied(r, x, c)
  BY <1>1, ApplyRun
<1> QED BY <1>5, <1>6, <1>7

LEMMA SweepItemBase ==
  ASSUME Base, NEW r \in Run, NEW c, SweepItem(r, c)
  PROVE  Typed' /\ Sound' /\ Moves(run[r].source) /\ Planned(r)'
<1>1. Typed /\ Sound /\ Planned(r) /\ run[r].toLink \subseteq run[r].links
      /\ run[r].stale \subseteq Id /\ run[r].got \in [Item -> Id \cup {None}]
  BY RunType DEF Base
<1>2. /\ run' \in [Run -> RunState] /\ Others(r) /\ SameAim(r)
      /\ c \in run[r].stale /\ c \in Id /\ run[r].todo = {}
      /\ run'[r].step = run[r].step /\ run'[r].types = run[r].types
      /\ run'[r].todo = {} /\ run'[r].stale = run[r].stale \ {c}
      /\ run'[r].toLink = run[r].toLink /\ run'[r].oldEdges = run[r].oldEdges
      /\ run'[r].keys = run[r].keys /\ run'[r].got = run[r].got
      /\ prior' = prior
  BY <1>1, SweepRun
<1>3. ASSUME cis' = cis, edges' = edges
      PROVE  Typed' /\ Sound' /\ Moves(run[r].source)
  <2>1. Sound' /\ Moves(run[r].source)
    BY <1>1, <1>3, SameStore
  <2>2. Typed'
    BY <1>1, <1>2, <1>3, TypedStep DEF SameAim, Typed, TypeOK
  <2> QED BY <2>1, <2>2
<1>4. ASSUME c \in Stored, cis' = [cis EXCEPT ![c] = Gone], edges' = edges \ Touching(c)
      PROVE  Typed' /\ Sound' /\ Moves(run[r].source)
  <2>1. cis' \in [Id -> Ci \cup {None, Gone}] /\ edges' \subseteq Edge
        /\ cis'[c] = Gone /\ \A d \in Id \ {c} : cis'[d] = cis[d]
    BY <1>1, <1>2, <1>4 DEF Typed, TypeOK
  <2>2. Typed'
    BY <1>1, <1>2, <2>1, TypedStep DEF SameAim, Typed, TypeOK
  <2>3. Stored' = Stored \ {c}
    BY <1>4, <2>1 DEF Stored
  <2>4. c \in Owned(run[r].source)
    BY <1>1, <1>2, <1>4 DEF Planned, Stored
  <2>5. \A e \in edges' : e \in edges /\ e.from # c /\ e.to # c
    BY <1>4 DEF Touching
  <2>6. \A e \in edges \ edges' : cis'[e.from] = Gone \/ cis'[e.to] = Gone
    BY <1>4, <2>1 DEF Touching
  <2>7. Moves(run[r].source)
    BY <2>1, <2>4, <2>5, <2>6 DEF Moves, CiMoves, EdgeMoves
  <2>8. Sound'
    <3>1. ASSUME NEW e \in edges'
          PROVE  /\ e.from \in Stored' /\ e.to \in Stored'
                 /\ e.source # None => cis'[e.from].source = e.source
                                       /\ cis'[e.to].source = e.source
      <4>1. e.from \in Stored /\ e.to \in Stored /\ e.from \in Id /\ e.to \in Id
        BY <1>1, <2>5 DEF Sound, Stored
      <4>2. e.source # None => cis[e.from].source = e.source /\ cis[e.to].source = e.source
        BY <1>1, <2>5 DEF Sound
      <4> QED BY <2>1, <2>3, <2>5, <4>1, <4>2
    <3>2. \A d \in Stored' : cis'[d].source # None => cis'[d].item \in Item
      BY <1>1, <2>1, <2>3 DEF Sound, Stored
    <3>3. \A d, f \in Stored' :
            cis'[d].source # None /\ cis'[d].source = cis'[f].source
            /\ cis'[d].item = cis'[f].item => d = f
      BY <1>1, <2>1, <2>3 DEF Sound, Stored
    <3> QED BY <3>1, <3>2, <3>3 DEF Sound
  <2> QED BY <2>2, <2>7, <2>8
<1>5. ASSUME c \in Stored, cis' = [cis EXCEPT ![c].status = "missing"], edges' = edges
      PROVE  Typed' /\ Sound' /\ Moves(run[r].source)
  <2> DEFINE missing == [cis[c] EXCEPT !.status = "missing"]
  <2>1. cis[c] \in Ci
    BY <1>1, <1>5, StoredCi
  <2>2. missing \in Ci /\ missing.source = cis[c].source /\ missing.item = cis[c].item
    BY <2>1 DEF Ci
  <2>3. missing \notin {None, Gone} /\ cis' = [cis EXCEPT ![c] = missing]
        /\ cis \in [Id -> Ci \cup {None, Gone}]
    BY <1>1, <1>5, <2>2, ReconcileAssumption DEF Typed, TypeOK
  <2> HIDE DEF missing
  <2>4. cis' \in [Id -> Ci \cup {None, Gone}] /\ cis'[c] = missing
        /\ \A d \in Id \ {c} : cis'[d] = cis[d]
    BY <1>2, <2>2, <2>3
  <2>5. Typed'
    BY <1>1, <1>2, <1>5, <2>4, TypedStep DEF SameAim, Typed, TypeOK
  <2>6. Stored' = Stored
    BY <1>5, <2>3, <2>4 DEF Stored
  <2>7. c \in Owned(run[r].source)
    BY <1>1, <1>2, <1>5 DEF Planned, Stored
  <2>8. Moves(run[r].source)
    BY <1>5, <2>2, <2>4, <2>7 DEF Moves, CiMoves, EdgeMoves, Owned
  <2>9. \A d \in Id : d \in Stored => cis'[d].source = cis[d].source
                                      /\ cis'[d].item = cis[d].item
    BY <2>2, <2>4
  <2>10. Sound'
    BY <1>1, <1>5, <2>6, <2>9 DEF Sound, Stored
  <2> QED BY <2>5, <2>8, <2>10
<1>6. Typed' /\ Sound' /\ Moves(run[r].source)
  BY <1>1, <1>3, <1>4, <1>5, SweepRun DEF Refused
<1>7. \A d \in Id : cis[d] = Gone => cis'[d] = Gone
  BY <1>6, ReconcileAssumption DEF Moves, CiMoves, Owned, Stored
<1>8. \A d \in Owned(run[r].source) :
        \/ cis'[d] = Gone
        \/ d \in Stored' /\ cis'[d].source = run[r].source /\ cis'[d].item = cis[d].item
  BY <1>6, ReconcileAssumption DEF Moves, CiMoves, Owned, Stored
<1>9. \A d \in run'[r].stale :
        \/ cis'[d] = Gone
        \/ d \in Stored' /\ cis'[d].source = run'[r].source
           /\ cis'[d].item \notin DOMAIN run'[r].items
  BY <1>1, <1>2, <1>7, <1>8 DEF Planned, SameAim
<1>10. \A y \in Item : run'[r].got[y] # None =>
         \/ cis'[run'[r].got[y]] = Gone
         \/ run'[r].got[y] \in Stored' /\ cis'[run'[r].got[y]].source = run'[r].source
            /\ cis'[run'[r].got[y]].item = y
  BY <1>1, <1>2, <1>7, <1>8 DEF Planned, SameAim
<1>11. run[r].step = "items"
  BY <1>1, <1>2, RunType DEF Planned, NewRun
<1>12. Planned(r)'
  BY <1>1, <1>2, <1>9, <1>10, <1>11 DEF Planned, SameAim, TypesOf, Active, Owned
<1> QED BY <1>6, <1>12

(* The plan of a run whose CIs stay as they are.                           *)
LEMMA SameCisPlanned ==
  ASSUME NEW r \in Run, Planned(r), SameAim(r), cis' = cis, run[r].step # "idle",
         run'[r].step # "idle", run'[r].step # "over" => run[r].step # "over",
         run'[r].stale \subseteq run[r].stale, run'[r].todo \subseteq run[r].todo,
         run'[r].types \subseteq run[r].types,
         run'[r].got = run[r].got \/ run'[r].got = [x \in Item |-> None],
         \A e \in run'[r].oldEdges :
           e.source = run[r].source /\ <<e.from, e.to>> \notin run'[r].keys,
         run'[r].oldEdges # {} => run'[r].step = "edges",
         run'[r].step \in {"edges", "over"} =>
           run'[r].todo = {} /\ run'[r].stale = {} /\ run'[r].types = {} /\ run'[r].toLink = {}
  PROVE  Planned(r)'
<1>1. \A c \in run'[r].stale :
        \/ cis'[c] = Gone
        \/ c \in Stored' /\ cis'[c].source = run'[r].source
           /\ cis'[c].item \notin DOMAIN run'[r].items
  BY DEF Planned, SameAim, Owned, Stored
<1>2. \A y \in Item : run'[r].got[y] # None =>
        \/ cis'[run'[r].got[y]] = Gone
        \/ run'[r].got[y] \in Stored' /\ cis'[run'[r].got[y]].source = run'[r].source
           /\ cis'[run'[r].got[y]].item = y
  BY DEF Planned, SameAim, Owned, Stored
<1> QED BY <1>1, <1>2 DEF Planned, SameAim, TypesOf, Active, Owned

LEMMA LinkBase ==
  ASSUME Base, NEW r \in Run, NEW link, Link(r, link)
  PROVE  Typed' /\ Sound' /\ Moves(run[r].source) /\ Planned(r)'
<1> DEFINE a == run[r].got[link[1]]
           b == run[r].got[link[2]]
           edge == [from |-> a, to |-> b, source |-> run[r].source]
<1>1. Typed /\ Sound /\ Planned(r) /\ run[r].toLink \subseteq Links
      /\ run[r].got \in [Item -> Id \cup {None}] /\ run[r].source \in Source \cup {None}
      /\ run[r].toLink \subseteq run[r].links /\ run[r].todo \subseteq DOMAIN run[r].items
  BY RunType DEF Base
<1>2. /\ run' \in [Run -> RunState] /\ Others(r) /\ SameAim(r)
      /\ ItemsDone(r) /\ link \in run[r].toLink
      /\ run'[r].step = run[r].step /\ run'[r].types = run[r].types
      /\ run'[r].todo = run[r].todo /\ run'[r].stale = run[r].stale
      /\ run'[r].toLink = run[r].toLink \ {link} /\ run'[r].oldEdges = run[r].oldEdges
      /\ run'[r].got = run[r].got /\ cis' = cis /\ prior' = prior
  BY <1>1, LinkRun
<1>3. edges' = edges \/
        (Resolved(r, link) /\ a \in Stored /\ b \in Stored /\ edges' \subseteq edges \cup {edge}
         /\ edges \subseteq edges')
  BY <1>1, LinkRun DEF Refused
<1>4. link[1] \in Item /\ link[2] \in Item
  BY <1>1, <1>2, ReconcileAssumption
<1>5. Sound' /\ Moves(run[r].source) /\ edges' \subseteq Edge
  <2>1. CASE edges' = edges
    BY <1>1, <1>2, <2>1, SameStore DEF Typed, TypeOK
  <2>2. CASE Resolved(r, link) /\ a \in Stored /\ b \in Stored
             /\ edges' \subseteq edges \cup {edge} /\ edges \subseteq edges'
    <3>1. cis[a].source = run[r].source /\ cis[b].source = run[r].source
      BY <1>1, <1>4, <2>2 DEF Planned, Resolved, Stored, Owned
    <3>2. edge.from = a /\ edge.to = b /\ edge.source = run[r].source /\ edge \in Edge
      BY <1>1, <2>2 DEF Edge, Stored
    <3> HIDE DEF a, b, edge
    <3>3. Sound'
      BY <1>1, <1>2, <2>2, <3>1, <3>2, OneMoreEdge
    <3>4. CiMoves(run[r].source) /\ EdgeMoves(run[r].source)
      BY <1>2, <2>2, <3>2 DEF CiMoves, EdgeMoves
    <3> QED BY <1>1, <2>2, <3>2, <3>3, <3>4 DEF Moves, Typed, TypeOK
  <2> QED BY <1>3, <2>1, <2>2
<1>6. Typed'
  BY <1>1, <1>2, <1>5, TypedStep DEF SameAim, Typed, TypeOK
<1>7. run[r].step = "items" /\ run[r].oldEdges = {}
  BY <1>1, <1>2 DEF ItemsDone, Between, Planned
<1>8. Planned(r)'
  BY <1>1, <1>2, <1>7, SameCisPlanned
<1> QED BY <1>5, <1>6, <1>8

LEMMA ListEdgesBase ==
  ASSUME Base, NEW r \in Run, ListEdges(r)
  PROVE  Typed' /\ Sound' /\ Moves(run[r].source) /\ Planned(r)'
<1>1. Typed /\ Sound /\ Planned(r)
  BY DEF Base
<1>2. /\ run' \in [Run -> RunState] /\ Others(r) /\ SameAim(r)
      /\ run[r].step = "items"
      /\ run'[r].step = "edges" /\ run'[r].types = {} /\ run'[r].todo = {}
      /\ run'[r].stale = {} /\ run'[r].toLink = {}
      /\ \A e : e \in run'[r].oldEdges <=>
           e \in edges /\ e.source = run[r].source /\ <<e.from, e.to>> \notin run[r].keys
      /\ run'[r].got = run[r].got /\ run'[r].keys = run[r].keys
      /\ cis' = cis /\ edges' = edges /\ prior' = prior
  BY <1>1, ListEdgesRun
<1>3. Sound' /\ Moves(run[r].source)
  BY <1>1, <1>2, SameStore
<1>4. Typed'
  BY <1>1, <1>2, TypedStep DEF SameAim, Typed, TypeOK
<1>5. Planned(r)'
  BY <1>1, <1>2, SameCisPlanned
<1> QED BY <1>3, <1>4, <1>5

LEMMA UnlinkBase ==
  ASSUME Base, NEW r \in Run, NEW e, Unlink(r, e)
  PROVE  Typed' /\ Sound' /\ Moves(run[r].source) /\ Planned(r)'
<1>1. Typed /\ Sound /\ Planned(r) /\ run[r].toLink \subseteq run[r].links
      /\ run[r].todo \subseteq DOMAIN run[r].items
  BY RunType DEF Base
<1>2. /\ run' \in [Run -> RunState] /\ Others(r) /\ SameAim(r)
      /\ e \in run[r].oldEdges
      /\ run'[r].step = run[r].step /\ run'[r].types = run[r].types
      /\ run'[r].todo = run[r].todo /\ run'[r].stale = run[r].stale
      /\ run'[r].toLink = run[r].toLink /\ run'[r].oldEdges = run[r].oldEdges \ {e}
      /\ run'[r].got = run[r].got /\ run'[r].keys = run[r].keys
      /\ cis' = cis /\ prior' = prior
      /\ edges' = edges \/ edges' = edges \ {e}
  BY <1>1, UnlinkRun DEF Refused
<1>3. e.source = run[r].source /\ run[r].step = "edges"
  BY <1>1, <1>2 DEF Planned
<1>4. Sound'
  BY <1>1, <1>2, FewerEdges
<1>5. Moves(run[r].source)
  BY <1>2, <1>3 DEF Moves, CiMoves, EdgeMoves
<1>6. Typed'
  BY <1>1, <1>2, TypedStep DEF SameAim, Typed, TypeOK
<1>7. Planned(r)'
  <2>1. \A f \in run'[r].oldEdges :
          f.source = run[r].source /\ <<f.from, f.to>> \notin run'[r].keys
    BY <1>1, <1>2 DEF Planned
  <2> QED BY <1>1, <1>2, <1>3, <2>1, SameCisPlanned DEF Planned
<1> QED BY <1>4, <1>5, <1>6, <1>7

LEMMA OverBase ==
  ASSUME Base, NEW r \in Run, NEW status \in {"failed", "running", "completed"},
         Over(r, status), Active(r), cis' = cis, edges' = edges,
         prior' \in [Source -> Run \cup {None}]
  PROVE  Typed' /\ Sound' /\ Moves(run[r].source) /\ Planned(r)'
<1>1. Typed /\ Sound /\ Planned(r) /\ run[r].toLink \subseteq run[r].links
      /\ run[r].todo \subseteq DOMAIN run[r].items
  BY RunType DEF Base
<1>2. /\ run' \in [Run -> RunState] /\ Others(r) /\ SameAim(r)
      /\ run'[r].step = "over" /\ run'[r].types = {} /\ run'[r].todo = {}
      /\ run'[r].stale = {} /\ run'[r].toLink = {} /\ run'[r].oldEdges = {}
      /\ run'[r].got = [x \in Item |-> None]
  BY <1>1, OverRun
<1>3. Sound' /\ Moves(run[r].source)
  BY <1>1, SameStore
<1>4. Typed'
  BY <1>1, <1>2, TypedStep DEF SameAim, Typed, TypeOK
<1>5. Planned(r)'
  BY <1>1, <1>2, SameCisPlanned DEF Active
<1> QED BY <1>3, <1>4, <1>5

LEMMA RunBase ==
  ASSUME Base, NEW r \in Run, Handle(r) \/ Abort(r)
  PROVE  Typed' /\ Sound' /\ Moves(run[r].source) /\ Planned(r)' /\ Others(r)
<1>1. Typed /\ Planned(r)
  BY DEF Base
<1>2. ASSUME NEW t, OpenType(r, t)
      PROVE  Typed' /\ Sound' /\ Moves(run[r].source) /\ Planned(r)' /\ Others(r)
  BY <1>1, <1>2, OpenTypeBase, OpenTypeRun
<1>3. ASSUME NEW x, ApplyItem(r, x)
      PROVE  Typed' /\ Sound' /\ Moves(run[r].source) /\ Planned(r)' /\ Others(r)
  BY <1>1, <1>3, ApplyItemBase, ApplyRun
<1>4. ASSUME NEW c, SweepItem(r, c)
      PROVE  Typed' /\ Sound' /\ Moves(run[r].source) /\ Planned(r)' /\ Others(r)
  BY <1>1, <1>4, SweepItemBase, SweepRun
<1>5. ASSUME NEW link, Link(r, link)
      PROVE  Typed' /\ Sound' /\ Moves(run[r].source) /\ Planned(r)' /\ Others(r)
  BY <1>1, <1>5, LinkBase, LinkRun
<1>6. CASE ListEdges(r)
  BY <1>1, <1>6, ListEdgesBase, ListEdgesRun
<1>7. ASSUME NEW e, Unlink(r, e)
      PROVE  Typed' /\ Sound' /\ Moves(run[r].source) /\ Planned(r)' /\ Others(r)
  BY <1>1, <1>7, UnlinkBase, UnlinkRun
<1>8. CASE Finish(r)
  <2>1. /\ Over(r, "completed") /\ Active(r) /\ cis' = cis /\ edges' = edges
        /\ prior' = [prior EXCEPT ![run[r].source] = IF run[r].errors THEN None ELSE r]
    BY <1>8 DEF Finish, Active
  <2>2. prior' \in [Source -> Run \cup {None}]
    BY <1>1, <2>1 DEF Typed, TypeOK
  <2> QED BY <1>1, <2>1, <2>2, OverBase, OverRun
<1>9. CASE Abort(r)
  <2>1. PICK status \in {"failed", "running"} : Over(r, status)
    BY <1>9 DEF Abort
  <2>2. /\ Active(r) /\ cis' = cis /\ edges' = edges
        /\ prior' \in [Source -> Run \cup {None}]
    BY <1>1, <1>9 DEF Abort, Typed, TypeOK
  <2> QED BY <1>1, <2>1, <2>2, OverBase, OverRun
<1> QED BY <1>2, <1>3, <1>4, <1>5, <1>6, <1>7, <1>8, <1>9 DEF Handle

LEMMA UserLinkBase ==
  ASSUME Base, NEW a \in Manual, NEW b \in Id, UserLink(a, b)
  PROVE  Base' /\ \A s : Moves(s)
<1> DEFINE edge == [from |-> a, to |-> b, source |-> None]
<1>1. Typed /\ Sound
  BY DEF Base
<1>2. /\ cis' = cis /\ run' = run /\ prior' = prior /\ edges' = edges \cup {edge}
      /\ a \in Stored /\ b \in Stored
  BY DEF UserLink
<1>3. edge.from = a /\ edge.to = b /\ edge.source = None /\ edge \in Edge
  BY <1>2 DEF Edge, Stored
<1> HIDE DEF edge
<1>4. Sound'
  BY <1>1, <1>2, <1>3, OneMoreEdge
<1>5. Typed'
  BY <1>1, <1>2, <1>3 DEF Typed, TypeOK
<1>6. \A s : CiMoves(s)
  BY <1>2 DEF CiMoves
<1>7. \A s : Moves(s)
  BY <1>2, <1>3, <1>6 DEF Moves, EdgeMoves
<1>8. \A q \in Run : Planned(q)'
  BY <1>1, <1>2, <1>6, StillPlanned DEF Base
<1> QED BY <1>4, <1>5, <1>7, <1>8 DEF Base

LEMMA BaseStep ==
  ASSUME Base, [Next]_vars
  PROVE  Base'
<1>1. CASE UNCHANGED vars
  <2>1. Typed'
    BY <1>1 DEF Base, Typed, TypeOK, vars
  <2>2. Sound'
    BY <1>1 DEF Base, Sound, Stored, vars
  <2>3. \A r \in Run : Planned(r)'
    BY <1>1 DEF Base, Planned, Active, TypesOf, Owned, Stored, vars
  <2> QED BY <2>1, <2>2, <2>3 DEF Base
<1>2. ASSUME NEW r \in Run, NEW s \in Source, NEW policy \in Policies,
             NEW items \in Snapshots, NEW links \in SUBSET Links,
             Start(r, s, policy, items, links)
      PROVE  Base'
  <2>1. Typed' /\ Sound' /\ Moves(s) /\ Planned(r)'
    BY <1>2, StartBase
  <2>2. Others(r)
    BY <1>2, StartRun DEF Base
  <2>3. \A q \in Run : Planned(q)'
    BY <2>1, <2>2, StillOthers DEF Moves
  <2> QED BY <2>1, <2>3 DEF Base
<1>3. ASSUME NEW r \in Run, Handle(r) \/ Abort(r)
      PROVE  Base'
  <2>1. Typed' /\ Sound' /\ Moves(run[r].source) /\ Planned(r)' /\ Others(r)
    BY <1>3, RunBase
  <2>2. PICK s : s = run[r].source
    OBVIOUS
  <2>3. \A q \in Run : Planned(q)'
    BY <2>1, <2>2, StillOthers DEF Moves
  <2> QED BY <2>1, <2>3 DEF Base
<1>4. ASSUME NEW a \in Manual, NEW b \in Id, UserLink(a, b)
      PROVE  Base'
  BY <1>4, UserLinkBase
<1> QED BY <1>1, <1>2, <1>3, <1>4 DEF Next, Quiet

LEMMA InitBase ==
  ASSUME Init
  PROVE  Base
<1>1. run = [r \in Run |-> NewRun] /\ edges = {} /\ prior = [s \in Source |-> None]
  BY DEF Init
<1>2. NewRun \in RunState /\ NewRun.todo = {} /\ NewRun.toLink = {} /\ NewRun.step = "idle"
      /\ NewRun.stale = {} /\ NewRun.oldEdges = {} /\ NewRun.types = {}
      /\ NewRun.got = [x \in Item |-> None]
  BY NewRunType DEF NewRun
<1>3. run \in [Run -> RunState]
  BY <1>1, <1>2
<1> DEFINE made == [source |-> None, item |-> None, val |-> None, status |-> "present"]
<1>4. made \in Ci /\ made.source = None
  BY DEF Ci
<1> HIDE DEF made
<1>5. cis = [c \in Id |-> IF c \in Manual THEN made ELSE None]
  BY DEF Init, made
<1>6. cis \in [Id -> Ci \cup {None, Gone}]
  BY <1>4, <1>5
<1>7. TypeOK
  <2>1. ASSUME NEW r \in Run
        PROVE  /\ run[r].step \in {"idle", "items", "edges", "over"}
               /\ run[r].status \in {"none", "running", "completed", "failed"}
               /\ run[r].source \in Source \cup {None} /\ run[r].policy \in {"delete", "mark"}
               /\ run[r].items \in Snapshots /\ run[r].links \subseteq Links
               /\ run[r].todo \subseteq DOMAIN run[r].items
               /\ run[r].toLink \subseteq run[r].links
               /\ run[r].stale \cup run[r].bumped \subseteq Id
               /\ run[r].got \in [Item -> Id \cup {None}]
               /\ run[r].keys \subseteq Id \X Id /\ run[r].oldEdges \subseteq edges \cup Edge
    <3>1. run[r] = NewRun
      BY <1>1
    <3> QED BY <1>2, <3>1 DEF RunState
  <2>2. edges \subseteq Edge /\ prior \in [Source -> Run \cup {None}]
    BY <1>1
  <2> QED BY <1>6, <2>1, <2>2 DEF TypeOK
<1>8. Sound
  BY <1>1, <1>4, <1>5 DEF Sound, Stored
<1>9. \A r \in Run : Planned(r)
  BY <1>1, <1>2 DEF Planned, Active
<1> QED BY <1>3, <1>7, <1>8, <1>9 DEF Base, Typed

LEMMA BaseHolds == Spec => []Base
<1>1. Init => Base
  BY InitBase
<1>2. Base /\ [Next]_vars => Base'
  BY BaseStep
<1> QED BY <1>1, <1>2, PTL DEF Spec

(* The reconciler's records and the store keep their types.                *)
THEOREM TypeCorrect == Spec => []TypeOK
<1>1. Base => TypeOK
  BY DEF Base, Typed
<1> QED BY <1>1, BaseHolds, PTL

(* A discovery run changes and deletes only CIs of its own source, and     *)
(* removes only edges of its source or of a CI that it deletes             *)
(* (Reconciler.reconcile, iter_source, iter_source_edges), whether or not  *)
(* runs of one source overlap.                                             *)
THEOREM StaysInItsSourceHolds == Spec => StaysInItsSource
<1> DEFINE Inside(r) == Active(r) /\ run'[r] # run[r] =>
             /\ \A c \in Stored : cis'[c] # cis[c] => cis[c].source = run[r].source
             /\ \A e \in edges \ edges' :
                  e.source = run[r].source \/ cis'[e.from] = Gone \/ cis'[e.to] = Gone
<1>1. ASSUME Base, [Next]_vars
      PROVE  [\A r \in Run : Inside(r)]_vars
  <2>1. SUFFICES ASSUME NEW r \in Run, Active(r), run'[r] # run[r]
                 PROVE  /\ \A c \in Stored : cis'[c] # cis[c] => cis[c].source = run[r].source
                        /\ \A e \in edges \ edges' : e.source = run[r].source
                             \/ cis'[e.from] = Gone \/ cis'[e.to] = Gone
    OBVIOUS
  <2>2. ASSUME Moves(run[r].source)
        PROVE  /\ \A c \in Stored : cis'[c] # cis[c] => cis[c].source = run[r].source
               /\ \A e \in edges \ edges' : e.source = run[r].source
                    \/ cis'[e.from] = Gone \/ cis'[e.to] = Gone
    BY <2>2 DEF Moves, CiMoves, EdgeMoves, Stored, Owned
  <2>3. ~ UNCHANGED vars
    BY <2>1 DEF vars
  <2>4. ASSUME NEW q \in Run, NEW s \in Source, NEW policy \in Policies,
               NEW items \in Snapshots, NEW links \in SUBSET Links,
               Start(q, s, policy, items, links)
        PROVE  FALSE
    <3>1. Typed /\ Planned(q)
      BY <1>1 DEF Base
    <3>2. Others(q) /\ run[q].step = "idle"
      BY <2>4, <3>1, StartRun DEF Start
    <3> QED BY <2>1, <3>2 DEF Others, Active
  <2>5. ASSUME NEW q \in Run, Handle(q) \/ Abort(q)
        PROVE  Moves(run[r].source)
    <3>1. Others(q) /\ Moves(run[q].source)
      BY <1>1, <2>5, RunBase
    <3> QED BY <2>1, <3>1 DEF Others
  <2>6. ASSUME NEW a \in Manual, NEW b \in Id, UserLink(a, b)
        PROVE  FALSE
    BY <2>1, <2>6 DEF UserLink
  <2> QED BY <1>1, <2>2, <2>3, <2>4, <2>5, <2>6 DEF Next, Quiet
<1> QED BY <1>1, BaseHolds, PTL DEF Spec, StaysInItsSource

-----------------------------------------------------------------------------
(* One run per source: what a run has brought about, other sources leave   *)
(* alone.                                                                  *)
LEMMA OtherSource ==
  ASSUME Typed, Sound, NEW s, CiMoves(s), EdgeMoves(s), s # None,
         NEW t \in Source, t # s
  PROVE  /\ \A c \in Id : c \in Owned(t)' <=> c \in Owned(t)
         /\ \A c \in Owned(t) : cis'[c] = cis[c]
         /\ \A a, b \in Owned(t) : Joined(a, b) => Joined(a, b)'
         /\ \A e : e.source = t => (e \in edges' <=> e \in edges)
<1>1. \A c \in Owned(t) : cis'[c] = cis[c] /\ c \in Id /\ cis[c] \notin {None, Gone}
  BY DEF CiMoves, Owned, Stored
<1>2. \A c \in Id : c \in Owned(t)' <=> c \in Owned(t)
  <2>1. ASSUME NEW c \in Id, c \in Owned(t)'
        PROVE  c \in Owned(t)
    BY <2>1, ReconcileAssumption DEF CiMoves, Owned, Stored
  <2>2. ASSUME NEW c \in Id, c \in Owned(t)
        PROVE  c \in Owned(t)'
    BY <1>1, <2>2 DEF Owned, Stored
  <2> QED BY <2>1, <2>2
<1>3. ASSUME NEW a \in Owned(t), NEW b \in Owned(t), Joined(a, b)
      PROVE  Joined(a, b)'
  <2>1. PICK e \in edges : e.from = a /\ e.to = b
    BY <1>3 DEF Joined
  <2>2. e.source # s
    BY <2>1 DEF Sound, Owned
  <2>3. e \in edges'
    BY <1>1, <2>1, <2>2 DEF EdgeMoves
  <2> QED BY <2>1, <2>3 DEF Joined
<1>4. ASSUME NEW e, e.source = t
      PROVE  e \in edges' <=> e \in edges
  <2>1. e \in edges' => e \in edges
    BY <1>4, ReconcileAssumption DEF EdgeMoves
  <2>2. ASSUME e \in edges
        PROVE  e \in edges'
    <3>1. e.from \in Owned(t) /\ e.to \in Owned(t)
      BY <1>4, <2>2, ReconcileAssumption DEF Sound, Owned
    <3> QED BY <1>1, <1>4, <2>2, <3>1 DEF EdgeMoves
  <2> QED BY <2>1, <2>2
<1> QED BY <1>1, <1>2, <1>3, <1>4

(* The CI that a run has made or found as its own.                         *)
LEMMA OursIsOwned ==
  ASSUME Typed, NEW q \in Run, run[q].source \in Source, NEW x \in DOMAIN run[q].items,
         NEW c \in Id, Ours(q, x, c)
  PROVE  c \in Owned(run[q].source) /\ cis[c].item = x /\ cis[c].val = run[q].items[x]
<1>1. run[q].items[x] \in Val /\ x \in Item
  BY RunType, SnapshotType
<1>2. cis[c] \in Ci /\ cis[c].source = run[q].source /\ cis[c].item = x
      /\ cis[c].val = run[q].items[x]
  BY <1>1 DEF Ours, Ci
<1> QED BY <1>2, ReconcileAssumption DEF Owned, Stored

(* What Converged says of the last run of a source.                        *)
Agrees(r) ==
  /\ \A x \in DOMAIN run[r].items : \E c \in Id : Denotes(run[r].source, x, c) /\ Ours(r, x, c)
  /\ \A c \in Owned(run[r].source) :
       cis[c].item \notin DOMAIN run[r].items /\ TypeOf[cis[c].item] \in TypesOf(r)
         => run[r].policy = "mark" /\ cis[c].status = "missing"
  /\ \A link \in run[r].links : \E a, b \in Id :
       /\ Denotes(run[r].source, link[1], a) /\ Denotes(run[r].source, link[2], b)
       /\ Joined(a, b)
  /\ \A e \in edges : e.source = run[r].source => \E link \in run[r].links :
       /\ Denotes(run[r].source, link[1], e.from)
       /\ Denotes(run[r].source, link[2], e.to)

LEMMA ConvergedAgrees ==
  ASSUME Alone
  PROVE  Converged <=> \A s \in Source : prior[s] # None => Agrees(prior[s])
BY DEF Alone, Converged, Agrees

(* A step of another source keeps what a run has done.                     *)
LEMMA StillGoing ==
  ASSUME Typed, Sound, NEW s, CiMoves(s), EdgeMoves(s), s # None,
         NEW q \in Run, run'[q] = run[q], run[q].source \in Source, run[q].source # s
  PROVE  /\ Going(q) => Going(q)'
         /\ Agrees(q) => Agrees(q)'
<1>0. PICK t \in Source : t = run[q].source
  OBVIOUS
<1>1. PICK got : t = run[q].source /\ got = run[q].got
  BY <1>0
<1>2. /\ \A c \in Id : c \in Owned(t)' <=> c \in Owned(t)
      /\ \A c \in Owned(t) : cis'[c] = cis[c]
      /\ \A a, b \in Owned(t) : Joined(a, b) => Joined(a, b)'
      /\ \A e : e.source = t => (e \in edges' <=> e \in edges)
  BY <1>1, OtherSource
<1>3. /\ run[q].got \in [Item -> Id \cup {None}] /\ run[q].links \subseteq Item \X Item
      /\ DOMAIN run[q].items \subseteq Item
  BY RunType, SnapshotType, ReconcileAssumption
<1>4. \A c : c \in Owned(t) => c \in Id
  BY DEF Owned, Stored
<1>5. \A c : c \in Owned(t)' => c \in Id
  BY DEF Owned, Stored
<1>6. \A x \in DOMAIN run[q].items : \A c \in Id :
        Ours(q, x, c) => c \in Owned(t) /\ Ours(q, x, c)'
  BY <1>1, <1>2, OursIsOwned DEF Ours
<1>7. ASSUME Agrees(q)
      PROVE  Agrees(q)'
  <2>1. \A x, c : Denotes(t, x, c) => Denotes(t, x, c)'
    BY <1>2, <1>4 DEF Denotes
  <2>2. \A x \in DOMAIN run[q].items : \E c \in Id : Denotes(t, x, c)' /\ Ours(q, x, c)'
    BY <1>1, <1>6, <1>7, <2>1 DEF Agrees
  <2>3. \A c \in Owned(t)' :
          cis'[c].item \notin DOMAIN run[q].items /\ TypeOf[cis'[c].item] \in TypesOf(q)
            => run[q].policy = "mark" /\ cis'[c].status = "missing"
    BY <1>1, <1>2, <1>5, <1>7 DEF Agrees
  <2>4. \A link \in run[q].links : \E a, b \in Id :
          Denotes(t, link[1], a)' /\ Denotes(t, link[2], b)' /\ Joined(a, b)'
    <3>1. ASSUME NEW link \in run[q].links
          PROVE  \E a, b \in Id :
                   Denotes(t, link[1], a)' /\ Denotes(t, link[2], b)' /\ Joined(a, b)'
      <4>1. PICK a \in Id, b \in Id :
              Denotes(t, link[1], a) /\ Denotes(t, link[2], b) /\ Joined(a, b)
        BY <1>1, <1>7 DEF Agrees
      <4>2. Joined(a, b)'
        BY <1>2, <4>1 DEF Denotes
      <4> QED BY <2>1, <4>1, <4>2
    <3> QED BY <3>1
  <2>5. \A e \in edges' : e.source = t => \E link \in run[q].links :
          Denotes(t, link[1], e.from)' /\ Denotes(t, link[2], e.to)'
    BY <1>1, <1>2, <1>7, <2>1 DEF Agrees
  <2> QED BY <1>1, <2>2, <2>3, <2>4, <2>5 DEF Agrees, TypesOf, Denotes, Owned, Stored, Ours
<1>8. ASSUME Going(q)
      PROVE  Going(q)'
  <2>1. \A x \in Item : got[x] # None =>
          /\ x \in DOMAIN run[q].items /\ x \notin run[q].todo /\ TypeOf[x] \notin run[q].types
          /\ got[x] \in Owned(t) /\ Ours(q, x, got[x]) /\ Ours(q, x, got[x])'
    BY <1>1, <1>3, <1>6, <1>8 DEF Going, Found
  <2>2. Found(q)'
    BY <1>1, <1>8, <2>1 DEF Going, Found, Ours, Resolved
  <2>3. ASSUME Done(q)
        PROVE  Done(q)'
    <3>1. \A c \in Owned(t)' :
            /\ cis'[c].item \notin DOMAIN run[q].items
            /\ TypeOf[cis'[c].item] \in TypesOf(q) \ run[q].types
            => c \in run[q].stale \/ (run[q].policy = "mark" /\ cis'[c].status = "missing")
      BY <1>1, <1>2, <1>5, <2>3 DEF Done
    <3>2. ASSUME NEW l \in run[q].links \ run[q].toLink
          PROVE  /\ got[l[1]] # None /\ got[l[2]] # None
                 /\ <<got[l[1]], got[l[2]]>> \in run[q].keys
                 /\ Joined(got[l[1]], got[l[2]])'
      <4>1. /\ got[l[1]] # None /\ got[l[2]] # None
            /\ <<got[l[1]], got[l[2]]>> \in run[q].keys
            /\ Joined(got[l[1]], got[l[2]])
        BY <1>1, <2>3 DEF Done, Resolved
      <4>2. got[l[1]] \in Owned(t) /\ got[l[2]] \in Owned(t)
        BY <1>3, <2>1, <4>1
      <4> QED BY <1>2, <4>1, <4>2
    <3>3. run[q].step = "edges" => \A e \in edges' :
            e.source = t => <<e.from, e.to>> \in run[q].keys \/ e \in run[q].oldEdges
      BY <1>1, <1>2, <2>3 DEF Done
    <3>4. \A x \in DOMAIN run[q].items :
            TypeOf[x] \notin run[q].types /\ x \notin run[q].todo => got[x] # None
      BY <1>1, <2>3 DEF Done
    <3> QED BY <1>1, <3>1, <3>2, <3>3, <3>4
            DEF Done, TypesOf, Owned, Stored, Resolved, Joined
  <2>4. ASSUME InPlace(q)
        PROVE  InPlace(q)'
    <3>1. \A x \in DOMAIN run[q].items : \E c \in Id : Ours(q, x, c)'
      BY <1>6, <2>4 DEF InPlace
    <3>2. \A c \in Owned(t)' :
            TypeOf[cis'[c].item] \in TypesOf(q) => cis'[c].item \in DOMAIN run[q].items
      BY <1>1, <1>2, <1>5, <2>4 DEF InPlace
    <3> QED BY <1>1, <2>4, <3>1, <3>2 DEF InPlace, TypesOf, Owned, Stored, Ours
  <2> QED BY <1>8, <2>2, <2>3, <2>4 DEF Going
<1> QED BY <1>7, <1>8

(* The steps of a run itself.                                              *)
LEMMA StartGoing ==
  ASSUME Base, NEW r \in Run, NEW s \in Source, NEW policy \in Policies,
         NEW items \in Snapshots, NEW links \in SUBSET Links,
         Start(r, s, policy, items, links),
         prior[s] # None => run[prior[s]].source = s /\ Agrees(prior[s])
  PROVE  Going(r)' /\ run'[r].bumped = {}
<1>1. /\ Typed /\ Planned(r)
  BY DEF Base
<1>2. /\ run'[r].step = "items" /\ run'[r].source = s /\ run'[r].policy = policy
      /\ run'[r].items = items /\ run'[r].links = links /\ run'[r].toLink = links
      /\ run'[r].types = {TypeOf[x] : x \in DOMAIN items}
      /\ run'[r].todo = {} /\ run'[r].stale = {} /\ run'[r].oldEdges = {}
      /\ run'[r].got = [x \in Item |-> None] /\ run'[r].keys = {} /\ run'[r].bumped = {}
      /\ (run'[r].rerun <=>
            /\ prior[s] # None /\ run[prior[s]].items = items
            /\ run[prior[s]].links = links /\ run[prior[s]].policy = policy)
  BY <1>1, StartRun
<1>3. cis' = cis /\ edges' = edges
  BY DEF Start
<1>4. Found(r)'
  BY <1>2 DEF Found
<1>5. Done(r)'
  BY <1>2 DEF Done, TypesOf
<1>6. ASSUME run'[r].rerun, policy = "delete"
      PROVE  InPlace(r)'
  <2>1. PICK p : p = prior[s]
    OBVIOUS
  <2>2. /\ run[p].items = items /\ run[p].policy = "delete" /\ run[p].source = s /\ Agrees(p)
    BY <1>2, <1>6, <2>1
  <2>3. \A x \in DOMAIN items : \E c \in Id :
          cis'[c] = [source |-> s, item |-> x, val |-> items[x], status |-> "present"]
    BY <1>3, <2>2 DEF Agrees, Ours
  <2>4. \A c \in Owned(s)' :
          TypeOf[cis'[c].item] \in {TypeOf[x] : x \in DOMAIN items}
            => cis'[c].item \in DOMAIN items
    BY <1>3, <2>2 DEF Agrees, TypesOf, Owned, Stored
  <2> QED BY <1>2, <2>3, <2>4 DEF InPlace, Ours, TypesOf, Owned, Stored
<1> QED BY <1>2, <1>4, <1>5, <1>6 DEF Going

LEMMA OpenTypeGoing ==
  ASSUME Base, NEW r \in Run, Going(r), NEW t, OpenType(r, t)
  PROVE  Going(r)' /\ run'[r].bumped = run[r].bumped
<1>1. Typed /\ Sound /\ Planned(r) /\ DOMAIN run[r].items \subseteq Item
      /\ run[r].source \in Source
  <2>1. Typed /\ Sound /\ Planned(r)
    BY DEF Base
  <2>2. Active(r)
    BY DEF OpenType, Between, Active
  <2> QED BY <2>1, <2>2, RunType, SnapshotType DEF Planned
<1>2. /\ SameAim(r)
      /\ run[r].step = "items" /\ run'[r].step = "items" /\ t \in run[r].types
      /\ run[r].todo = {} /\ run[r].stale = {}
      /\ run'[r].types = run[r].types \ {t}
      /\ run'[r].todo = OfType(t, DOMAIN run[r].items)
      /\ run'[r].toLink = run[r].toLink /\ run'[r].oldEdges = run[r].oldEdges
      /\ run'[r].got = run[r].got /\ run'[r].keys = run[r].keys
      /\ run'[r].errors = run[r].errors /\ run'[r].bumped = run[r].bumped
  BY <1>1, OpenTypeRun
<1>3. /\ \A c \in run'[r].stale :
           /\ c \in Owned(run[r].source) /\ TypeOf[cis[c].item] = t
           /\ cis[c].item \notin run'[r].todo
      /\ \A c \in Owned(run[r].source) :
           TypeOf[cis[c].item] = t /\ cis[c].item \notin run'[r].todo =>
             \E d \in run'[r].stale : cis[d].item = cis[c].item
  BY <1>1, OpenTypeRun
<1>4. cis' = cis /\ edges' = edges
  BY DEF OpenType
<1>5. \A c, d \in Owned(run[r].source) : cis[c].item = cis[d].item => c = d
  BY <1>1, ReconcileAssumption DEF Sound, Owned
<1>6. Found(r)'
  <2>1. \A x \in Item : run[r].got[x] # None =>
          x \notin run'[r].todo /\ TypeOf[x] \notin run'[r].types
    BY <1>2 DEF Going, Found, OfType
  <2> QED BY <1>2, <1>4, <2>1 DEF Going, Found, SameAim, Ours, Resolved
<1>7. ASSUME Done(r)
      PROVE  Done(r)'
  <2>1. \A x \in DOMAIN run[r].items :
          TypeOf[x] \notin run'[r].types /\ x \notin run'[r].todo => run[r].got[x] # None
    BY <1>2, <1>7 DEF Done, OfType
  <2>2. ASSUME NEW c \in Owned(run[r].source), cis[c].item \notin DOMAIN run[r].items,
               TypeOf[cis[c].item] \in TypesOf(r) \ run'[r].types
        PROVE  c \in run'[r].stale \/ (run[r].policy = "mark" /\ cis[c].status = "missing")
    <3>1. CASE TypeOf[cis[c].item] = t
      <4>1. cis[c].item \notin run'[r].todo
        BY <1>2, <2>2 DEF OfType
      <4>2. PICK d \in run'[r].stale : cis[d].item = cis[c].item
        BY <1>3, <3>1, <4>1
      <4> QED BY <1>3, <1>5, <4>2
    <3>2. CASE TypeOf[cis[c].item] # t
      BY <1>2, <1>7, <2>2, <3>2 DEF Done
    <3> QED BY <3>1, <3>2
  <2>3. \A l \in run[r].links \ run[r].toLink :
          /\ Resolved(r, l) /\ <<run[r].got[l[1]], run[r].got[l[2]]>> \in run[r].keys
          /\ Joined(run[r].got[l[1]], run[r].got[l[2]])
    BY <1>7 DEF Done
  <2> QED BY <1>2, <1>4, <2>1, <2>2, <2>3
          DEF Done, TypesOf, Owned, Stored, Resolved, Joined, SameAim
<1>8. ASSUME InPlace(r)
      PROVE  InPlace(r)'
  <2>1. run'[r].stale = {}
    <3>1. ASSUME NEW c \in run'[r].stale
          PROVE  FALSE
      <4>1. t \in TypesOf(r)
        BY <1>1, <1>2 DEF Planned
      <4>2. cis[c].item \in DOMAIN run[r].items
        BY <1>3, <1>8, <3>1, <4>1 DEF InPlace
      <4> QED BY <1>2, <1>3, <3>1, <4>2 DEF OfType
    <3> QED BY <3>1
  <2> QED BY <1>2, <1>4, <1>8, <2>1 DEF InPlace, SameAim, TypesOf, Owned, Stored, Ours
<1> QED BY <1>2, <1>6, <1>7, <1>8 DEF Going, SameAim

LEMMA ApplyItemGoing ==
  ASSUME Base, NEW r \in Run, Going(r), run[r].source \in Source, NEW x, ApplyItem(r, x)
  PROVE  /\ Going(r)'
         /\ run[r].rerun /\ run[r].policy = "delete" => run'[r].bumped = {}
<1>1. /\ Typed /\ Sound /\ Planned(r) /\ DOMAIN run[r].items \subseteq Item
      /\ run[r].got \in [Item -> Id \cup {None}] /\ run[r].links \subseteq Item \X Item
  BY RunType, SnapshotType, ReconcileAssumption DEF Base
<1>2. /\ SameAim(r)
      /\ x \in run[r].todo /\ x \in DOMAIN run[r].items /\ x \in Item
      /\ run'[r].step = run[r].step /\ run'[r].types = run[r].types
      /\ run'[r].todo = run[r].todo \ {x} /\ run'[r].stale = run[r].stale
      /\ run'[r].toLink = run[r].toLink /\ run'[r].oldEdges = run[r].oldEdges
      /\ run'[r].keys = run[r].keys
  BY <1>1, ApplyRun
<1>3. run[r].step # "edges"
  BY <1>1, <1>2 DEF Planned
<1>4. CASE Refused /\ run'[r].errors /\ run'[r].got = run[r].got /\ run'[r].bumped = run[r].bumped
  <2>1. Found(r)'
    BY <1>2, <1>4 DEF Going, Found, Refused, SameAim, Ours, Resolved
  <2>2. InPlace(r) => InPlace(r)'
    BY <1>2, <1>4 DEF Refused, InPlace, SameAim, TypesOf, Owned, Stored, Ours
  <2> QED BY <1>2, <1>4, <2>1, <2>2 DEF Going, SameAim, InPlace
<1>5. ASSUME NEW c \in Id, Applied(r, x, c)
      PROVE  /\ Going(r)'
             /\ run[r].rerun /\ run[r].policy = "delete" => run'[r].bumped = {}
  <2> DEFINE ours == [source |-> run[r].source, item |-> x,
                      val |-> run[r].items[x], status |-> "present"]
  <2>1. /\ \/ c \in Owned(run[r].source) /\ cis[c].item = x
           \/ cis[c] = None /\ \A d \in Owned(run[r].source) : cis[d].item # x
        /\ cis' = [cis EXCEPT ![c] = ours] /\ edges' = edges
        /\ run'[r].errors = run[r].errors
        /\ run'[r].got = [run[r].got EXCEPT ![x] = c]
        /\ cis[c] # None /\ cis[c].val = run[r].items[x] => run'[r].bumped = run[r].bumped
    BY <1>5 DEF Applied
  <2>2. ours.source = run[r].source /\ ours.item = x
    OBVIOUS
  <2> HIDE DEF ours
  <2>3. cis'[c] = ours /\ \A d \in Id \ {c} : cis'[d] = cis[d]
    BY <1>1, <2>1 DEF Typed, TypeOK
  <2>4. Ours(r, x, c)'
    BY <1>2, <2>3 DEF Ours, SameAim, ours
  <2>5. run'[r].got[x] = c /\ \A y \in Item : y # x => run'[r].got[y] = run[r].got[y]
    BY <1>1, <1>2, <2>1
  <2>6. run[r].got[x] = None
    BY <1>2 DEF Going, Found
  <2>7. ASSUME NEW y \in DOMAIN run[r].items, y # x, NEW d \in Id, Ours(r, y, d)
        PROVE  d # c /\ cis'[d] = cis[d] /\ Ours(r, y, d)'
    <3>1. d \in Owned(run[r].source) /\ cis[d].item = y
      BY <1>1, <2>7, OursIsOwned
    <3>2. d # c
      BY <2>1, <2>7, <3>1 DEF Owned, Stored
    <3> QED BY <1>2, <2>3, <2>7, <3>2 DEF Ours, SameAim
  <2>8. Found(r)'
    <3>1. \A y \in Item : run'[r].got[y] # None =>
            /\ y \in DOMAIN run[r].items /\ y \notin run'[r].todo
            /\ TypeOf[y] \notin run[r].types
      BY <1>1, <1>2, <2>5 DEF Going, Found, Planned
    <3>2. ASSUME NEW y \in Item, run'[r].got[y] # None
          PROVE  cis'[run'[r].got[y]] = [source |-> run'[r].source, item |-> y,
                   val |-> run'[r].items[y], status |-> "present"]
      <4>1. CASE y = x
        BY <2>4, <2>5, <4>1 DEF Ours
      <4>2. CASE y # x
        <5>1. run'[r].got[y] = run[r].got[y] /\ run[r].got[y] \in Id
          BY <1>1, <2>5, <3>2, <4>2
        <5>2. Ours(r, y, run[r].got[y]) /\ y \in DOMAIN run[r].items
          BY <3>2, <5>1 DEF Going, Found
        <5>3. cis'[run[r].got[y]] = cis[run[r].got[y]]
          BY <2>7, <4>2, <5>1, <5>2
        <5> QED BY <1>2, <5>1, <5>2, <5>3 DEF Ours, SameAim
      <4> QED BY <4>1, <4>2
    <3>3. ASSUME NEW k \in run'[r].keys
          PROVE  \E l \in run'[r].links :
                   /\ run'[r].got[l[1]] # None /\ run'[r].got[l[2]] # None
                   /\ k = <<run'[r].got[l[1]], run'[r].got[l[2]]>>
      <4>1. PICK l \in run[r].links : Resolved(r, l) /\ k = <<run[r].got[l[1]], run[r].got[l[2]]>>
        BY <1>2, <3>3 DEF Going, Found
      <4>2. run'[r].got[l[1]] = run[r].got[l[1]] /\ run'[r].got[l[2]] = run[r].got[l[2]]
        BY <1>1, <2>5, <2>6, <4>1 DEF Resolved
      <4> QED BY <1>2, <4>1, <4>2 DEF Resolved, SameAim
    <3> QED BY <1>2, <3>1, <3>2, <3>3 DEF Found, SameAim, Ours, Resolved
  <2>9. \A d \in Id : d \in Owned(run[r].source)' => d = c \/ d \in Owned(run[r].source)
    BY <1>2, <2>3 DEF Owned, Stored, SameAim
  <2>10. ASSUME Done(r)
         PROVE  Done(r)'
    <3>1. \A y \in DOMAIN run[r].items :
            TypeOf[y] \notin run[r].types /\ y \notin run'[r].todo => run'[r].got[y] # None
      BY <1>1, <1>2, <2>5, <2>10, ReconcileAssumption DEF Done
    <3>2. ASSUME NEW d \in Id, d \in Owned(run[r].source)',
                 cis'[d].item \notin DOMAIN run[r].items,
                 TypeOf[cis'[d].item] \in TypesOf(r) \ run[r].types
          PROVE  d \in run[r].stale \/ (run[r].policy = "mark" /\ cis'[d].status = "missing")
      <4>1. d # c
        BY <1>2, <2>2, <2>3, <3>2
      <4> QED BY <2>3, <2>9, <2>10, <3>2, <4>1 DEF Done
    <3>3. ASSUME NEW l \in run[r].links \ run[r].toLink
          PROVE  /\ run'[r].got[l[1]] # None /\ run'[r].got[l[2]] # None
                 /\ <<run'[r].got[l[1]], run'[r].got[l[2]]>> \in run[r].keys
                 /\ \E e \in edges' : e.from = run'[r].got[l[1]] /\ e.to = run'[r].got[l[2]]
      <4>1. /\ Resolved(r, l) /\ <<run[r].got[l[1]], run[r].got[l[2]]>> \in run[r].keys
            /\ Joined(run[r].got[l[1]], run[r].got[l[2]])
        BY <2>10 DEF Done
      <4>2. run'[r].got[l[1]] = run[r].got[l[1]] /\ run'[r].got[l[2]] = run[r].got[l[2]]
        BY <1>1, <2>5, <2>6, <4>1 DEF Resolved
      <4> QED BY <2>1, <4>1, <4>2 DEF Resolved, Joined
    <3>4. \A d \in Owned(run[r].source)' : d \in Id
      BY DEF Owned, Stored
    <3> QED BY <1>2, <1>3, <3>1, <3>2, <3>3, <3>4
            DEF Done, TypesOf, Owned, Stored, Resolved, Joined, SameAim
  <2>11. ASSUME InPlace(r)
         PROVE  InPlace(r)' /\ run'[r].bumped = {}
    <3>1. PICK d \in Id : Ours(r, x, d)
      BY <1>2, <2>11 DEF InPlace
    <3>2. d \in Owned(run[r].source) /\ cis[d].item = x /\ cis[d].val = run[r].items[x]
      BY <1>1, <1>2, <3>1, OursIsOwned
    <3>3. c = d
      BY <1>1, <2>1, <3>2, ReconcileAssumption DEF Sound, Owned
    <3>4. run'[r].bumped = {}
      BY <2>1, <2>11, <3>2, <3>3 DEF InPlace, Owned, Stored
    <3>5. cis' = cis
      <4>1. cis[c] = ours
        BY <3>1, <3>3 DEF Ours, ours
      <4> QED BY <1>1, <2>1, <4>1 DEF Typed, TypeOK
    <3> QED BY <1>2, <2>11, <3>4, <3>5 DEF InPlace, SameAim, TypesOf, Owned, Stored, Ours
  <2> QED BY <1>2, <2>1, <2>8, <2>10, <2>11 DEF Going, SameAim
<1>6. \/ /\ Refused /\ run'[r].errors /\ run'[r].got = run[r].got
         /\ run'[r].bumped = run[r].bumped
      \/ \E c \in Id : Applied(r, x, c)
  BY <1>1, ApplyRun
<1> QED BY <1>4, <1>5, <1>6

LEMMA SweepItemGoing ==
  ASSUME Base, NEW r \in Run, Going(r), run[r].source \in Source, NEW c, SweepItem(r, c)
  PROVE  /\ Going(r)'
         /\ ~(run[r].rerun /\ run[r].policy = "delete")
<1>1. /\ Typed /\ Sound /\ Planned(r) /\ DOMAIN run[r].items \subseteq Item
      /\ run[r].got \in [Item -> Id \cup {None}] /\ run[r].links \subseteq Item \X Item
  BY RunType, SnapshotType, ReconcileAssumption DEF Base
<1>2. /\ SameAim(r) /\ c \in run[r].stale /\ c \in Id /\ run[r].todo = {}
      /\ run'[r].step = run[r].step /\ run'[r].types = run[r].types
      /\ run'[r].todo = {} /\ run'[r].stale = run[r].stale \ {c}
      /\ run'[r].toLink = run[r].toLink /\ run'[r].oldEdges = run[r].oldEdges
      /\ run'[r].keys = run[r].keys /\ run'[r].got = run[r].got
  BY <1>1, SweepRun
<1>3. ~(run[r].rerun /\ run[r].policy = "delete")
  BY <1>2 DEF Going, InPlace
<1>4. run[r].step # "edges"
  BY <1>1, <1>2 DEF Planned
<1>5. CASE Refused /\ run'[r].errors
  <2>1. Found(r)'
    BY <1>2, <1>5 DEF Going, Found, Refused, SameAim, Ours, Resolved
  <2> QED BY <1>2, <1>3, <1>5, <2>1 DEF Going, SameAim
<1>6. ASSUME run'[r].errors = run[r].errors,
             \A d \in Id \ {c} : cis'[d] = cis[d],
             c \in Stored => c \notin Stored' \/
               (run[r].policy = "mark" /\ cis'[c].status = "missing"
                /\ cis'[c].source = cis[c].source /\ cis'[c].item = cis[c].item),
             c \notin Stored => cis'[c] = cis[c],
             \A e \in edges : e.from = c \/ e.to = c \/ e \in edges',
             edges' \subseteq edges
      PROVE  Going(r)'
  <2>1. ASSUME NEW y \in DOMAIN run[r].items, NEW d \in Id, Ours(r, y, d)
        PROVE  d # c /\ cis'[d] = cis[d]
    <3>1. d \in Owned(run[r].source) /\ cis[d].item = y
      BY <1>1, <2>1, OursIsOwned
    <3>2. d # c
      BY <1>1, <1>2, <2>1, <3>1 DEF Planned, Owned, Stored
    <3> QED BY <1>6, <3>2
  <2>2. \A y \in Item : run[r].got[y] # None =>
          /\ y \in DOMAIN run[r].items /\ run[r].got[y] \in Id
          /\ Ours(r, y, run[r].got[y]) /\ run[r].got[y] # c
          /\ cis'[run[r].got[y]] = cis[run[r].got[y]]
    BY <1>1, <2>1 DEF Going, Found
  <2>3. Found(r)'
    BY <1>2, <2>2 DEF Going, Found, SameAim, Ours, Resolved
  <2>4. ASSUME Done(r)
        PROVE  Done(r)'
    <3>1. \A y \in DOMAIN run[r].items :
            TypeOf[y] \notin run[r].types /\ y \notin run'[r].todo => run'[r].got[y] # None
      BY <1>2, <2>4 DEF Done
    <3>2. ASSUME NEW d \in Owned(run[r].source)',
                 cis'[d].item \notin DOMAIN run[r].items,
                 TypeOf[cis'[d].item] \in TypesOf(r) \ run[r].types
          PROVE  d \in run'[r].stale \/ (run[r].policy = "mark" /\ cis'[d].status = "missing")
      <4>1. d \in Id /\ d \in Stored' /\ cis'[d].source = run[r].source
        BY <1>2 DEF Owned, Stored, SameAim
      <4>2. CASE d # c
        <5>1. d \in Owned(run[r].source) /\ cis'[d] = cis[d]
          BY <1>6, <4>1, <4>2 DEF Owned, Stored
        <5> QED BY <1>2, <2>4, <3>2, <4>2, <5>1 DEF Done
      <4>3. CASE d = c
        <5>1. c \in Stored
          BY <1>6, <4>1, <4>3 DEF Stored
        <5> QED BY <1>6, <4>1, <4>3, <5>1
      <4> QED BY <4>2, <4>3
    <3>3. ASSUME NEW l \in run[r].links \ run[r].toLink
          PROVE  /\ Resolved(r, l) /\ <<run[r].got[l[1]], run[r].got[l[2]]>> \in run[r].keys
                 /\ \E e \in edges' : e.from = run[r].got[l[1]] /\ e.to = run[r].got[l[2]]
      <4>1. /\ Resolved(r, l) /\ <<run[r].got[l[1]], run[r].got[l[2]]>> \in run[r].keys
            /\ Joined(run[r].got[l[1]], run[r].got[l[2]])
        BY <2>4 DEF Done
      <4>2. run[r].got[l[1]] # c /\ run[r].got[l[2]] # c
        BY <1>1, <2>2, <4>1 DEF Resolved
      <4> QED BY <1>6, <4>1, <4>2 DEF Joined
    <3> QED BY <1>2, <1>4, <3>1, <3>2, <3>3
            DEF Done, TypesOf, Owned, Stored, Resolved, Joined, SameAim
  <2> QED BY <1>2, <1>3, <1>6, <2>3, <2>4 DEF Going, SameAim
<1>7. ASSUME run'[r].errors = run[r].errors, c \in Stored,
             cis' = [cis EXCEPT ![c] = Gone], edges' = edges \ Touching(c)
      PROVE  Going(r)'
  <2>1. cis'[c] = Gone /\ \A d \in Id \ {c} : cis'[d] = cis[d]
    BY <1>1, <1>2, <1>7 DEF Typed, TypeOK
  <2>2. c \notin Stored'
    BY <2>1 DEF Stored
  <2>3. \A e \in edges : e.from = c \/ e.to = c \/ e \in edges'
    BY <1>7 DEF Touching
  <2> QED BY <1>6, <1>7, <2>1, <2>2, <2>3
<1>8. ASSUME run'[r].errors = run[r].errors, c \in Stored, run[r].policy = "mark",
             cis' = [cis EXCEPT ![c].status = "missing"], edges' = edges
      PROVE  Going(r)'
  <2> DEFINE missing == [cis[c] EXCEPT !.status = "missing"]
  <2>1. cis[c] \in Ci
    BY <1>1, <1>8, StoredCi
  <2>2. /\ missing.status = "missing" /\ missing.source = cis[c].source
        /\ missing.item = cis[c].item /\ cis' = [cis EXCEPT ![c] = missing]
    BY <1>8, <2>1 DEF Ci
  <2> HIDE DEF missing
  <2>3. cis'[c] = missing /\ \A d \in Id \ {c} : cis'[d] = cis[d]
    BY <1>1, <1>2, <2>2 DEF Typed, TypeOK
  <2> QED BY <1>6, <1>8, <2>2, <2>3
<1>9. ASSUME run'[r].errors = run[r].errors, c \notin Stored, Refused
      PROVE  Going(r)'
  BY <1>6, <1>9 DEF Refused
<1>10. Going(r)'
  BY <1>1, <1>5, <1>7, <1>8, <1>9, SweepRun
<1> QED BY <1>3, <1>10

LEMMA LinkGoing ==
  ASSUME Base, NEW r \in Run, Going(r), NEW link, Link(r, link)
  PROVE  Going(r)' /\ run'[r].bumped = run[r].bumped
<1> DEFINE a == run[r].got[link[1]]
           b == run[r].got[link[2]]
           edge == [from |-> a, to |-> b, source |-> run[r].source]
<1>1. Typed /\ Sound /\ Planned(r) /\ run[r].toLink \subseteq run[r].links
  BY RunType DEF Base
<1>2. /\ SameAim(r) /\ ItemsDone(r) /\ link \in run[r].toLink
      /\ run'[r].step = run[r].step /\ run'[r].types = run[r].types
      /\ run'[r].todo = run[r].todo /\ run'[r].stale = run[r].stale
      /\ run'[r].toLink = run[r].toLink \ {link} /\ run'[r].oldEdges = run[r].oldEdges
      /\ run'[r].got = run[r].got /\ run'[r].bumped = run[r].bumped /\ cis' = cis
  BY <1>1, LinkRun
<1>3. run'[r].keys = run[r].keys \/
        (Resolved(r, link) /\ run'[r].keys = run[r].keys \cup {<<a, b>>})
  BY <1>1, LinkRun
<1>4. \/ run'[r].errors
      \/ /\ run'[r].errors = run[r].errors /\ Resolved(r, link)
         /\ run'[r].keys = run[r].keys \cup {<<a, b>>}
         /\ edges' = IF Joined(a, b) THEN edges ELSE edges \cup {edge}
  BY <1>1, LinkRun
<1>5. run[r].step = "items"
  BY <1>2 DEF ItemsDone, Between
<1>6. Found(r)'
  <2>1. ASSUME NEW k \in run'[r].keys
        PROVE  \E l \in run[r].links :
                 Resolved(r, l) /\ k = <<run[r].got[l[1]], run[r].got[l[2]]>>
    <3>1. CASE k \in run[r].keys
      BY <3>1 DEF Going, Found
    <3>2. CASE Resolved(r, link) /\ k = <<a, b>>
      BY <1>1, <1>2, <3>2
    <3> QED BY <1>3, <2>1, <3>1, <3>2
  <2> QED BY <1>2, <2>1 DEF Going, Found, SameAim, Ours, Resolved
<1>7. ASSUME Done(r), ~run'[r].errors
      PROVE  Done(r)'
  <2>1. edges \subseteq edges' /\ \E e \in edges' : e.from = a /\ e.to = b
    <3>1. edge.from = a /\ edge.to = b
      OBVIOUS
    <3> HIDE DEF edge
    <3> QED BY <1>4, <1>7, <3>1 DEF Joined
  <2>2. ASSUME NEW l \in run[r].links, l \notin run'[r].toLink
        PROVE  /\ Resolved(r, l) /\ <<run[r].got[l[1]], run[r].got[l[2]]>> \in run'[r].keys
               /\ \E e \in edges' : e.from = run[r].got[l[1]] /\ e.to = run[r].got[l[2]]
    <3>1. CASE l = link
      BY <1>4, <1>7, <2>1, <3>1
    <3>2. CASE l # link
      <4>1. /\ Resolved(r, l) /\ <<run[r].got[l[1]], run[r].got[l[2]]>> \in run[r].keys
            /\ Joined(run[r].got[l[1]], run[r].got[l[2]])
        BY <1>2, <1>7, <2>2, <3>2 DEF Done
      <4> QED BY <1>4, <1>7, <2>1, <4>1 DEF Joined
    <3> QED BY <3>1, <3>2
  <2>3. \A c \in Owned(run[r].source) :
          /\ cis[c].item \notin DOMAIN run[r].items
          /\ TypeOf[cis[c].item] \in TypesOf(r) \ run[r].types
          => c \in run[r].stale \/ (run[r].policy = "mark" /\ cis[c].status = "missing")
    BY <1>7 DEF Done
  <2>4. \A x \in DOMAIN run[r].items :
          TypeOf[x] \notin run[r].types /\ x \notin run[r].todo => run[r].got[x] # None
    BY <1>7 DEF Done
  <2> HIDE DEF a, b, edge
  <2> QED BY <1>2, <1>5, <2>2, <2>3, <2>4
          DEF Done, TypesOf, Owned, Stored, Resolved, Joined, SameAim
<1>8. InPlace(r) => InPlace(r)'
  BY <1>2 DEF InPlace, SameAim, TypesOf, Owned, Stored, Ours
<1>9. ~run'[r].errors => ~run[r].errors
  BY <1>4
<1> QED BY <1>2, <1>6, <1>7, <1>8, <1>9 DEF Going, SameAim

LEMMA ListEdgesGoing ==
  ASSUME Base, NEW r \in Run, Going(r), ListEdges(r)
  PROVE  Going(r)' /\ run'[r].bumped = run[r].bumped
<1>1. Typed
  BY DEF Base
<1>2. /\ SameAim(r) /\ run[r].todo = {} /\ run[r].stale = {}
      /\ run[r].types = {} /\ run[r].toLink = {}
      /\ run'[r].step = "edges" /\ run'[r].types = {} /\ run'[r].todo = {}
      /\ run'[r].stale = {} /\ run'[r].toLink = {}
      /\ \A e : e \in run'[r].oldEdges <=>
           e \in edges /\ e.source = run[r].source /\ <<e.from, e.to>> \notin run[r].keys
      /\ run'[r].got = run[r].got /\ run'[r].keys = run[r].keys
      /\ run'[r].errors = run[r].errors /\ run'[r].bumped = run[r].bumped
      /\ cis' = cis /\ edges' = edges
  BY <1>1, ListEdgesRun
<1>3. Found(r)'
  BY <1>2 DEF Going, Found, SameAim, Ours, Resolved
<1>4. Done(r) => Done(r)'
  BY <1>2 DEF Done, TypesOf, Owned, Stored, Resolved, Joined, SameAim
<1>5. InPlace(r) => InPlace(r)'
  BY <1>2 DEF InPlace, SameAim, TypesOf, Owned, Stored, Ours
<1> QED BY <1>2, <1>3, <1>4, <1>5 DEF Going, SameAim

LEMMA UnlinkGoing ==
  ASSUME Base, NEW r \in Run, Going(r), NEW e, Unlink(r, e)
  PROVE  Going(r)' /\ run'[r].bumped = run[r].bumped
<1>1. Typed /\ Planned(r)
  BY DEF Base
<1>2. /\ SameAim(r) /\ e \in run[r].oldEdges
      /\ run'[r].step = run[r].step /\ run'[r].types = run[r].types
      /\ run'[r].todo = run[r].todo /\ run'[r].stale = run[r].stale
      /\ run'[r].toLink = run[r].toLink /\ run'[r].oldEdges = run[r].oldEdges \ {e}
      /\ run'[r].got = run[r].got /\ run'[r].keys = run[r].keys
      /\ run'[r].bumped = run[r].bumped /\ cis' = cis
      /\ run'[r].errors \/ (run'[r].errors = run[r].errors /\ edges' = edges \ {e})
  BY <1>1, UnlinkRun
<1>3. Found(r)'
  BY <1>2 DEF Going, Found, SameAim, Ours, Resolved
<1>4. ASSUME Done(r), ~run'[r].errors
      PROVE  Done(r)'
  <2>1. edges' = edges \ {e} /\ <<e.from, e.to>> \notin run[r].keys
    BY <1>1, <1>2, <1>4 DEF Planned
  <2>2. ASSUME NEW l \in run[r].links \ run[r].toLink
        PROVE  /\ Resolved(r, l) /\ <<run[r].got[l[1]], run[r].got[l[2]]>> \in run[r].keys
               /\ \E f \in edges' : f.from = run[r].got[l[1]] /\ f.to = run[r].got[l[2]]
    <3>1. /\ Resolved(r, l) /\ <<run[r].got[l[1]], run[r].got[l[2]]>> \in run[r].keys
          /\ Joined(run[r].got[l[1]], run[r].got[l[2]])
      BY <1>4 DEF Done
    <3> QED BY <2>1, <3>1 DEF Joined
  <2>3. run[r].step = "edges" => \A f \in edges' :
          f.source = run[r].source => <<f.from, f.to>> \in run[r].keys \/ f \in run'[r].oldEdges
    BY <1>2, <1>4, <2>1 DEF Done
  <2>4. \A c \in Owned(run[r].source) :
          /\ cis[c].item \notin DOMAIN run[r].items
          /\ TypeOf[cis[c].item] \in TypesOf(r) \ run[r].types
          => c \in run[r].stale \/ (run[r].policy = "mark" /\ cis[c].status = "missing")
    BY <1>4 DEF Done
  <2>5. \A x \in DOMAIN run[r].items :
          TypeOf[x] \notin run[r].types /\ x \notin run[r].todo => run[r].got[x] # None
    BY <1>4 DEF Done
  <2> QED BY <1>2, <2>2, <2>3, <2>4, <2>5
          DEF Done, TypesOf, Owned, Stored, Resolved, Joined, SameAim
<1>5. InPlace(r) => InPlace(r)'
  BY <1>2 DEF InPlace, SameAim, TypesOf, Owned, Stored, Ours
<1>6. ~run'[r].errors => ~run[r].errors
  BY <1>2
<1> QED BY <1>2, <1>3, <1>4, <1>5, <1>6 DEF Going, SameAim

LEMMA FinishAgrees ==
  ASSUME Base, NEW r \in Run, Going(r), Finish(r), ~run[r].errors
  PROVE  Agrees(r)'
<1>1. Typed /\ Sound /\ Planned(r)
  BY DEF Base
<1>2. /\ run[r].step = "edges" /\ run[r].oldEdges = {} /\ Active(r)
      /\ Over(r, "completed") /\ cis' = cis /\ edges' = edges
  BY DEF Finish, Active
<1>3. SameAim(r)
  BY <1>1, <1>2, OverRun
<1>4. /\ run[r].types = {} /\ run[r].todo = {} /\ run[r].stale = {} /\ run[r].toLink = {}
      /\ run[r].source \in Source
  BY <1>1, <1>2 DEF Planned
<1>5. Found(r) /\ Done(r)
  BY DEF Going
<1>6. /\ run[r].got \in [Item -> Id \cup {None}] /\ run[r].links \subseteq Item \X Item
      /\ DOMAIN run[r].items \subseteq Item
  BY <1>1, RunType, SnapshotType, ReconcileAssumption
<1>7. \A x \in Item : run[r].got[x] # None =>
        /\ run[r].got[x] \in Id /\ x \in DOMAIN run[r].items
        /\ Ours(r, x, run[r].got[x]) /\ Denotes(run[r].source, x, run[r].got[x])
  BY <1>1, <1>4, <1>5, <1>6, OursIsOwned DEF Found, Denotes
<1>8. \A x \in DOMAIN run[r].items : \E c \in Id :
        Denotes(run[r].source, x, c) /\ Ours(r, x, c)
  BY <1>4, <1>5, <1>6, <1>7 DEF Done
<1>9. \A c \in Owned(run[r].source) :
        cis[c].item \notin DOMAIN run[r].items /\ TypeOf[cis[c].item] \in TypesOf(r)
          => run[r].policy = "mark" /\ cis[c].status = "missing"
  BY <1>4, <1>5 DEF Done
<1>10. \A link \in run[r].links : \E a, b \in Id :
         /\ Denotes(run[r].source, link[1], a) /\ Denotes(run[r].source, link[2], b)
         /\ Joined(a, b)
  <2>1. ASSUME NEW link \in run[r].links
        PROVE  \E a, b \in Id :
                 /\ Denotes(run[r].source, link[1], a) /\ Denotes(run[r].source, link[2], b)
                 /\ Joined(a, b)
    <3>1. /\ Resolved(r, link) /\ Joined(run[r].got[link[1]], run[r].got[link[2]])
          /\ link[1] \in Item /\ link[2] \in Item
      BY <1>4, <1>5, <1>6 DEF Done
    <3> QED BY <1>7, <3>1 DEF Resolved
  <2> QED BY <2>1
<1>11. \A e \in edges : e.source = run[r].source => \E link \in run[r].links :
         /\ Denotes(run[r].source, link[1], e.from)
         /\ Denotes(run[r].source, link[2], e.to)
  <2>1. ASSUME NEW e \in edges, e.source = run[r].source
        PROVE  \E link \in run[r].links :
                 /\ Denotes(run[r].source, link[1], e.from)
                 /\ Denotes(run[r].source, link[2], e.to)
    <3>1. <<e.from, e.to>> \in run[r].keys
      BY <1>2, <1>5, <2>1 DEF Done
    <3>2. PICK link \in run[r].links :
            /\ Resolved(r, link)
            /\ <<e.from, e.to>> = <<run[r].got[link[1]], run[r].got[link[2]]>>
      BY <1>5, <3>1 DEF Found
    <3> QED BY <1>6, <1>7, <3>2 DEF Resolved
  <2> QED BY <2>1
<1>12. Agrees(r)
  BY <1>8, <1>9, <1>10, <1>11 DEF Agrees
<1> QED BY <1>2, <1>3, <1>12
        DEF Agrees, SameAim, TypesOf, Denotes, Owned, Stored, Ours, Joined

LEMMA RunGoing ==
  ASSUME Base, NEW r \in Run, Active(r), Going(r), Handle(r) \/ Abort(r)
  PROVE  /\ SameAim(r)
         /\ \/ Going(r)' /\ Active(r)' /\ prior' = prior
            \/ run'[r].step = "over" /\ (prior' = prior \/ Finish(r))
         /\ run[r].rerun /\ run[r].policy = "delete" => run'[r].bumped = {}
<1>1. Typed /\ Planned(r) /\ run[r].source \in Source
  BY DEF Base, Planned
<1>2. run[r].rerun /\ run[r].policy = "delete" => run[r].bumped = {}
  BY DEF Going, InPlace
<1>3. ASSUME NEW t, OpenType(r, t)
      PROVE  /\ SameAim(r) /\ Going(r)' /\ Active(r)' /\ prior' = prior
             /\ run'[r].bumped = run[r].bumped
  BY <1>1, <1>3, OpenTypeGoing, OpenTypeRun DEF Active, OpenType
<1>4. ASSUME NEW x, ApplyItem(r, x)
      PROVE  /\ SameAim(r) /\ Going(r)' /\ Active(r)' /\ prior' = prior
             /\ run[r].rerun /\ run[r].policy = "delete" => run'[r].bumped = {}
  <2>1. SameAim(r) /\ run'[r].step = run[r].step
    BY <1>1, <1>4, ApplyRun
  <2>2. prior' = prior
    BY <1>4 DEF ApplyItem, Refuse
  <2> QED BY <1>1, <1>4, <2>1, <2>2, ApplyItemGoing DEF Active
<1>5. ASSUME NEW c, SweepItem(r, c)
      PROVE  /\ SameAim(r) /\ Going(r)' /\ Active(r)' /\ prior' = prior
             /\ ~(run[r].rerun /\ run[r].policy = "delete")
  BY <1>1, <1>5, SweepItemGoing, SweepRun DEF Active
<1>6. ASSUME NEW link, Link(r, link)
      PROVE  /\ SameAim(r) /\ Going(r)' /\ Active(r)' /\ prior' = prior
             /\ run'[r].bumped = run[r].bumped
  BY <1>1, <1>6, LinkGoing, LinkRun DEF Active
<1>7. ASSUME ListEdges(r)
      PROVE  /\ SameAim(r) /\ Going(r)' /\ Active(r)' /\ prior' = prior
             /\ run'[r].bumped = run[r].bumped
  BY <1>1, <1>7, ListEdgesGoing, ListEdgesRun DEF Active
<1>8. ASSUME NEW e, Unlink(r, e)
      PROVE  /\ SameAim(r) /\ Going(r)' /\ Active(r)' /\ prior' = prior
             /\ run'[r].bumped = run[r].bumped
  BY <1>1, <1>8, UnlinkGoing, UnlinkRun DEF Active
<1>9. ASSUME Finish(r)
      PROVE  SameAim(r) /\ run'[r].step = "over" /\ run'[r].bumped = run[r].bumped
  BY <1>1, <1>9, OverRun DEF Finish
<1>10. ASSUME Abort(r)
       PROVE  SameAim(r) /\ run'[r].step = "over" /\ run'[r].bumped = run[r].bumped
              /\ prior' = prior
  <2>1. PICK status \in {"failed", "running"} : Over(r, status)
    BY <1>10 DEF Abort
  <2> QED BY <1>1, <1>10, <2>1, OverRun DEF Abort
<1> QED BY <1>2, <1>3, <1>4, <1>5, <1>6, <1>7, <1>8, <1>9, <1>10 DEF Handle

(* One run per source, what its runs bring about, and what that makes of   *)
(* the store.                                                              *)
Agreed ==
  /\ Alone /\ Progress /\ RerunIsQuiet
  /\ \A s \in Source : prior[s] # None => Agrees(prior[s])

LEMMA PriorRun ==
  ASSUME Typed, NEW s \in Source, prior[s] # None
  PROVE  prior[s] \in Run
BY DEF Typed, TypeOK

LEMMA StartAgreed ==
  ASSUME Base, Agreed, OnePerSource,
         NEW r \in Run, NEW s \in Source, NEW policy \in Policies,
         NEW items \in Snapshots, NEW links \in SUBSET Links, Start(r, s, policy, items, links)
  PROVE  Agreed'
<1>1. Typed /\ Sound /\ Planned(r) /\ \A q \in Run : Planned(q)
  BY DEF Base
<1>2. Others(r) /\ run'[r].step = "items" /\ run'[r].source = s
  BY <1>1, StartRun
<1>3. Moves(Gone)
  <2>1. cis' = cis /\ edges' = edges
    BY DEF Start
  <2> QED BY <1>1, <2>1, SameStore
<1>4. /\ run[r].step = "idle" /\ prior' = [prior EXCEPT ![s] = None]
      /\ \A q \in Run : Active(q) => run[q].source # s
  BY DEF Start
<1>5. prior'[s] = None /\ \A t \in Source : t # s => prior'[t] = prior[t]
  BY <1>1, <1>4 DEF Typed, TypeOK
<1>6. Going(r)' /\ run'[r].bumped = {}
  BY <1>1, StartGoing, PriorRun DEF Agreed, Alone
<1>7. ASSUME NEW q \in Run, Active(q)
      PROVE  q # r /\ run'[q] = run[q] /\ Going(q)' /\ run[q].source \in Source
  <2>1. q # r /\ run'[q] = run[q] /\ Going(q) /\ run[q].source \in Source
    BY <1>1, <1>2, <1>4, <1>7 DEF Others, Agreed, Progress, Active, Planned
  <2> QED BY <1>1, <1>3, <2>1, StillGoing, ReconcileAssumption DEF Moves
<1>8. \A q \in Run : Active(q)' => q = r \/ Active(q)
  BY <1>2 DEF Active, Others
<1>9. Progress'
  BY <1>6, <1>7, <1>8 DEF Progress
<1>10. RerunIsQuiet'
  BY <1>2, <1>6 DEF Agreed, RerunIsQuiet, Others
<1>11. ASSUME NEW t \in Source, prior'[t] # None
       PROVE  /\ t # s /\ prior'[t] = prior[t] /\ prior[t] \in Run /\ prior[t] # r
              /\ run'[prior[t]] = run[prior[t]] /\ run[prior[t]].source = t
              /\ run[prior[t]].step = "over" /\ Agrees(prior[t])
  <2>1. t # s /\ prior'[t] = prior[t] /\ prior[t] \in Run
    BY <1>1, <1>5, <1>11, PriorRun
  <2> QED BY <1>2, <1>4, <1>11, <2>1 DEF Agreed, Alone, Others
<1>12. Alone'
  <2>1. \A q, p \in Run :
          Active(q)' /\ Active(p)' /\ run'[q].source = run'[p].source => q = p
    BY <1>2, <1>4, <1>7, <1>8 DEF Agreed, Alone
  <2>2. ASSUME NEW t \in Source, prior'[t] # None
        PROVE  /\ run'[prior'[t]].source = t /\ run'[prior'[t]].step = "over"
               /\ \A q \in Run : Active(q)' => run'[q].source # t
    <3>1. \A q \in Run : Active(q) => run[q].source # t
      BY <1>11, <2>2 DEF Agreed, Alone
    <3> QED BY <1>2, <1>7, <1>8, <1>11, <2>2, <3>1
  <2> QED BY <2>1, <2>2 DEF Alone
<1>13. ASSUME NEW t \in Source, prior'[t] # None
       PROVE  Agrees(prior[t])'
  <2>1. PICK p \in Run : p = prior[t]
    BY <1>11, <1>13
  <2>2. prior'[t] = p /\ run'[p] = run[p] /\ Agrees(p) /\ run[p].source \in Source
    BY <1>11, <1>13, <2>1
  <2>3. Agrees(p)'
    BY <1>1, <1>3, <2>2, StillGoing, ReconcileAssumption DEF Moves
  <2> QED BY <2>2, <2>3
<1> QED BY <1>9, <1>10, <1>12, <1>13 DEF Agreed

LEMMA RunAgreed ==
  ASSUME Base, Agreed, NEW r \in Run, Active(r), Handle(r) \/ Abort(r)
  PROVE  Agreed'
<1>1. Typed /\ Sound /\ Planned(r) /\ \A q \in Run : Planned(q)
  BY DEF Base
<1>2. PICK s \in Source : s = run[r].source
  BY <1>1 DEF Planned
<1>3. CiMoves(s) /\ EdgeMoves(s) /\ Others(r) /\ s # None
  BY <1>2, RunBase, ReconcileAssumption DEF Moves
<1>4. Going(r) /\ prior[s] = None
  BY <1>2 DEF Agreed, Alone, Progress
<1>5. /\ SameAim(r)
      /\ \/ Going(r)' /\ Active(r)' /\ prior' = prior
         \/ run'[r].step = "over" /\ (prior' = prior \/ Finish(r))
      /\ run[r].rerun /\ run[r].policy = "delete" => run'[r].bumped = {}
  BY <1>4, RunGoing
<1>6. ASSUME NEW q \in Run, Active(q), q # r
      PROVE  run'[q] = run[q] /\ Going(q)' /\ run[q].source # s
  <2>1. run'[q] = run[q] /\ Going(q) /\ run[q].source \in Source /\ run[q].source # s
    BY <1>1, <1>2, <1>3, <1>6 DEF Others, Agreed, Progress, Alone, Planned
  <2> QED BY <1>1, <1>3, <2>1, StillGoing
<1>7. \A q \in Run : Active(q)' => Active(q)
  BY <1>3 DEF Active, Others
<1>8. Progress'
  BY <1>5, <1>6, <1>7 DEF Progress, Active
<1>9. RerunIsQuiet'
  BY <1>3, <1>5 DEF Agreed, RerunIsQuiet, Others, SameAim
<1>10. ASSUME NEW t \in Source, prior[t] # None
       PROVE  \E p \in Run :
                /\ p = prior[t] /\ t # s /\ run'[p] = run[p]
                /\ run[p].source = t /\ run[p].step = "over" /\ Agrees(p)'
  <2>1. PICK p \in Run : p = prior[t]
    BY <1>1, <1>10, PriorRun
  <2>2. t # s /\ run[p].source = t /\ run[p].step = "over" /\ Agrees(p)
    BY <1>4, <1>10, <2>1 DEF Agreed, Alone
  <2>3. p # r /\ run'[p] = run[p]
    BY <1>3, <2>2 DEF Active, Others
  <2>4. Agrees(p)'
    BY <1>1, <1>3, <2>2, <2>3, StillGoing
  <2> QED BY <2>1, <2>2, <2>3, <2>4
<1>11. \A q, p \in Run :
         Active(q)' /\ Active(p)' /\ run'[q].source = run'[p].source => q = p
  BY <1>2, <1>5, <1>6, <1>7 DEF Agreed, Alone, SameAim
<1>12. \A t \in Source : prior[t] # None =>
         /\ run'[prior[t]].source = t /\ run'[prior[t]].step = "over"
         /\ \A q \in Run : Active(q)' => run'[q].source # t
  BY <1>2, <1>5, <1>6, <1>7, <1>10 DEF Agreed, Alone, SameAim
<1>13. CASE prior' = prior
  <2>1. Alone'
    BY <1>11, <1>12, <1>13 DEF Alone
  <2>2. ASSUME NEW t \in Source, prior'[t] # None
        PROVE  Agrees(prior[t])'
    <3>1. PICK p \in Run : p = prior[t] /\ Agrees(p)'
      BY <1>10, <1>13, <2>2
    <3>2. p = prior'[t]
      BY <1>13, <3>1
    <3> QED BY <3>1, <3>2
  <2> QED BY <1>8, <1>9, <2>1, <2>2 DEF Agreed
<1>14. CASE Finish(r) /\ run'[r].step = "over"
  <2>1. prior' = [prior EXCEPT ![s] = IF run[r].errors THEN None ELSE r]
    BY <1>2, <1>14 DEF Finish
  <2>2. \A t \in Source : t # s => prior'[t] = prior[t]
    BY <1>1, <2>1 DEF Typed, TypeOK
  <2>3. prior'[s] # None => prior'[s] = r /\ ~run[r].errors
    BY <1>1, <2>1 DEF Typed, TypeOK
  <2>4. \A q \in Run : Active(q)' => run'[q].source # s
    BY <1>6, <1>7, <1>14 DEF Active
  <2>5. run'[r].source = s
    BY <1>2, <1>5 DEF SameAim
  <2>6. Alone'
    <3>1. \A t \in Source : prior'[t] # None =>
            /\ run'[prior'[t]].source = t /\ run'[prior'[t]].step = "over"
            /\ \A q \in Run : Active(q)' => run'[q].source # t
      BY <1>12, <1>14, <2>2, <2>3, <2>4, <2>5
    <3> QED BY <1>11, <3>1 DEF Alone
  <2>7. ASSUME NEW t \in Source, prior'[t] # None
        PROVE  Agrees(prior[t])'
    <3>1. CASE t # s
      <4>1. PICK p \in Run : p = prior[t] /\ Agrees(p)'
        BY <1>10, <2>2, <2>7, <3>1
      <4>2. p = prior'[t]
        BY <2>2, <3>1, <4>1
      <4> QED BY <4>1, <4>2
    <3>2. CASE t = s
      <4>1. Agrees(r)'
        BY <1>4, <1>14, <2>3, <2>7, <3>2, FinishAgrees
      <4>2. prior'[t] = r
        BY <2>3, <2>7, <3>2
      <4> QED BY <4>1, <4>2
    <3> QED BY <3>1, <3>2
  <2> QED BY <1>8, <1>9, <2>6, <2>7 DEF Agreed
<1> QED BY <1>5, <1>13, <1>14

LEMMA AgreedStep ==
  ASSUME Base, Agreed, OnePerSource, [Next]_vars
  PROVE  Agreed'
<1>1. Typed /\ Sound /\ \A q \in Run : Planned(q)
  BY DEF Base
<1>2. ASSUME CiMoves(Gone), EdgeMoves(Gone), run' = run, prior' = prior
      PROVE  Agreed'
  <2>1. ASSUME NEW q \in Run, Active(q)
        PROVE  Going(q)'
    <3>1. Going(q) /\ run[q].source \in Source /\ run'[q] = run[q]
      BY <1>1, <1>2, <2>1 DEF Agreed, Progress, Planned
    <3> QED BY <1>1, <1>2, <3>1, StillGoing, ReconcileAssumption
  <2>2. ASSUME NEW s \in Source, prior[s] # None
        PROVE  Agrees(prior[s])'
    <3>1. PICK p \in Run : p = prior[s]
      BY <1>1, <2>2, PriorRun
    <3>2. Agrees(p) /\ run[p].source \in Source /\ run'[p] = run[p] /\ p = prior'[s]
      BY <1>2, <2>2, <3>1 DEF Agreed, Alone
    <3>3. Agrees(p)'
      BY <1>1, <1>2, <3>2, StillGoing, ReconcileAssumption
    <3> QED BY <3>2, <3>3
  <2>3. Alone' /\ RerunIsQuiet'
    BY <1>2 DEF Agreed, Alone, RerunIsQuiet, Active
  <2>4. Progress'
    BY <1>2, <2>1 DEF Progress, Active
  <2> QED BY <1>2, <2>2, <2>3, <2>4 DEF Agreed
<1>3. CASE UNCHANGED vars
  BY <1>1, <1>2, <1>3, SameStore DEF vars, Moves
<1>4. ASSUME NEW r \in Run, NEW s \in Source, NEW policy \in Policies,
             NEW items \in Snapshots, NEW links \in SUBSET Links,
             Start(r, s, policy, items, links)
      PROVE  Agreed'
  BY <1>4, StartAgreed
<1>5. ASSUME NEW r \in Run, Handle(r) \/ Abort(r)
      PROVE  Agreed'
  <2>1. Active(r)
    <3>1. run[r].step \in {"idle", "over"} =>
            /\ run[r].todo = {} /\ run[r].stale = {} /\ run[r].toLink = {}
            /\ run[r].oldEdges = {}
      BY <1>1 DEF Planned, NewRun
    <3>2. CASE \/ \E t \in {TypeOf[x] : x \in Item} : OpenType(r, t)
               \/ \E link \in run[r].toLink : Link(r, link)
               \/ ListEdges(r) \/ Finish(r) \/ Abort(r)
      BY <3>2 DEF OpenType, Link, ListEdges, ItemsDone, Between, Finish, Abort, Active
    <3>3. CASE \/ \E x \in run[r].todo : ApplyItem(r, x)
               \/ \E c \in run[r].stale : SweepItem(r, c)
               \/ \E e \in run[r].oldEdges : Unlink(r, e)
      BY <3>1, <3>3 DEF Active
    <3> QED BY <1>5, <3>2, <3>3 DEF Handle
  <2> QED BY <1>5, <2>1, RunAgreed
<1>6. ASSUME NEW a \in Manual, NEW b \in Id, UserLink(a, b)
      PROVE  Agreed'
  BY <1>2, <1>6, UserLinkBase DEF UserLink, Moves
<1> QED BY <1>3, <1>4, <1>5, <1>6 DEF Next, Quiet

LEMMA InitAgreed ==
  ASSUME Init
  PROVE  Agreed
<1>1. \A r \in Run : run[r].step = "idle" /\ ~run[r].rerun
  BY DEF Init, NewRun
<1>2. \A s \in Source : prior[s] = None
  BY DEF Init
<1> QED BY <1>1, <1>2 DEF Agreed, Alone, Progress, RerunIsQuiet, Active

LEMMA AgreedHolds == ASSUME OnePerSource PROVE Spec => []Agreed
<1>1. Init => Agreed
  BY InitAgreed
<1>2. Base /\ Base' /\ Agreed /\ [Next]_vars => Agreed'
  BY AgreedStep
<1> QED BY <1>1, <1>2, BaseHolds, PTL DEF Spec

(* Where a source has one run at a time, a run that reported no error has  *)
(* made the CMDB agree with its snapshot, item by item and edge by edge,   *)
(* and no run of another source and no user undoes it before the next run  *)
(* of the source starts (Reconciler.reconcile).                            *)
THEOREM ConvergedHolds == ASSUME OnePerSource PROVE Spec => []Converged
<1>1. Agreed => Converged
  BY ConvergedAgrees DEF Agreed
<1> QED BY <1>1, AgreedHolds, PTL

(* Where a source has one run at a time, a run under policy delete that    *)
(* repeats the run before it, which reported no error, creates, revises    *)
(* and deletes no CI.                                                      *)
THEOREM RerunIsQuietHolds == ASSUME OnePerSource PROVE Spec => []RerunIsQuiet
<1>1. Agreed => RerunIsQuiet
  BY DEF Agreed
<1> QED BY <1>1, AgreedHolds, PTL

=============================================================================
