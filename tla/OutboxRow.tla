----------------------------- MODULE OutboxRow -----------------------------
(***************************************************************************)
(* The life of an outbox row, seen from outside: a committed write makes   *)
(* it pending, dispatchers take copies of it while it is pending, and only *)
(* one that holds a copy settles it, as sent or as dead.  An operator's    *)
(* replay brings a dead row back.                                          *)
(*                                                                         *)
(* With one dispatcher this is the diagram of docs/ARCHITECTURE.md,        *)
(* section 6.  With several a copy may outlive the status it was taken     *)
(* from, and settle the row once more.                                     *)
(***************************************************************************)
CONSTANTS Ev, Worker
VARIABLES status,  \* status[e]: "none" before the write, then the row's status
          holders  \* holders[e]: the dispatchers that hold a copy of e

vars == <<status, holders>>

Init ==
  /\ status = [e \in Ev |-> "none"]
  /\ holders = [e \in Ev |-> {}]

Move(e, from, to) ==
  /\ status[e] = from
  /\ status' = [status EXCEPT ![e] = to]
  /\ UNCHANGED holders

(* A batch: w takes copies of pending rows.                                *)
Take(w, rows) ==
  /\ \A e \in rows : status[e] = "pending"
  /\ \A e \in Ev : w \notin holders[e]
  /\ holders' = [e \in Ev |-> IF e \in rows THEN holders[e] \cup {w} ELSE holders[e]]
  /\ UNCHANGED status

(* w lets go of its copies of some rows.                                   *)
Drop(w, rows) ==
  holders' = [e \in Ev |-> IF e \in rows THEN holders[e] \ {w} ELSE holders[e]]

(* w settles its copy of e: it marks the row, or puts it off.  It keeps    *)
(* the copy when it does not know of its success, and drops all its copies *)
(* when the error ends the batch.                                          *)
Settle(w, e) ==
  /\ w \in holders[e]
  /\ \E rows \in {{}, {e}, Ev} : Drop(w, rows)
  /\ \E to \in {"sent", "dead", status[e]} : status' = [status EXCEPT ![e] = to]

(* w stopped, or could not even record a failure.                          *)
Lose(w) ==
  /\ Drop(w, Ev)
  /\ UNCHANGED status

Next ==
  \/ \E e \in Ev : Move(e, "none", "pending") \/ Move(e, "dead", "pending")
  \/ \E w \in Worker :
       \/ \E rows \in SUBSET Ev : Take(w, rows)
       \/ \E e \in Ev : Settle(w, e)
       \/ Lose(w)

Spec == Init /\ [][Next]_vars
=============================================================================
