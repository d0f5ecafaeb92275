----------------------------- MODULE CILedger ------------------------------
(***************************************************************************)
(* What the CI repository promises of each CI: it has a current version,   *)
(* and one step changes the version, appends the change to the CI's        *)
(* lineage and publishes it, all together.  A version starts at revision   *)
(* 1, every change adds one to it, and a removed CI never comes back.      *)
(***************************************************************************)
EXTENDS Naturals, Sequences

CONSTANTS Ci, Content, None

VARIABLES version,  \* version[c]: the current version of c, or None
          log,      \* log[c]: the changes of c, oldest first
          feed      \* feed[c]: what was published of c, oldest first

vars == <<version, log, feed>>

First(content) == [rev |-> 1, content |-> content]
Next1(v, content) == [rev |-> v.rev + 1, content |-> content]

Init ==
  \E S \in SUBSET Ci, content \in Content :
    /\ version = [c \in Ci |-> IF c \in S THEN First(content) ELSE None]
    /\ log = [c \in Ci |-> IF c \in S
                THEN <<[before |-> None, after |-> First(content)]>> ELSE <<>>]
    /\ feed = [c \in Ci |-> IF c \in S THEN <<First(content)>> ELSE <<>>]

Change(c, v) ==
  /\ version' = [version EXCEPT ![c] = v]
  /\ log' = [log EXCEPT ![c] = Append(@, [before |-> version[c], after |-> v])]
  /\ feed' = [feed EXCEPT ![c] = Append(@, IF v = None THEN version[c] ELSE v)]

Create(c) == log[c] = <<>> /\ \E content \in Content : Change(c, First(content))

Revise(c) ==
  version[c] # None /\ \E content \in Content : Change(c, Next1(version[c], content))

Remove(c) == version[c] # None /\ Change(c, None)

Next == \E c \in Ci : Create(c) \/ Revise(c) \/ Remove(c)

Spec == Init /\ [][Next]_vars
=============================================================================
