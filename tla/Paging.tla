------------------------------- MODULE Paging -------------------------------
(***************************************************************************)
(* A client walks through the CIs of a type page by page: CIRepository     *)
(* .list (src/cmdboss/repository.py) and the cursor of cursor.py, while    *)
(* other clients create, update and delete CIs.                            *)
(*                                                                         *)
(* CI ids are numbered in creation order, the order of ObjectIds.  Values  *)
(* of the sort field are numbers; Null is a field that is null or missing, *)
(* which MongoDB sorts first, and which "$gt" and "$lt" never match, on    *)
(* either side.  A field that holds arrays, or values of several types, is *)
(* outside this module: its sort and the cursor's filter compare it        *)
(* differently.                                                            *)
(***************************************************************************)
EXTENDS Integers, Sequences, FiniteSets

CONSTANTS Rows,        \* CIs: the ids are 1..Rows
          MaxVal,      \* the values of the sort field are 1..MaxVal
          Nullable,    \* may the sort field be null
          Limit,       \* the page size asked for
          MaxWrites    \* bound on what the other clients do

ASSUME PagingAssumption ==
  /\ Rows \in Nat /\ MaxVal \in Nat /\ MaxWrites \in Nat
  /\ Limit \in Nat \ {0}
  /\ Nullable \in BOOLEAN

Id == 1..Rows
Null == 0
Gone == -1
Value == (1..MaxVal) \cup (IF Nullable THEN {Null} ELSE {})

VARIABLES value,    \* value[c]: the sort field of c, Gone if c does not exist
          dir,      \* the direction asked for
          cursor,   \* where the next page starts: the page's last row, or none
          walking,  \* has the client more pages to ask for
          got,      \* the rows returned so far, page after page
          touched,  \* the rows that changed since the walk began
          writes    \* how many rows they have written

listVars == <<value, dir, cursor, walking, got, touched, writes>>

NoCursor == [value |-> Gone, id |-> Gone]

ListInit ==
  /\ value \in [Id -> Value \cup {Gone}]
  /\ dir \in {"asc", "desc"}
  /\ cursor = NoCursor
  /\ walking = TRUE
  /\ got = <<>>
  /\ touched = {}
  /\ writes = 0

Present == {c \in Id : value[c] # Gone}

(* sort([(sort_field, dir), ("_id", dir)])                                 *)
Ascending(c, d) == value[c] < value[d] \/ (value[c] = value[d] /\ c < d)
Before(c, d) == IF dir = "asc" THEN Ascending(c, d) ELSE Ascending(d, c)

Beyond(a, b) == IF dir = "asc" THEN a > b ELSE a < b

(* Fault: the cursor is the value alone.                                   *)
PastByValue(c) ==
  cursor.value # Null /\ value[c] # Null /\ Beyond(value[c], cursor.value)

(* The "$or" of the keyset query.                                          *)
Past(c) ==
  \/ cursor.value # Null /\ value[c] # Null /\ Beyond(value[c], cursor.value)
  \/ value[c] = cursor.value /\ Beyond(c, cursor.id)

Selected == {c \in Present : cursor = NoCursor \/ Past(c)}

(* A row's place is the number of selected rows that sort before it; the   *)
(* page holds the rows of the first Limit places.                          *)
Place(c) == Cardinality({d \in Selected : Before(d, c)})

PageSize == IF Cardinality(Selected) < Limit THEN Cardinality(Selected) ELSE Limit

Page == [i \in 1..PageSize |-> CHOOSE c \in Selected : Place(c) = i - 1]

(* next_cursor: the last row of a full page; there is none after another.  *)
NextCursor(page) ==
  IF Len(page) = Limit
    THEN [value |-> value[page[Limit]], id |-> page[Limit]] ELSE NoCursor

Fetch ==
  /\ walking
  /\ got' = got \o Page
  /\ cursor' = NextCursor(Page)
  /\ walking' = (cursor' # NoCursor)
  /\ UNCHANGED <<value, dir, touched, writes>>

WriteRow(c, v) ==
  /\ walking /\ writes < MaxWrites
  /\ value' = [value EXCEPT ![c] = v]
  /\ touched' = touched \cup {c}
  /\ writes' = writes + 1
  /\ UNCHANGED <<dir, cursor, walking, got>>

Create(c, v) == value[c] = Gone /\ c \notin touched /\ WriteRow(c, v)
Update(c, v) == c \in Present /\ WriteRow(c, v)
Delete(c) == c \in Present /\ WriteRow(c, Gone)

Done == ~walking /\ UNCHANGED listVars

ListNext ==
  \/ Fetch
  \/ \E c \in Id : Delete(c) \/ \E v \in Value : Create(c, v) \/ Update(c, v)
  \/ Done

ListSpec == ListInit /\ [][ListNext]_listVars

(***************************************************************************)
(* Properties.                                                             *)
(***************************************************************************)
Times(c) == Cardinality({i \in DOMAIN got : got[i] = c})

(* Every row exactly once, no skips and no duplicates, whatever happens to *)
(* other rows meanwhile: said of the rows that exist throughout and are    *)
(* not written.                                                            *)
EveryRowOnce ==
  ~walking => \A c \in Present \ touched : Times(c) = 1

=============================================================================
