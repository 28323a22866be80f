--------------------------- MODULE WorkItemListing ---------------------------
(***************************************************************************)
(* Creation of work items and page-by-page listing of them, side by side.  *)
(*                                                                         *)
(* A creation takes its sequence number, which also makes the work key,    *)
(* from project_work_item_sequences: the upsert locks the project's row    *)
(* until COMMIT or ROLLBACK, and another creation waits for it.  A listing *)
(* is a series of requests with nothing kept on the server between them:   *)
(* the first reads the greatest sequence as a ceiling, and the cursor      *)
(* carries the ceiling and the last sequence returned.                     *)
(*                                                                         *)
(* Items are named by their sequence.  The filters of a listing are one    *)
(* set, of the items that match them now: status, assignee and node may    *)
(* change between two pages.                                               *)
(***************************************************************************)
EXTENDS Integers, FiniteSets, FiniteSetsExt

CONSTANTS
  Creators,   \* requests POST /api/projects/{id}/work-items being handled
  Listings,   \* clients that list the items (workItemsApi.listAll)
  None,       \* nobody
  Limit,      \* items per page
  MaxItems    \* bound: no creation starts once there are so many items

ASSUME LimitAssumption == Limit \in Nat \ {0}
ASSUME MaxItemsAssumption == MaxItems \in Nat
ASSUME NoneAssumption == None \notin Creators

VARIABLES
  next,      \* next_value of the project's sequence row
  holder,    \* the creation whose transaction locks that row
  number,    \* the sequence each creation was given, 0 if none
  rows,      \* the committed items
  matches,   \* those that match the filters
  pc,        \* where each listing stands
  sort,      \* its order
  ceiling,   \* the ceiling its cursor carries
  last,      \* the last sequence its cursor carries, 0 in the first request
  got,       \* how often each item was returned to it, counted up to twice
  steady     \* history: the items that matched ever since it started

creationVars == <<next, holder, number, rows, matches>>
listingVars == <<pc, sort, ceiling, last, got>>
vars == <<creationVars, listingVars, steady>>

Numbers == 1 .. MaxItems

\* The rows of the table are numbered from 1, and next_value is 1 or the row absent.
Init ==
  /\ next = 1
  /\ holder = None
  /\ number = [c \in Creators |-> 0]
  /\ rows = {}
  /\ matches = {}
  /\ pc = [l \in Listings |-> "idle"]
  /\ sort = [l \in Listings |-> "newest"]
  /\ ceiling = [l \in Listings |-> 0]
  /\ last = [l \in Listings |-> 0]
  /\ got = [l \in Listings |-> [s \in Numbers |-> 0]]
  /\ steady = [l \in Listings |-> Numbers]

-----------------------------------------------------------------------------
(***************************************************************************)
(* Creations                                                               *)
(***************************************************************************)

\* Mutant: the number comes from a transaction of its own.
AllocateOwnTransaction(c) ==
  /\ number[c] = 0 /\ next \in Numbers
  /\ number' = [number EXCEPT ![c] = next]
  /\ next' = next + 1
  /\ UNCHANGED <<holder, rows, matches, listingVars, steady>>

\* The upsert: it waits for the row lock, and takes it until the end of the
\* transaction.
Allocate(c) ==
  /\ number[c] = 0 /\ next \in Numbers
  /\ holder = None
  /\ holder' = c
  /\ number' = [number EXCEPT ![c] = next]
  /\ next' = next + 1
  /\ UNCHANGED <<rows, matches, listingVars, steady>>

\* INSERT INTO work_items and COMMIT.
Insert(c) ==
  /\ number[c] # 0
  /\ rows' = rows \cup {number[c]}
  /\ \/ matches' = matches \cup {number[c]} /\ UNCHANGED steady
     \/ steady' = [l \in Listings |-> steady[l] \ {number[c]}] /\ UNCHANGED matches
  /\ number' = [number EXCEPT ![c] = 0]
  /\ holder' = None
  /\ UNCHANGED <<next, listingVars>>

\* A statement of the transaction fails: ROLLBACK undoes the upsert too.
Rollback(c) ==
  /\ number[c] # 0
  /\ next' = number[c]
  /\ number' = [number EXCEPT ![c] = 0]
  /\ holder' = None
  /\ UNCHANGED <<rows, matches, listingVars, steady>>

\* A transition or an edit brings an item into the filters or takes it out.
Change(s) ==
  /\ s \in rows
  /\ IF s \in matches
     THEN /\ matches' = matches \ {s}
          /\ steady' = [l \in Listings |-> steady[l] \ {s}]
     ELSE matches' = matches \cup {s} /\ UNCHANGED steady
  /\ UNCHANGED <<next, holder, number, rows, listingVars>>

-----------------------------------------------------------------------------
(***************************************************************************)
(* Listings                                                                *)
(***************************************************************************)

\* The first request: SELECT COALESCE(MAX(sequence), 0), over all the items.
Start(l) ==
  /\ pc[l] \in {"idle", "done"}
  /\ pc' = [pc EXCEPT ![l] = "page"]
  /\ \E order \in {"newest", "oldest"} : sort' = [sort EXCEPT ![l] = order]
  /\ ceiling' = [ceiling EXCEPT ![l] = Max(rows \cup {0})]
  /\ last' = [last EXCEPT ![l] = 0]
  /\ got' = [got EXCEPT ![l] = [s \in Numbers |-> 0]]
  /\ steady' = [steady EXCEPT ![l] = {s \in Numbers : s \in rows => s \in matches}]
  /\ UNCHANGED creationVars

Before(order, s, t) == IF order = "oldest" THEN s < t ELSE s > t

\* AND sequence > or < the sequence of the cursor, if there is one.
Beyond(order, cursor, s) == cursor = 0 \/ Before(order, cursor, s)

\* The rows of the WHERE clause, and those of them that fit the page.
Found(l) == {s \in matches : s <= ceiling[l] /\ Beyond(sort[l], last[l], s)}

Page(l) ==
  {s \in Found(l) : Cardinality({t \in Found(l) : Before(sort[l], t, s)}) < Limit}

LastOf(order, page) == CHOOSE s \in page : \A t \in page : ~Before(order, s, t)

\* Mutant: the cursor of the request is handed out again.
CursorUnmoved(l) == last[l]

\* The cursor of the next page continues after the last item of this one.
NextCursor(l) == LastOf(sort[l], Page(l))

\* One page: LIMIT n + 1 tells whether there is more, and the client asks for
\* the next page as long as it is given a cursor.
Fetch(l) ==
  /\ pc[l] = "page"
  /\ got' = [got EXCEPT ![l] = [s \in Numbers |->
               IF s \in Page(l) /\ got[l][s] < 2 THEN got[l][s] + 1 ELSE got[l][s]]]
  /\ IF Found(l) = Page(l)
     THEN pc' = [pc EXCEPT ![l] = "done"] /\ UNCHANGED last
     ELSE last' = [last EXCEPT ![l] = NextCursor(l)] /\ UNCHANGED pc
  /\ UNCHANGED <<creationVars, sort, ceiling, steady>>

Next ==
  \/ \E c \in Creators : Allocate(c) \/ Insert(c) \/ Rollback(c)
  \/ \E s \in Numbers : Change(s)
  \/ \E l \in Listings : Start(l) \/ Fetch(l)

Spec == Init /\ [][Next]_vars

\* The client goes on asking, and the server answers each request.
FairSpec == Spec /\ \A l \in Listings : WF_vars(Fetch(l))

-----------------------------------------------------------------------------
(***************************************************************************)
(* Properties                                                              *)
(***************************************************************************)

\* The type of the variables.
TypeOK ==
  /\ next \in Numbers \cup {MaxItems + 1}
  /\ holder \in Creators \cup {None}
  /\ number \in [Creators -> Numbers \cup {0}]
  /\ rows \in SUBSET Numbers
  /\ matches \in SUBSET rows
  /\ pc \in [Listings -> {"idle", "page", "done"}]
  /\ sort \in [Listings -> {"newest", "oldest"}]
  /\ ceiling \in [Listings -> Numbers \cup {0}]
  /\ last \in [Listings -> Numbers \cup {0}]
  /\ got \in [Listings -> [Numbers -> 0 .. 2]]
  /\ steady \in [Listings -> SUBSET Numbers]

\* However creations overlap and fail, the items are numbered without gaps, no
\* number is given twice, and only the creation that holds the lock has one.
NumberedWithoutGaps ==
  /\ rows = 1 .. (IF holder = None THEN next - 1 ELSE next - 2)
  /\ \A c \in Creators : number[c] = IF c = holder THEN next - 1 ELSE 0

\* Nothing is added at or below the ceiling of a listing while it runs: numbers
\* become visible in their order.
NothingBelowCeiling ==
  [][\A l \in Listings : \A s \in rows' \ rows : pc[l] = "page" => s > ceiling[l]]_vars

\* A finished listing returned each item that was there when it started and
\* matched all along, whatever was created or changed between its pages; and none
\* twice, not even one that left the filters and came back.
ListingComplete ==
  \A l \in Listings :
    /\ pc[l] = "done" => \A s \in rows \cap steady[l] : s <= ceiling[l] => got[l][s] > 0
    /\ \A s \in Numbers : got[l][s] < 2

\* A listing comes to its end, although items are created and changed all the time.
ListingEnds == \A l \in Listings : pc[l] = "page" ~> pc[l] = "done"
=============================================================================
