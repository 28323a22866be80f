------------------------ MODULE WorkItemListingProofs ------------------------
(***************************************************************************)
(* Proofs about WorkItemListing, for any number of creations and listings: *)
(* the row lock that the upsert takes makes the sequence numbers become    *)
(* visible in their order, which is what the ceiling of a listing rests    *)
(* on; and the pages of a listing, taken together, miss and repeat nothing *)
(* of what stays.                                                          *)
(***************************************************************************)
EXTENDS WorkItemListing, TLAPS, FiniteSetTheorems, WellFoundedInduction

\* The number of the items that are committed.
Committed == IF holder = None THEN next - 1 ELSE next - 2

\* A ceiling is the number of an item that was committed, or 0.
CeilingReached == \A l \in Listings : ceiling[l] <= Committed

\* The part of the type invariant that the numbering rests on.
NumbersTyped ==
  /\ next \in Nat \ {0}
  /\ holder \in Creators \cup {None}
  /\ holder # None => next > 1
  /\ number \in [Creators -> Nat]
  /\ ceiling \in [Listings -> Nat]

Numbering == NumbersTyped /\ NumberedWithoutGaps /\ CeilingReached

LEMMA InitNumbering == Init => Numbering
BY NoneAssumption DEF Init, Numbering, NumbersTyped, NumberedWithoutGaps, CeilingReached, Committed

\* The greatest of the sequences 1 .. n is n, and of none is 0.
LEMMA MaxOfRows ==
  ASSUME NEW n \in Nat, NEW S, S = 1 .. n
  PROVE  Max(S \cup {0}) = n
<1>1. \A y \in S \cup {0} : n >= y
  OBVIOUS
<1>2. n \in S \cup {0}
  OBVIOUS
<1>3. \A x \in S \cup {0} : (\A y \in S \cup {0} : x >= y) => x = n
  BY <1>1, <1>2
<1> QED
  BY <1>1, <1>2, <1>3 DEF Max

LEMMA CreationNumbering ==
  ASSUME Numbering, NEW c \in Creators, Allocate(c) \/ Insert(c) \/ Rollback(c)
  PROVE  Numbering' /\ \A s \in rows' \ rows : s = Committed + 1
<1> USE DEF Numbering, NumbersTyped, Committed, listingVars
<1> c # None
  BY NoneAssumption
<1>1. CASE Allocate(c)
  <2> USE <1>1 DEF Allocate
  <2>1. NumberedWithoutGaps'
    <3>1. rows = 1 .. (next - 1) /\ \A d \in Creators : number[d] = 0
      BY NoneAssumption DEF NumberedWithoutGaps
    <3>2. next' - 2 = next - 1 /\ next' - 1 = next /\ holder' = c /\ rows' = rows
      OBVIOUS
    <3>3. \A d \in Creators : number'[d] = IF d = c THEN next ELSE 0
      BY <3>1
    <3> QED
      BY <3>1, <3>2, <3>3 DEF NumberedWithoutGaps
  <2>2. CeilingReached'
    BY DEF CeilingReached
  <2> QED
    BY <2>1, <2>2
<1>2. ASSUME number[c] # 0 PROVE c = holder /\ number[c] = next - 1 /\ next > 1
  BY <1>2 DEF NumberedWithoutGaps
<1>3. CASE Insert(c)
  <2> USE <1>2, <1>3 DEF Insert
  <2>1. rows = 1 .. (next - 2) /\ rows' = 1 .. (next - 1)
    BY DEF NumberedWithoutGaps
  <2>2. NumberedWithoutGaps'
    BY <2>1, NoneAssumption DEF NumberedWithoutGaps
  <2>3. CeilingReached'
    BY DEF CeilingReached
  <2> QED
    BY <2>1, <2>2, <2>3
<1>4. CASE Rollback(c)
  <2> USE <1>2, <1>4 DEF Rollback
  <2>1. NumberedWithoutGaps'
    BY NoneAssumption DEF NumberedWithoutGaps
  <2>2. CeilingReached'
    BY DEF CeilingReached
  <2> QED
    BY <2>1, <2>2
<1> QED
  BY <1>1, <1>3, <1>4

LEMMA StepNumbering ==
  ASSUME Numbering, [Next]_vars
  PROVE  Numbering' /\ \A s \in rows' \ rows : s = Committed + 1
<1> USE DEF Numbering, NumbersTyped
<1>1. ASSUME UNCHANGED <<next, holder, number, rows, ceiling>>
      PROVE  Numbering' /\ rows' = rows
  BY <1>1 DEF NumberedWithoutGaps, CeilingReached, Committed
<1>2. ASSUME NEW s, Change(s) PROVE Numbering' /\ rows' = rows
  BY <1>1, <1>2 DEF Change, listingVars
<1>3. ASSUME NEW l \in Listings, Fetch(l) PROVE Numbering' /\ rows' = rows
  BY <1>1, <1>3 DEF Fetch, creationVars
<1>4. ASSUME NEW l \in Listings, Start(l) PROVE Numbering' /\ rows' = rows
  <2>1. UNCHANGED <<next, holder, number, rows>> /\ ceiling' = [ceiling EXCEPT ![l] = Max(rows \cup {0})]
    BY <1>4 DEF Start, creationVars
  <2>2. Committed \in Nat /\ rows = 1 .. Committed /\ Committed' = Committed
    BY <2>1 DEF NumberedWithoutGaps, Committed
  <2>3. Max(rows \cup {0}) = Committed
    BY <2>2, MaxOfRows
  <2>4. CeilingReached'
    BY <2>1, <2>2, <2>3 DEF CeilingReached
  <2>5. NumberedWithoutGaps'
    BY <2>1 DEF NumberedWithoutGaps
  <2> QED
    BY <2>1, <2>2, <2>3, <2>4, <2>5
<1>5. CASE UNCHANGED vars
  BY <1>1, <1>5 DEF vars, creationVars, listingVars
<1> QED
  BY <1>2, <1>3, <1>4, <1>5, CreationNumbering DEF Next

LEMMA NumberingAlways == Spec => []Numbering
<1>1. Numbering /\ [Next]_vars => Numbering'
  BY StepNumbering
<1> QED
  BY <1>1, InitNumbering, PTL DEF Spec

\* The work items of a project are numbered 1, 2, 3 and so on, and no two
\* creations are given one number, however many run and fail at a time.
THEOREM NumberedWithoutGapsAlways == Spec => []NumberedWithoutGaps
BY NumberingAlways, PTL DEF Numbering

\* No item is added at or below the ceiling of a listing that runs.
THEOREM NothingAddedBelowCeiling == Spec => NothingBelowCeiling
<1>1. Numbering /\ [Next]_vars
        => [\A l \in Listings : \A s \in rows' \ rows : pc[l] = "page" => s > ceiling[l]]_vars
  <2> SUFFICES ASSUME Numbering, [Next]_vars, NEW l \in Listings, NEW s \in rows' \ rows
               PROVE  s > ceiling[l]
    OBVIOUS
  <2>1. s = Committed + 1
    BY StepNumbering
  <2>2. ceiling[l] <= Committed /\ ceiling[l] \in Nat /\ Committed \in Int
    BY DEF Numbering, NumbersTyped, CeilingReached, Committed
  <2> QED
    BY <2>1, <2>2
<1> QED
  BY <1>1, NumberingAlways, PTL DEF Spec, NothingBelowCeiling

-----------------------------------------------------------------------------
(***************************************************************************)
(* Pages                                                                   *)
(***************************************************************************)

\* Natural numbers have a least one.
LEMMA LeastNumber ==
  ASSUME NEW S \in SUBSET Nat, S # {}
  PROVE  \E n \in S : \A m \in S : n <= m
<1> DEFINE R == OpToRel(<, Nat)
<1>1. IsWellFoundedOn(R, Nat)
  BY NatLessThanWellFounded
<1>2. \A x, y \in Nat : x < y => <<x, y>> \in R
  BY DEF OpToRel
<1> HIDE DEF R
<1>3. PICK n \in S : \A m \in S : ~(<<m, n>> \in R)
  BY <1>1, WFMin
<1>4. \A m \in S : ~(m < n)
  <2> SUFFICES ASSUME NEW m \in S, m < n
               PROVE  FALSE
    OBVIOUS
  <2>1. m \in Nat /\ n \in Nat
    OBVIOUS
  <2> QED
    BY <1>2, <1>3, <2>1
<1>5. \A m \in S : n <= m
  <2> SUFFICES ASSUME NEW m \in S
               PROVE  n <= m
    OBVIOUS
  <2>1. m \in Nat /\ n \in Nat /\ ~(m < n)
    BY <1>4
  <2> QED
    BY <2>1
<1> QED
  BY <1>5

\* Some of the items, or 0, have a greatest one.
LEMMA Greatest ==
  ASSUME NEW S \in SUBSET (Numbers \cup {0}), S # {}
  PROVE  \E n \in S : \A m \in S : n >= m
<1>1. MaxItems \in Nat /\ \A s \in S : s \in Nat /\ s <= MaxItems
  BY MaxItemsAssumption DEF Numbers
<1> DEFINE T == {MaxItems - s : s \in S}
<1>2. T \in SUBSET Nat /\ T # {}
  BY <1>1
<1>3. PICK n \in T : \A m \in T : n <= m
  BY <1>2, LeastNumber
<1>4. PICK s \in S : n = MaxItems - s
  BY <1>3
<1>5. ASSUME NEW t \in S
      PROVE  s >= t
  <2>1. MaxItems - s <= MaxItems - t
    BY <1>3, <1>4
  <2> QED
    BY <1>1, <2>1
<1> QED
  BY <1>5

\* Some of the items have a first one and a last one in either order.
LEMMA Extremes ==
  ASSUME NEW S \in SUBSET Numbers, S # {}, NEW order \in {"newest", "oldest"}
  PROVE  /\ \E s \in S : \A t \in S : ~Before(order, t, s)
         /\ \E s \in S : \A t \in S : ~Before(order, s, t)
<1>1. MaxItems \in Nat /\ \A s \in S : s \in Nat /\ s <= MaxItems
  BY MaxItemsAssumption DEF Numbers
<1>2. PICK least \in S : \A t \in S : least <= t
  BY <1>1, LeastNumber
<1>3. PICK most \in S : \A t \in S : most >= t
  BY Greatest
<1>4. \A t \in S : ~(t < least) /\ ~(most < t)
  <2> SUFFICES ASSUME NEW t \in S
               PROVE  ~(t < least) /\ ~(most < t)
    OBVIOUS
  <2>1. least <= t /\ most >= t /\ t \in Nat /\ least \in Nat /\ most \in Nat
    BY <1>1, <1>2, <1>3
  <2> QED
    BY <2>1
<1>5. \A t \in S : ~(least > t) /\ ~(t > most)
  <2> SUFFICES ASSUME NEW t \in S
               PROVE  ~(least > t) /\ ~(t > most)
    OBVIOUS
  <2>1. least <= t /\ most >= t /\ t \in Nat /\ least \in Nat /\ most \in Nat
    BY <1>1, <1>2, <1>3
  <2> QED
    BY <2>1
<1> QED
  BY <1>4, <1>5 DEF Before

\* The item that the next cursor names is on the page, and none of the page comes after it.
LEMMA LastOfPage ==
  ASSUME NEW page \in SUBSET Numbers, page # {}, NEW order \in {"newest", "oldest"}
  PROVE  LastOf(order, page) \in page /\ \A t \in page : ~Before(order, LastOf(order, page), t)
<1>1. \E s \in page : \A t \in page : ~Before(order, s, t)
  BY Extremes
<1> QED
  BY <1>1 DEF LastOf

\* A page is the beginning of what was found: not empty if something was found, and
\* with an item it has those that come before it.
LEMMA Pages ==
  ASSUME TypeOK, NEW l \in Listings
  PROVE  /\ Page(l) \subseteq Found(l) /\ Found(l) \subseteq Numbers
         /\ Found(l) # {} => Page(l) # {}
         /\ \A s \in Page(l) : \A t \in Found(l) : Before(sort[l], t, s) => t \in Page(l)
<1>1. Page(l) \subseteq Found(l) /\ Found(l) \subseteq Numbers /\ sort[l] \in {"newest", "oldest"}
  BY DEF Page, Found, TypeOK
<1>2. IsFiniteSet(Found(l))
  <2>1. IsFiniteSet(Numbers)
    BY MaxItemsAssumption, FS_Interval DEF Numbers
  <2> QED
    BY <1>1, <2>1, FS_Subset
<1> DEFINE Ahead(s) == {t \in Found(l) : Before(sort[l], t, s)}
<1>3. Page(l) = {s \in Found(l) : Cardinality(Ahead(s)) < Limit}
  BY DEF Page
<1>4. ASSUME Found(l) # {}
      PROVE  Page(l) # {}
  <2>1. PICK s \in Found(l) : \A t \in Found(l) : ~Before(sort[l], t, s)
    BY <1>1, <1>4, Extremes
  <2>2. Ahead(s) = {}
    BY <2>1
  <2>3. Cardinality(Ahead(s)) = 0
    BY <2>2, FS_EmptySet
  <2>4. s \in Page(l)
    BY <1>3, <2>3, LimitAssumption
  <2> QED
    BY <2>4
<1>5. ASSUME NEW s \in Page(l), NEW t \in Found(l), Before(sort[l], t, s)
      PROVE  t \in Page(l)
  <2>1. s \in Nat /\ t \in Nat /\ \A u \in Found(l) : u \in Nat
    BY <1>1 DEF Numbers
  <2>2. Ahead(t) \subseteq Ahead(s)
    <3> SUFFICES ASSUME NEW u \in Found(l), Before(sort[l], u, t)
                 PROVE  Before(sort[l], u, s)
      OBVIOUS
    <3>1. u \in Nat /\ t \in Nat /\ s \in Nat
      BY <2>1
    <3>2. CASE sort[l] = "oldest"
      <4>1. u < t /\ t < s
        BY <1>5, <3>2 DEF Before
      <4>2. u < s
        BY <3>1, <4>1
      <4> QED
        BY <3>2, <4>2 DEF Before
    <3>3. CASE sort[l] # "oldest"
      <4>1. u > t /\ t > s
        BY <1>5, <3>3 DEF Before
      <4>2. u > s
        BY <3>1, <4>1
      <4> QED
        BY <3>3, <4>2 DEF Before
    <3> QED
      BY <3>2, <3>3
  <2>3. IsFiniteSet(Ahead(s)) /\ IsFiniteSet(Ahead(t))
    BY <1>2, FS_Subset
  <2> HIDE DEF Ahead
  <2>4. Cardinality(Ahead(t)) <= Cardinality(Ahead(s))
    BY <2>2, <2>3, FS_Subset
  <2>5. Cardinality(Ahead(t)) \in Nat /\ Cardinality(Ahead(s)) \in Nat
    BY <2>3, FS_CardinalityType
  <2>6. Cardinality(Ahead(s)) < Limit
    BY <1>3
  <2>7. Cardinality(Ahead(t)) < Limit
    BY <2>4, <2>5, <2>6, LimitAssumption
  <2> QED
    BY <1>3, <2>7
<1> QED
  BY <1>1, <1>4, <1>5

\* If a page is not all that was found, its cursor names the last item of it.
LEMMA MorePages ==
  ASSUME TypeOK, NEW l \in Listings, Found(l) # Page(l)
  PROVE  /\ NextCursor(l) \in Page(l) /\ NextCursor(l) \in Numbers
         /\ \A t \in Page(l) : ~Before(sort[l], NextCursor(l), t)
<1>1. Page(l) # {} /\ Page(l) \in SUBSET Numbers
  BY Pages
<1>2. sort[l] \in {"newest", "oldest"}
  BY DEF TypeOK
<1> QED
  BY <1>1, <1>2, LastOfPage DEF NextCursor

\* The items that a listing has passed: its last one, and those before it.
Past(l, s) == ~Beyond(sort[l], last[l], s)

\* What a listing has to return.
Owing(l) == {s \in rows \cap steady[l] : s <= ceiling[l]}

\* Nothing was returned twice, and nothing that has not been passed.
Returned(l) ==
  /\ \A s \in Numbers : got[l][s] < 2
  /\ pc[l] = "page" => \A s \in Numbers : got[l][s] > 0 => Past(l, s)

\* What has been passed, in the end all, was returned if it has to be.
Covered(l) ==
  /\ pc[l] = "page" => \A s \in Owing(l) : Past(l, s) => got[l][s] > 0
  /\ pc[l] = "done" => \A s \in Owing(l) : got[l][s] > 0

\* What is steady matches.
SteadyMatches(l) == rows \cap steady[l] \subseteq matches

PagesInv == \A l \in Listings : Returned(l) /\ Covered(l) /\ SteadyMatches(l)

Inv == TypeOK /\ Numbering /\ PagesInv

LEMMA InitInv == Init => Inv
<1> SUFFICES ASSUME Init
             PROVE  Inv
  OBVIOUS
<1>1. TypeOK
  BY MaxItemsAssumption DEF Init, TypeOK, Numbers
<1>2. PagesInv
  BY DEF Init, PagesInv, Returned, Covered, SteadyMatches
<1> QED
  BY <1>1, <1>2, InitNumbering DEF Inv

\* Every step keeps the types.
LEMMA StepTypes == TypeOK /\ [Next]_vars => TypeOK'
<1> SUFFICES ASSUME TypeOK, [Next]_vars
             PROVE  TypeOK'
  OBVIOUS
<1> USE DEF TypeOK
<1>1. MaxItems \in Nat /\ \A s \in Numbers : s \in Nat /\ s + 1 \in Numbers \cup {MaxItems + 1}
  BY MaxItemsAssumption DEF Numbers
<1>2. ASSUME NEW c \in Creators, Allocate(c)
      PROVE  TypeOK'
  BY <1>1, <1>2 DEF Allocate, listingVars
<1>3. ASSUME NEW c \in Creators, Insert(c) \/ Rollback(c)
      PROVE  TypeOK'
  <2>1. number[c] \in Numbers
    BY <1>3 DEF Insert, Rollback
  <2>2. CASE Insert(c)
    <3>1. 0 \in Numbers \cup {0} /\ number' \in [Creators -> Numbers \cup {0}]
      BY <2>2 DEF Insert
    <3>2. rows' \in SUBSET Numbers /\ matches' \in SUBSET rows'
      BY <2>1, <2>2 DEF Insert
    <3>3. steady' \in [Listings -> SUBSET Numbers]
      BY <2>2 DEF Insert
    <3> QED
      BY <2>2, <3>1, <3>2, <3>3 DEF Insert, listingVars
  <2>3. CASE Rollback(c)
    BY <2>1, <2>3 DEF Rollback, listingVars
  <2> QED
    BY <1>3, <2>2, <2>3
<1>4. ASSUME NEW s \in Numbers, Change(s)
      PROVE  TypeOK'
  BY <1>4 DEF Change, listingVars
<1>5. ASSUME NEW l \in Listings, Start(l)
      PROVE  TypeOK'
  <2>1. PICK n \in Numbers \cup {0} : Max(rows \cup {0}) = n
    <3>1. PICK n \in rows \cup {0} : \A m \in rows \cup {0} : n >= m
      BY Greatest
    <3>2. Max(rows \cup {0}) \in rows \cup {0}
      BY <3>1 DEF Max
    <3> QED
      BY <3>2
  <2>2. ceiling' \in [Listings -> Numbers \cup {0}] /\ last' \in [Listings -> Numbers \cup {0}]
    BY <1>5, <2>1 DEF Start
  <2>3. got' \in [Listings -> [Numbers -> 0 .. 2]]
    <3>1. [s \in Numbers |-> 0] \in [Numbers -> 0 .. 2]
      OBVIOUS
    <3> HIDE DEF TypeOK
    <3>2. got \in [Listings -> [Numbers -> 0 .. 2]]
      BY DEF TypeOK
    <3> QED
      BY <1>5, <3>1, <3>2 DEF Start
  <2>4. steady' \in [Listings -> SUBSET Numbers]
    BY <1>5 DEF Start
  <2>5. pc' \in [Listings -> {"idle", "page", "done"}] /\ sort' \in [Listings -> {"newest", "oldest"}]
    BY <1>5 DEF Start
  <2> QED
    BY <1>5, <2>2, <2>3, <2>4, <2>5 DEF Start, creationVars
<1>6. ASSUME NEW l \in Listings, Fetch(l)
      PROVE  TypeOK'
  <2>1. got' \in [Listings -> [Numbers -> 0 .. 2]]
    <3> DEFINE fetched == [s \in Numbers |->
                 IF s \in Page(l) /\ got[l][s] < 2 THEN got[l][s] + 1 ELSE got[l][s]]
    <3>1. fetched \in [Numbers -> 0 .. 2]
      OBVIOUS
    <3>2. got' = [got EXCEPT ![l] = fetched]
      BY <1>6 DEF Fetch
    <3>3. got \in [Listings -> [Numbers -> 0 .. 2]]
      OBVIOUS
    <3> HIDE DEF TypeOK, fetched
    <3> QED
      BY <3>1, <3>2, <3>3
  <2>2. last' \in [Listings -> Numbers \cup {0}] /\ pc' \in [Listings -> {"idle", "page", "done"}]
    <3>1. CASE Found(l) = Page(l)
      BY <1>6, <3>1 DEF Fetch
    <3>2. CASE Found(l) # Page(l)
      <4>1. NextCursor(l) \in Numbers
        BY <3>2, MorePages
      <4> QED
        BY <1>6, <3>2, <4>1 DEF Fetch
    <3> QED
      BY <3>1, <3>2
  <2> QED
    BY <1>6, <2>1, <2>2 DEF Fetch, creationVars
<1>7. CASE UNCHANGED vars
  BY <1>7 DEF vars, creationVars, listingVars
<1> QED
  BY <1>2, <1>3, <1>4, <1>5, <1>6, <1>7 DEF Next

\* The steps that neither move a listing nor add to what it owes.
LEMMA QuietPages ==
  ASSUME PagesInv, UNCHANGED listingVars, NEW l \in Listings,
         Owing(l)' \subseteq Owing(l), SteadyMatches(l)'
  PROVE  Returned(l)' /\ Covered(l)' /\ SteadyMatches(l)'
<1>1. Returned(l) /\ Covered(l)
  BY DEF PagesInv
<1>2. \A s : Past(l, s)' = Past(l, s)
  BY DEF listingVars, Past, Beyond
<1>3. Returned(l)'
  BY <1>1, <1>2 DEF Returned, listingVars
<1>4. Covered(l)'
  BY <1>1, <1>2 DEF Covered, listingVars
<1> QED
  BY <1>3, <1>4

\* A creation adds beyond the ceilings only.
LEMMA CreationPages ==
  ASSUME Inv, NEW c \in Creators, Allocate(c) \/ Insert(c) \/ Rollback(c)
  PROVE  PagesInv'
<1>1. UNCHANGED listingVars
  BY DEF Allocate, Insert, Rollback
<1>2. \A s \in rows' \ rows : s = Committed + 1
  BY CreationNumbering DEF Inv
<1>3. ASSUME NEW l \in Listings
      PROVE  Owing(l)' \subseteq Owing(l)
  <2>1. steady'[l] \subseteq steady[l]
    BY <1>3 DEF Allocate, Insert, Rollback, Inv, TypeOK
  <2>2. ceiling' = ceiling /\ ceiling[l] \in Nat /\ ceiling[l] <= Committed /\ Committed \in Int
    BY <1>1, <1>3 DEF listingVars, Inv, Numbering, NumbersTyped, CeilingReached, Committed
  <2>3. \A s \in rows' : s <= ceiling[l] => s \in rows
    BY <1>2, <2>2
  <2> QED
    BY <2>1, <2>2, <2>3 DEF Owing
<1>4. ASSUME NEW l \in Listings
      PROVE  SteadyMatches(l)'
  <2>1. SteadyMatches(l)
    BY <1>4 DEF Inv, PagesInv
  <2> QED
    BY <1>4, <2>1 DEF SteadyMatches, Allocate, Insert, Rollback, Inv, TypeOK
<1>5. PagesInv
  BY DEF Inv
<1> QED
  BY <1>1, <1>3, <1>4, <1>5, QuietPages DEF PagesInv

\* What a change takes out of the filters is steady no longer.
LEMMA ChangePages ==
  ASSUME Inv, NEW c, Change(c)
  PROVE  PagesInv'
<1>1. UNCHANGED listingVars
  BY DEF Change
<1>2. ASSUME NEW l \in Listings
      PROVE  Owing(l)' \subseteq Owing(l)
  BY <1>1, <1>2 DEF Change, listingVars, Owing, Inv, TypeOK
<1>3. ASSUME NEW l \in Listings
      PROVE  SteadyMatches(l)'
  <2>1. SteadyMatches(l)
    BY <1>3 DEF Inv, PagesInv
  <2> QED
    BY <1>3, <2>1 DEF SteadyMatches, Change, Inv, TypeOK
<1>4. PagesInv
  BY DEF Inv
<1> QED
  BY <1>1, <1>2, <1>3, <1>4, QuietPages DEF PagesInv

\* The listings that a step of another one leaves alone.
LEMMA OtherPages ==
  ASSUME PagesInv, NEW l \in Listings, UNCHANGED <<rows, matches>>,
         UNCHANGED <<pc[l], sort[l], ceiling[l], last[l], got[l], steady[l]>>
  PROVE  Returned(l)' /\ Covered(l)' /\ SteadyMatches(l)'
<1>1. Returned(l) /\ Covered(l) /\ SteadyMatches(l)
  BY DEF PagesInv
<1>2. \A s : Past(l, s)' = Past(l, s)
  BY DEF Past, Beyond
<1>3. Owing(l)' = Owing(l)
  BY DEF Owing
<1> QED
  BY <1>1, <1>2, <1>3 DEF Returned, Covered, SteadyMatches

\* A listing starts with nothing passed and nothing returned.
LEMMA StartPages ==
  ASSUME Inv, NEW k \in Listings, Start(k)
  PROVE  PagesInv'
<1>1. UNCHANGED <<rows, matches>> /\ rows \subseteq Numbers
  BY DEF Start, creationVars, Inv, TypeOK
<1>2. PagesInv
  BY DEF Inv
<1>3. ASSUME NEW l \in Listings, l # k
      PROVE  Returned(l)' /\ Covered(l)' /\ SteadyMatches(l)'
  <2>1. UNCHANGED <<pc[l], sort[l], ceiling[l], last[l], got[l], steady[l]>>
    BY <1>3 DEF Start, Inv, TypeOK
  <2> QED
    BY <1>1, <1>2, <1>3, <2>1, OtherPages
<1>4. last'[k] = 0 /\ pc'[k] = "page" /\ \A s \in Numbers : got'[k][s] = 0
  BY DEF Start, Inv, TypeOK
<1>5. steady'[k] = {s \in Numbers : s \in rows => s \in matches}
  BY DEF Start, Inv, TypeOK
<1>6. \A s : ~Past(k, s)'
  BY <1>4 DEF Past, Beyond
<1>7. Returned(k)' /\ Covered(k)'
  BY <1>4, <1>6 DEF Returned, Covered
<1>8. SteadyMatches(k)'
  BY <1>1, <1>5 DEF SteadyMatches
<1> QED
  BY <1>3, <1>7, <1>8 DEF PagesInv

\* A page returns items that had not been passed, and moves on to the last of them.
LEMMA FetchPages ==
  ASSUME Inv, NEW k \in Listings, Fetch(k)
  PROVE  PagesInv'
<1>1. UNCHANGED <<rows, matches, sort, ceiling, steady>> /\ TypeOK
  BY DEF Fetch, creationVars, Inv
<1>2. PagesInv
  BY DEF Inv
<1>3. ASSUME NEW l \in Listings, l # k
      PROVE  Returned(l)' /\ Covered(l)' /\ SteadyMatches(l)'
  <2>1. UNCHANGED <<pc[l], sort[l], ceiling[l], last[l], got[l], steady[l]>>
    BY <1>3 DEF Fetch, Inv, TypeOK
  <2> QED
    BY <1>1, <1>2, <1>3, <2>1, OtherPages
<1>4. pc[k] = "page" /\ Returned(k) /\ Covered(k) /\ SteadyMatches(k)
  BY <1>2 DEF Fetch, PagesInv
<1>5. /\ Page(k) \subseteq Found(k) /\ Found(k) \subseteq Numbers
      /\ \A s \in Page(k) : \A t \in Found(k) : Before(sort[k], t, s) => t \in Page(k)
  BY <1>1, Pages
<1>6. \A s \in Found(k) : ~Past(k, s)
  BY DEF Found, Past
<1>7. \A s \in Numbers :
        got'[k][s] = IF s \in Page(k) /\ got[k][s] < 2 THEN got[k][s] + 1 ELSE got[k][s]
  BY <1>1 DEF Fetch, TypeOK
<1>8. \A s \in Numbers : got[k][s] \in 0 .. 2
  BY <1>1 DEF TypeOK
<1>9. \A s \in Page(k) : got[k][s] = 0
  <2> SUFFICES ASSUME NEW s \in Page(k)
               PROVE  got[k][s] = 0
    OBVIOUS
  <2>1. ~(got[k][s] > 0) /\ got[k][s] \in 0 .. 2
    BY <1>4, <1>5, <1>6, <1>8 DEF Returned
  <2> QED
    BY <2>1
<1>10. \A s \in Numbers : got'[k][s] = IF s \in Page(k) THEN 1 ELSE got[k][s]
  BY <1>5, <1>7, <1>9
<1>11. \A s \in Numbers : got'[k][s] < 2
  BY <1>4, <1>10 DEF Returned
<1>12. \A s \in Owing(k) : s \in Numbers /\ (Past(k, s) \/ s \in Found(k))
  BY <1>1, <1>4 DEF Owing, SteadyMatches, Past, Found, TypeOK
<1>13. Owing(k)' = Owing(k) /\ SteadyMatches(k)'
  BY <1>1, <1>4 DEF Owing, SteadyMatches
<1>14. \A s \in Owing(k) : Past(k, s) => got'[k][s] > 0
  BY <1>4, <1>10, <1>12 DEF Covered
<1>15. CASE Found(k) = Page(k)
  <2>1. pc'[k] = "done"
    BY <1>1, <1>15 DEF Fetch, TypeOK
  <2>2. \A s \in Owing(k) : got'[k][s] > 0
    BY <1>10, <1>12, <1>14, <1>15
  <2>3. Returned(k)' /\ Covered(k)'
    BY <1>11, <1>13, <2>1, <2>2 DEF Returned, Covered
  <2> QED
    BY <1>3, <1>13, <2>3 DEF PagesInv
<1>16. CASE Found(k) # Page(k)
  <2> DEFINE cursor == NextCursor(k)
  <2>1. pc'[k] = "page" /\ last'[k] = cursor
    BY <1>1, <1>4, <1>16 DEF Fetch, TypeOK
  <2>2. cursor \in Page(k) /\ cursor \in Numbers /\ \A t \in Page(k) : ~Before(sort[k], cursor, t)
    BY <1>1, <1>16, MorePages
  <2> HIDE DEF cursor
  <2>3. cursor \in Nat \ {0} /\ \A s \in Numbers : s \in Nat
    BY <2>2 DEF Numbers
  <2>4. \A s \in Numbers : Past(k, s)' <=> ~Before(sort[k], cursor, s)
    BY <1>1, <2>1, <2>3 DEF Past, Beyond
  <2>5. ASSUME NEW s \in Numbers, Past(k, s)
        PROVE  Past(k, s)'
    <3>1. last[k] # 0 /\ ~Before(sort[k], last[k], s) /\ Before(sort[k], last[k], cursor)
      BY <1>5, <1>6, <2>2, <2>5 DEF Past, Beyond
    <3>2. last[k] \in Nat /\ s \in Nat /\ cursor \in Nat
      BY <1>1, <2>3 DEF TypeOK
    <3>3. ~Before(sort[k], cursor, s)
      <4>1. CASE sort[k] = "oldest"
        <5>1. ~(last[k] < s) /\ last[k] < cursor
          BY <3>1, <4>1 DEF Before
        <5>2. ~(cursor < s)
          BY <3>2, <5>1
        <5> QED
          BY <4>1, <5>2 DEF Before
      <4>2. CASE sort[k] # "oldest"
        <5>1. ~(last[k] > s) /\ last[k] > cursor
          BY <3>1, <4>2 DEF Before
        <5>2. ~(cursor > s)
          BY <3>2, <5>1
        <5> QED
          BY <4>2, <5>2 DEF Before
      <4> QED
        BY <4>1, <4>2
    <3> QED
      BY <2>4, <3>3
  <2>6. \A s \in Page(k) : Past(k, s)'
    BY <1>5, <2>2, <2>4
  <2>7. Returned(k)'
    <3>1. \A s \in Numbers : got'[k][s] > 0 => Past(k, s)'
      BY <1>4, <1>10, <2>5, <2>6 DEF Returned
    <3> QED
      BY <1>11, <3>1 DEF Returned
  <2>8. ASSUME NEW s \in Owing(k), Past(k, s)'
        PROVE  got'[k][s] > 0
    <3>1. s \in Numbers /\ ~Before(sort[k], cursor, s)
      BY <1>12, <2>4, <2>8
    <3>2. ASSUME s \in Found(k)
          PROVE  s \in Page(k)
      <4>1. s = cursor \/ Before(sort[k], s, cursor)
        <5>1. s \in Nat /\ cursor \in Nat
          BY <2>3, <3>1
        <5> QED
          BY <3>1, <5>1 DEF Before
      <4> QED
        BY <1>5, <2>2, <3>2, <4>1
    <3> QED
      BY <1>10, <1>12, <1>14, <3>1, <3>2
  <2>9. Covered(k)'
    BY <1>13, <2>1, <2>8 DEF Covered
  <2> QED
    BY <1>3, <1>13, <2>7, <2>9 DEF PagesInv
<1> QED
  BY <1>15, <1>16

LEMMA StepPages == Inv /\ [Next]_vars => Inv'
<1> SUFFICES ASSUME Inv, [Next]_vars
             PROVE  Inv'
  OBVIOUS
<1>1. TypeOK' /\ Numbering'
  BY StepTypes, StepNumbering DEF Inv
<1>2. PagesInv'
  <2>1. CASE UNCHANGED vars
    <3>1. UNCHANGED listingVars /\ PagesInv
      BY <2>1 DEF vars, Inv
    <3>2. \A l \in Listings : Owing(l)' \subseteq Owing(l) /\ SteadyMatches(l)'
      BY <2>1, <3>1 DEF vars, creationVars, listingVars, Owing, SteadyMatches, PagesInv
    <3> QED
      BY <3>1, <3>2, QuietPages DEF PagesInv
  <2> QED
    BY <2>1, CreationPages, ChangePages, StartPages, FetchPages DEF Next
<1> QED
  BY <1>1, <1>2 DEF Inv

LEMMA PagesAlways == Spec => []Inv
BY InitInv, StepPages, PTL DEF Spec

\* The variables have their types.
THEOREM TypeCorrect == Spec => []TypeOK
BY PagesAlways, PTL DEF Inv

\* A finished listing has returned every item that was there when it started and
\* matched all along, whatever was created, changed or rolled back between its pages,
\* and no listing returns an item twice; for every number of items to the page.
THEOREM ListingCompleteHolds == Spec => []ListingComplete
<1>1. Inv => ListingComplete
  BY DEF Inv, PagesInv, Returned, Covered, Owing, ListingComplete
<1> QED
  BY <1>1, PagesAlways, PTL
=============================================================================
