-------------------------- MODULE HttpBoundaryProofs --------------------------
(***************************************************************************)
(* What a client that reads page after page can rely on, for any rows,     *)
(* keys, limits and orders.  The argument is about the rank of a row, the  *)
(* number of rows ahead of it: insertions only raise it and deletions only *)
(* lower it, so a row that has not been seen stays behind the pages read,  *)
(* and a row that has been seen stays within them.                         *)
(*                                                                         *)
(* The boundary implements Listing, so the same holds of walks through the *)
(* whole chain; and its errors are accounted for, whatever clients send.   *)
(***************************************************************************)
EXTENDS HttpBoundary, FiniteSetTheorems, TLAPS

-----------------------------------------------------------------------------
\* A walk: which rows lie ahead, and what is still to be seen.

Ahead(r, order) == {s \in rows : Before(s, r, order)}
Rank(r) == Cardinality(Ahead(r, walk.order))

\* Where the page in hand begins, and where it ends once it has been read.
Begins == Skip(walk.page, walk.limit)
Ends == Begins + (IF walk.phase = "count" THEN walk.limit ELSE 0)

Unseen ==
  walk.phase # "done" /\ ~walk.left =>
    \A r \in walk.missed :
      r \in rows /\ Rank(r) >= Begins /\ (r \notin walk.data => Rank(r) >= Ends)

Behind ==
  walk.phase # "done" /\ ~walk.came =>
    /\ walk.data \cap walk.seen = {}
    /\ \A r \in walk.seen \cap rows : Rank(r) < Begins
    /\ \A r \in walk.data \cap rows : Rank(r) < Ends

ListInv == ListTypeOK /\ Unseen /\ NoneSkipped /\ Behind /\ NoRowTwice

-----------------------------------------------------------------------------
LEMMA InitTypes == ListInit => ListTypeOK
  BY ListingAssumption DEF ListInit, ListTypeOK

\* The types are inductive (rows, their keys, the client of Listing.tla).
THEOREM ListTypes == ListSpec => []ListTypeOK
<1> USE ListingAssumption DEF ListTypeOK
<1>1. ListInit => ListTypeOK
  BY InitTypes
<1>2. ListTypeOK /\ [ListNext]_listVars => ListTypeOK'
  <2> SUFFICES ASSUME ListTypeOK, [ListNext]_listVars PROVE ListTypeOK'
    OBVIOUS
  <2>1. ASSUME NEW data \in SUBSET rows, ReadRows(data) PROVE ListTypeOK'
    BY <2>1 DEF ReadRows
  <2>2. CASE CountRows
    <3>1. /\ walk'.page \in Nat \ {0} /\ walk'.phase \in {"ask", "done"}
          /\ walk'.seen \in SUBSET Ids /\ walk'.missed \in SUBSET Ids
          /\ walk'.twice \in BOOLEAN /\ walk'.data = {}
      BY <2>2 DEF CountRows
    <3>2. walk' = [walk EXCEPT !.phase = walk'.phase, !.page = walk'.page,
            !.seen = walk'.seen, !.missed = walk'.missed, !.twice = walk'.twice,
            !.data = walk'.data]
      BY <2>2 DEF CountRows
    <3>3. rows' = rows /\ key' = key
      BY <2>2 DEF CountRows
    <3> QED BY <3>1, <3>2, <3>3
  <2>3. CASE AskAgain
    BY <2>3 DEF AskAgain
  <2>4. ASSUME NEW r \in Ids, NEW k \in Keys \cup {Null}, Enter(r, k)
        PROVE  ListTypeOK'
    BY <2>4 DEF Enter
  <2>5. ASSUME NEW r \in Ids, NEW k \in Keys \cup {Null}, Move(r, k)
        PROVE  ListTypeOK'
    BY <2>5 DEF Move
  <2>6. ASSUME NEW r \in Ids, Leave(r) PROVE ListTypeOK'
    BY <2>6 DEF Leave
  <2>7. CASE UNCHANGED listVars
    BY <2>7 DEF listVars
  <2> QED BY <2>1, <2>2, <2>3, <2>4, <2>5, <2>6, <2>7 DEF ListNext
<1> QED BY <1>1, <1>2, PTL DEF ListSpec

-----------------------------------------------------------------------------
\* The order of the query is total on rows (ORDER BY ends with the id).
LEMMA OrderTotal ==
  ASSUME ListTypeOK, NEW a \in Ids, NEW b \in Ids, NEW order
  PROVE  /\ ~Before(a, a, order)
         /\ a # b => Before(a, b, order) \/ Before(b, a, order)
<1>1. key[a] \in Keys \cup {Null} /\ key[b] \in Keys \cup {Null}
  BY DEF ListTypeOK
<1>2. a \in Nat /\ b \in Nat /\ Keys \subseteq Nat /\ Null \notin Nat
  BY ListingAssumption
<1>3. ASSUME key[a] \in Nat, key[b] \in Nat
      PROVE  /\ ~(IF order = "asc" THEN key[a] < key[a] ELSE key[a] > key[a])
             /\ key[a] # key[b] =>
                  \/ IF order = "asc" THEN key[a] < key[b] ELSE key[a] > key[b]
                  \/ IF order = "asc" THEN key[b] < key[a] ELSE key[b] > key[a]
  <2>1. CASE order = "asc"
    BY <1>3, <2>1
  <2>2. CASE order # "asc"
    BY <1>3, <2>2
  <2> QED BY <2>1, <2>2
<1>4. ~(a < a) /\ (a # b => a < b \/ b < a)
  BY <1>2
<1>5. CASE key[a] = Null /\ key[b] = Null
  BY <1>4, <1>5 DEF Before
<1>6. CASE key[a] = Null /\ key[b] # Null
  BY <1>4, <1>6 DEF Before
<1>7. CASE key[a] # Null /\ key[b] = Null
  <2>1. key[a] \in Nat
    BY <1>1, <1>2, <1>7
  <2>2. ~(IF order = "asc" THEN key[a] < key[a] ELSE key[a] > key[a])
    <3>1. CASE order = "asc"
      BY <2>1, <3>1
    <3>2. CASE order # "asc"
      BY <2>1, <3>2
    <3> QED BY <3>1, <3>2
  <2> QED BY <1>4, <1>7, <2>2, Zenon DEF Before
<1>8. CASE key[a] # Null /\ key[b] # Null
  <2>1. key[a] \in Nat /\ key[b] \in Nat
    BY <1>1, <1>2, <1>8
  <2> QED BY <1>3, <1>4, <1>8, <2>1, Zenon DEF Before
<1> QED BY <1>5, <1>6, <1>7, <1>8

LEMMA RowsFinite ==
  ASSUME ListTypeOK
  PROVE  /\ IsFiniteSet(rows) /\ Cardinality(rows) \in Nat
         /\ \A set \in SUBSET rows : IsFiniteSet(set) /\ Cardinality(set) \in Nat
  BY ListingAssumption, FS_Subset, FS_CardinalityType DEF ListTypeOK

\* The first n rows are those with a rank below n.
LEMMA FirstRank ==
  ASSUME ListTypeOK, NEW first \in SUBSET rows, NEW n \in Nat, NEW order,
         IsFirst(first, n, order), NEW r \in rows
  PROVE  /\ Cardinality(Ahead(r, order)) \in Nat
         /\ Cardinality(Ahead(r, order)) < Cardinality(rows)
         /\ r \in first <=> Cardinality(Ahead(r, order)) < n
<1> DEFINE ahead == Ahead(r, order)
<1>0. rows \subseteq Ids
  BY DEF ListTypeOK
<1>1. ahead \subseteq rows \ {r}
  BY <1>0, OrderTotal DEF Ahead
<1>2. IsFiniteSet(rows) /\ IsFiniteSet(ahead) /\ IsFiniteSet(first)
  BY <1>1, RowsFinite
<1>3. /\ Cardinality(ahead) \in Nat /\ Cardinality(rows) \in Nat
      /\ Cardinality(first) \in Nat
  BY <1>2, FS_CardinalityType
<1>4. Cardinality(ahead) < Cardinality(rows)
  BY <1>1, <1>2, <1>3, FS_Subset, ahead # rows
<1>5. CASE r \in first
  <2>1. ahead \subseteq first
    BY <1>5 DEF IsFirst, Ahead
  <2>2. Cardinality(ahead) < Cardinality(first)
    BY <1>1, <1>2, <1>3, <1>5, <2>1, FS_Subset, ahead # first
  <2> HIDE DEF ahead
  <2> QED BY <1>3, <1>4, <1>5, <2>2 DEF IsFirst, ahead
<1>6. CASE r \notin first
  <2>1. first \subseteq ahead
    BY <1>0, <1>6, OrderTotal DEF IsFirst, Ahead
  <2>2. Cardinality(first) <= Cardinality(ahead)
    BY <1>2, <1>3, <2>1, FS_Subset
  <2> HIDE DEF ahead
  <2> QED BY <1>3, <1>4, <1>6, <2>2 DEF IsFirst, ahead
<1> QED BY <1>5, <1>6

\* A page holds the rows whose rank is in it (OFFSET and LIMIT).
LEMMA SliceRank ==
  ASSUME ListTypeOK, NEW skip \in Nat, NEW take \in Nat, NEW order,
         NEW data \in Slices(skip, take, order), NEW r \in rows
  PROVE  LET rank == Cardinality(Ahead(r, order))
         IN rank \in Nat /\ (r \in data <=> skip <= rank /\ rank < skip + take)
<1>1. PICK before \in SUBSET (rows \ data) :
        IsFirst(before, skip, order) /\ IsFirst(before \cup data, skip + take, order)
  BY DEF Slices
<1>2. data \in SUBSET rows /\ before \in SUBSET rows /\ before \cup data \in SUBSET rows
  BY <1>1 DEF Slices
<1>3. /\ Cardinality(Ahead(r, order)) \in Nat
      /\ r \in before <=> Cardinality(Ahead(r, order)) < skip
  BY <1>1, <1>2, FirstRank
<1>4. r \in before \cup data <=> Cardinality(Ahead(r, order)) < skip + take
  BY <1>1, <1>2, FirstRank, skip + take \in Nat
<1>5. r \in data <=> r \in before \cup data /\ r \notin before
  BY <1>1
<1> QED BY <1>3, <1>4, <1>5

\* Ranks are numbers below the number of rows.
LEMMA RankBound ==
  ASSUME ListTypeOK, NEW r \in rows
  PROVE  Rank(r) \in Nat /\ Rank(r) < Cardinality(rows)
<1>1. Ahead(r, walk.order) \subseteq rows /\ r \notin Ahead(r, walk.order)
  BY OrderTotal DEF Ahead, ListTypeOK
<1>2. /\ Cardinality(Ahead(r, walk.order)) <= Cardinality(rows)
      /\ Cardinality(Ahead(r, walk.order)) \in Nat
      /\ Cardinality(rows) \in Nat
      /\ Cardinality(Ahead(r, walk.order)) = Cardinality(rows) =>
           Ahead(r, walk.order) = rows
  BY <1>1, RowsFinite, FS_Subset
<1> QED BY <1>1, <1>2 DEF Rank

LEMMA RanksFinite ==
  ASSUME ListTypeOK, NEW r
  PROVE  /\ Ahead(r, walk.order) \subseteq rows
         /\ IsFiniteSet(Ahead(r, walk.order)) /\ Rank(r) \in Nat
  BY RowsFinite DEF Ahead, Rank

\* After insertions a rank is no lower.
LEMMA RankRises ==
  ASSUME ListTypeOK, ListTypeOK', NEW r \in rows,
         NEW q \in Ids, NEW k, Enter(q, k)
  PROVE  r \in rows' /\ Rank(r)' >= Rank(r)
<1>1. r \in rows' /\ (\A s \in rows : s \in rows' /\ key'[s] = key[s])
      /\ walk'.order = walk.order
  BY DEF Enter, ListTypeOK
<1>2. \A s \in rows : Before(s, r, walk.order) <=> Before(s, r, walk.order)'
  BY <1>1 DEF Before
<1>3. Ahead(r, walk.order) \subseteq Ahead(r, walk.order)'
  BY <1>1, <1>2 DEF Ahead
<1>4. /\ IsFiniteSet(Ahead(r, walk.order)') /\ Rank(r)' \in Nat
  <2>1. Ahead(r, walk.order)' \subseteq rows' /\ IsFiniteSet(rows')
    BY ListingAssumption, FS_Subset DEF Ahead, ListTypeOK
  <2> QED BY <2>1, FS_Subset, FS_CardinalityType DEF Rank
<1>5. Cardinality(Ahead(r, walk.order)) <= Cardinality(Ahead(r, walk.order)')
  BY <1>3, <1>4, FS_Subset
<1> QED BY <1>1, <1>5 DEF Rank

\* After deletions it is no higher.
LEMMA RankFalls ==
  ASSUME ListTypeOK, ListTypeOK', NEW r \in rows', NEW q \in Ids, Leave(q)
  PROVE  r \in rows /\ Rank(r)' <= Rank(r) /\ Rank(r)' \in Nat
<1>1. rows' \subseteq rows /\ (\A s \in rows' : key'[s] = key[s])
      /\ walk'.order = walk.order
  BY DEF Leave, ListTypeOK
<1>2. \A s \in rows' : Before(s, r, walk.order) <=> Before(s, r, walk.order)'
  BY <1>1 DEF Before
<1>3. Ahead(r, walk.order)' \subseteq Ahead(r, walk.order)
  BY <1>1, <1>2 DEF Ahead
<1>4. /\ Cardinality(Ahead(r, walk.order)') <= Cardinality(Ahead(r, walk.order))
      /\ Cardinality(Ahead(r, walk.order)') \in Nat
  BY <1>3, RanksFinite, FS_Subset, FS_CardinalityType
<1> QED BY <1>1, <1>4 DEF Rank

\* The pages read end where they should (createPaginationMeta: Math.ceil).
LEMMA PageArithmetic ==
  ASSUME NEW page \in Nat \ {0}, NEW limit \in Nat \ {0}, NEW total \in Nat
  PROVE  /\ Skip(page, limit) \in Nat
         /\ Skip(page + 1, limit) = Skip(page, limit) + limit
         /\ ~(page < totalPages(total, limit)) => total <= Skip(page, limit) + limit
<1>1. Skip(page, limit) \in Nat /\ Skip(page + 1, limit) = Skip(page, limit) + limit
  BY DEF Skip
<1>2. Skip(page, limit) + limit = page * limit
  BY DEF Skip
<1>3. ASSUME ~(page < totalPages(total, limit)) PROVE total <= page * limit
  <2> DEFINE quotient == (total + limit - 1) \div limit
  <2>1. quotient \in Nat /\ total + limit - 1 < (quotient + 1) * limit
    OBVIOUS
  <2>2. quotient <= page
    BY <1>3, <2>1 DEF totalPages
  <2> HIDE DEF quotient
  <2>3. (quotient + 1) * limit <= (page + 1) * limit
    BY <2>1, <2>2
  <2>4. (page + 1) * limit = page * limit + limit
    OBVIOUS
  <2> QED BY <2>1, <2>3, <2>4
<1> QED BY <1>1, <1>2, <1>3

-----------------------------------------------------------------------------
LEMMA InvInit == ListInit => Unseen /\ NoneSkipped /\ Behind /\ NoRowTwice
<1> SUFFICES ASSUME ListInit PROVE Unseen /\ NoneSkipped /\ Behind /\ NoRowTwice
  OBVIOUS
<1>1. /\ walk.phase = "ask" /\ walk.page = 1 /\ walk.limit \in Nat \ {0}
      /\ walk.missed = rows /\ walk.data = {} /\ walk.seen = {} /\ walk.twice = FALSE
  BY ListingAssumption DEF ListInit
<1>2. Begins = 0 /\ Ends = 0
  BY <1>1 DEF Begins, Ends, Skip
<1>3. \A r \in rows : Rank(r) \in Nat
  BY RanksFinite, ListingAssumption, InitTypes DEF Rank
<1> QED BY <1>1, <1>2, <1>3 DEF Unseen, NoneSkipped, Behind, NoRowTwice

\* The page the rows of which are read holds what has not been seen up to its
\* end, and nothing that has been.
LEMMA ReadStep ==
  ASSUME ListInv, ListTypeOK', NEW data \in SUBSET rows, ReadRows(data)
  PROVE  (Unseen /\ NoneSkipped /\ Behind /\ NoRowTwice)'
<1> DEFINE skip == Skip(walk.page, walk.limit)
<1>1. /\ walk.phase = "ask" /\ walk'.phase = "count"
      /\ walk'.data = data /\ walk.data = {}
      /\ walk'.page = walk.page /\ walk'.limit = walk.limit
      /\ walk'.order = walk.order /\ walk'.seen = walk.seen
      /\ walk'.missed = walk.missed /\ walk'.twice = walk.twice
      /\ walk'.came = walk.came /\ walk'.left = walk.left
      /\ rows' = rows /\ key' = key
  BY DEF ReadRows, ListInv, ListTypeOK
<1>2. walk.limit \in Nat /\ skip \in Nat /\ data \in Slices(skip, walk.limit, walk.order)
  BY ListingAssumption, PageArithmetic DEF ListInv, ListTypeOK, ReadRows
<1>3. /\ Begins = skip /\ Begins' = skip
      /\ Ends = skip /\ Ends' = skip + walk.limit
  BY <1>1, <1>2 DEF Begins, Ends
<1>4. \A r \in rows : Rank(r)' = Rank(r)
  BY <1>1 DEF Rank, Ahead, Before
<1> HIDE DEF skip
<1>5. \A r \in rows :
        Rank(r) \in Nat /\ (r \in data <=> skip <= Rank(r) /\ Rank(r) < skip + walk.limit)
  BY <1>2, SliceRank DEF Rank, ListInv
<1>6. Unseen'
  BY <1>1, <1>2, <1>3, <1>4, <1>5 DEF Unseen, ListInv
<1>7. Behind'
  BY <1>1, <1>2, <1>3, <1>4, <1>5 DEF Behind, ListInv
<1> QED BY <1>1, <1>6, <1>7 DEF NoneSkipped, NoRowTwice, ListInv

\* The answer moves the end of the walk to the end of its page, or ends it
\* where there are no more rows than the pages hold.
LEMMA CountStep ==
  ASSUME ListInv, ListTypeOK', CountRows
  PROVE  (Unseen /\ NoneSkipped /\ Behind /\ NoRowTwice)'
<1> DEFINE end == Skip(walk.page, walk.limit) + walk.limit
<1> DEFINE more == walk.page < totalPages(Cardinality(rows), walk.limit)
<1>1. /\ walk.phase = "count" /\ rows' = rows /\ key' = key
      /\ walk'.phase = IF more THEN "ask" ELSE "done"
      /\ walk'.page = IF more THEN walk.page + 1 ELSE walk.page
      /\ walk'.seen = walk.seen \cup walk.data /\ walk'.data = {}
      /\ walk'.missed = walk.missed \ walk.data
      /\ walk'.limit = walk.limit /\ walk'.order = walk.order
      /\ walk'.came = walk.came /\ walk'.left = walk.left
      /\ walk'.twice = (walk.twice \/ walk.data \cap walk.seen # {})
  <2>1. /\ walk.phase = "count" /\ rows' = rows /\ key' = key
        /\ walk' = [walk EXCEPT
             !.phase = IF more THEN "ask" ELSE "done",
             !.page = IF more THEN @ + 1 ELSE @,
             !.seen = @ \cup walk.data,
             !.missed = @ \ walk.data,
             !.twice = @ \/ walk.data \cap walk.seen # {},
             !.data = {}]
    BY DEF CountRows
  <2>2. walk \in [phase : {"ask", "count", "done"}, page : Nat \ {0},
                  data : SUBSET Ids, seen : SUBSET Ids, missed : SUBSET Ids,
                  twice : BOOLEAN, came : BOOLEAN, left : BOOLEAN,
                  limit : Limits, order : Orders]
    BY DEF ListInv, ListTypeOK
  <2> HIDE DEF more
  <2> QED
    BY <2>1, <2>2
<1>a. ~walk.twice /\ walk.data \cap walk.seen = {} => ~walk'.twice
  BY <1>1
<1>b. /\ walk.limit \in Nat \ {0} /\ walk.page \in Nat \ {0}
      /\ Cardinality(rows) \in Nat
  BY ListingAssumption, RowsFinite DEF ListInv, ListTypeOK
<1>2. /\ Begins \in Nat /\ end \in Nat /\ Begins <= end /\ Ends = end
      /\ Skip(walk.page + 1, walk.limit) = end
      /\ ~more => Cardinality(rows) <= end
  <2>1. /\ Skip(walk.page, walk.limit) \in Nat
        /\ Skip(walk.page + 1, walk.limit) = end
        /\ ~more => Cardinality(rows) <= end
    BY <1>b, PageArithmetic
  <2> HIDE DEF more
  <2> QED BY <1>1, <1>b, <2>1 DEF Begins, Ends
<1>3. \A r \in rows : Rank(r)' = Rank(r) /\ Rank(r) \in Nat /\ Rank(r) < Cardinality(rows)
  BY <1>1, RankBound DEF Rank, Ahead, Before, ListInv
<1>4. more => Begins' = end /\ Ends' = end
  BY <1>1, <1>2 DEF Begins, Ends
<1> HIDE DEF end, more
<1>5. Unseen'
  <2>1. ~walk.left => \A r \in walk.missed \ walk.data : r \in rows /\ Rank(r)' >= end
    BY <1>1, <1>2, <1>3 DEF Unseen, ListInv
  <2>2. walk'.phase # "done" => more
    BY <1>1
  <2>3. more => Begins' = end /\ Ends' = end
    BY <1>4
  <2>4. walk'.missed = walk.missed \ walk.data /\ rows' = rows /\ walk'.left = walk.left
    BY <1>1
  <2>5. CASE more /\ ~walk.left
    BY <2>1, <2>3, <2>4, <2>5 DEF Unseen
  <2> QED BY <2>2, <2>4, <2>5 DEF Unseen
<1>6. NoneSkipped'
  <2>1. ~walk.left => \A r \in walk.missed \ walk.data : r \in rows /\ Rank(r) >= end
    BY <1>1, <1>2 DEF Unseen, ListInv
  <2>2. ~more => \A r \in rows : Rank(r) < end
    BY <1>b, <1>2, <1>3
  <2>3. ~walk.left /\ ~more => walk.missed \ walk.data = {}
    BY <1>2, <1>3, <2>1, <2>2
  <2>4. walk'.phase = "done" => ~more
    BY <1>1
  <2> QED BY <1>1, <2>3, <2>4 DEF NoneSkipped
<1>7. Behind' /\ NoRowTwice'
  <2>1. ~walk.came => ~walk'.twice
    BY <1>1, <1>a DEF Behind, NoRowTwice, ListInv
  <2>2. more /\ ~walk.came => \A r \in walk'.seen \cap rows' : Rank(r)' < Begins'
    BY <1>1, <1>2, <1>3, <1>4 DEF Behind, ListInv
  <2> QED BY <1>1, <2>1, <2>2 DEF Behind, NoRowTwice
<1> QED BY <1>5, <1>6, <1>7

\* A request that is repeated gives back the page it had read.
LEMMA AgainStep ==
  ASSUME ListInv, ListTypeOK', AskAgain
  PROVE  (Unseen /\ NoneSkipped /\ Behind /\ NoRowTwice)'
<1>1. /\ walk.phase = "count" /\ walk'.phase = "ask" /\ walk'.data = {}
      /\ walk'.page = walk.page /\ walk'.limit = walk.limit
      /\ walk'.order = walk.order /\ walk'.seen = walk.seen
      /\ walk'.missed = walk.missed /\ walk'.twice = walk.twice
      /\ walk'.came = walk.came /\ walk'.left = walk.left
      /\ rows' = rows /\ key' = key
  BY DEF AskAgain, ListInv, ListTypeOK
<1>2. Begins \in Nat /\ Begins' = Begins /\ Ends' = Begins
  <2>1. walk.page \in Nat \ {0} /\ walk.limit \in Nat \ {0}
    BY ListingAssumption DEF ListInv, ListTypeOK
  <2> QED BY <1>1, <2>1, PageArithmetic DEF Begins, Ends
<1>3. \A r : Rank(r)' = Rank(r)
  BY <1>1 DEF Rank, Ahead, Before
<1> QED BY <1>1, <1>2, <1>3 DEF Unseen, NoneSkipped, Behind, NoRowTwice, ListInv

\* What comes into the list pushes the unseen rows back, never forward.
LEMMA EnterStep ==
  ASSUME ListInv, ListTypeOK', NEW q \in Ids, NEW k, Enter(q, k)
  PROVE  (Unseen /\ NoneSkipped /\ Behind /\ NoRowTwice)'
<1>1. /\ walk'.phase = walk.phase /\ walk'.data = walk.data
      /\ walk'.page = walk.page /\ walk'.limit = walk.limit
      /\ walk'.missed = walk.missed /\ walk'.left = walk.left /\ walk'.came
  BY DEF Enter, ListInv, ListTypeOK
<1>2. Begins' = Begins /\ Ends' = Ends /\ Begins \in Nat /\ Ends \in Nat
  <2>1. walk.page \in Nat \ {0} /\ walk.limit \in Nat \ {0}
    BY ListingAssumption DEF ListInv, ListTypeOK
  <2> QED BY <1>1, <2>1, PageArithmetic DEF Begins, Ends
<1>3. \A r \in rows : r \in rows' /\ Rank(r)' >= Rank(r) /\ Rank(r) \in Nat
  BY RankRises, RanksFinite DEF ListInv
<1>4. \A r \in rows : Rank(r)' \in Nat
  <2>1. \A r : Ahead(r, walk.order)' \subseteq rows' /\ IsFiniteSet(rows')
    BY ListingAssumption, FS_Subset DEF Ahead, ListTypeOK
  <2> QED BY <2>1, FS_Subset, FS_CardinalityType DEF Rank
<1>5. Unseen' /\ NoneSkipped'
  BY <1>1, <1>2, <1>3, <1>4 DEF Unseen, NoneSkipped, ListInv
<1> QED BY <1>1, <1>5 DEF Behind, NoRowTwice

\* What leaves the list pulls the rows that have been seen forward, never back.
LEMMA LeaveStep ==
  ASSUME ListInv, ListTypeOK', NEW q \in Ids, Leave(q)
  PROVE  (Unseen /\ NoneSkipped /\ Behind /\ NoRowTwice)'
<1>1. /\ walk'.phase = walk.phase /\ walk'.data = walk.data
      /\ walk'.page = walk.page /\ walk'.limit = walk.limit
      /\ walk'.seen = walk.seen /\ walk'.came = walk.came /\ walk'.left
      /\ walk'.twice = walk.twice
  BY DEF Leave, ListInv, ListTypeOK
<1>2. Begins' = Begins /\ Ends' = Ends /\ Begins \in Nat /\ Ends \in Nat
  <2>1. walk.page \in Nat \ {0} /\ walk.limit \in Nat \ {0}
    BY ListingAssumption DEF ListInv, ListTypeOK
  <2> QED BY <1>1, <2>1, PageArithmetic DEF Begins, Ends
<1>3. \A r \in rows' :
        r \in rows /\ Rank(r)' <= Rank(r) /\ Rank(r)' \in Nat /\ Rank(r) \in Nat
  BY RankFalls, RanksFinite DEF ListInv
<1>4. Behind' /\ NoRowTwice'
  BY <1>1, <1>2, <1>3 DEF Behind, NoRowTwice, ListInv
<1> QED BY <1>1, <1>4 DEF Unseen, NoneSkipped

\* The invariant of a walk.
THEOREM WalkInvariant == ListSpec => []ListInv
<1>1. ListInit => ListInv
  BY InitTypes, InvInit DEF ListInv
<1>2. ListInv /\ ListTypeOK' /\ [ListNext]_listVars => ListInv'
  <2> SUFFICES ASSUME ListInv, ListTypeOK', [ListNext]_listVars
               PROVE  (Unseen /\ NoneSkipped /\ Behind /\ NoRowTwice)'
    BY DEF ListInv
  <2>1. ASSUME NEW data \in SUBSET rows, ReadRows(data)
        PROVE  (Unseen /\ NoneSkipped /\ Behind /\ NoRowTwice)'
    BY <2>1, ReadStep
  <2>2. CASE CountRows
    BY <2>2, CountStep
  <2>3. CASE AskAgain
    BY <2>3, AgainStep
  <2>4. ASSUME NEW r \in Ids, NEW k \in Keys \cup {Null}, Enter(r, k)
        PROVE  (Unseen /\ NoneSkipped /\ Behind /\ NoRowTwice)'
    BY <2>4, EnterStep
  <2>5. ASSUME NEW r \in Ids, NEW k \in Keys \cup {Null}, Move(r, k)
        PROVE  (Unseen /\ NoneSkipped /\ Behind /\ NoRowTwice)'
    <3>1. walk'.came /\ walk'.left
      BY <2>5 DEF Move, ListInv, ListTypeOK
    <3> QED BY <3>1 DEF Unseen, NoneSkipped, Behind, NoRowTwice
  <2>6. ASSUME NEW r \in Ids, Leave(r)
        PROVE  (Unseen /\ NoneSkipped /\ Behind /\ NoRowTwice)'
    BY <2>6, LeaveStep
  <2>7. CASE UNCHANGED listVars
    BY <2>7 DEF listVars, ListInv, Unseen, NoneSkipped, Behind, NoRowTwice,
                Begins, Ends, Rank, Ahead, Before
  <2> QED BY <2>1, <2>2, <2>3, <2>4, <2>5, <2>6, <2>7 DEF ListNext
<1> QED BY <1>1, <1>2, ListTypes, PTL DEF ListSpec

-----------------------------------------------------------------------------
\* A client that has read every page has seen every row there was, unless one
\* has left or moved: for lists and pages of any size.
THEOREM NothingSkipped == ListSpec => []NoneSkipped
BY WalkInvariant, PTL DEF ListInv

\* And it has seen none twice, unless one has come or moved.
THEOREM NothingTwice == ListSpec => []NoRowTwice
BY WalkInvariant, PTL DEF ListInv

-----------------------------------------------------------------------------
\* Every step of the boundary is one of the list, or leaves the list alone.
LEMMA StepsAreListSteps == [Next]_vars => [ListNext]_listVars
<1> SUFFICES ASSUME [Next]_vars PROVE [ListNext]_listVars
  OBVIOUS
<1>1. CASE UNCHANGED vars
  BY <1>1 DEF vars, listVars
<1>2. ASSUME NEW c \in Clients, NEW r \in Requests \cup {PageRequest}, Arrive(c, r)
      PROVE  [ListNext]_listVars
  BY <1>2 DEF Arrive
<1>3. ASSUME NEW c \in Clients, Serve(c) PROVE [ListNext]_listVars
  <2>1. CASE Admit(c) \/ StatementRefused(c) \/ List(c) \/ Register(c) \/ Ready(c)
    BY <2>1 DEF Admit, StatementRefused, List, Register, Ready
  <2>2. CASE StatementFails(c)
    BY <2>2 DEF StatementFails, ListNext
  <2>3. CASE Create(c)
    BY <2>3 DEF Create, ListNext
  <2>4. CASE Update(c)
    BY <2>4 DEF Update, ListNext
  <2>5. CASE Delete(c)
    BY <2>5 DEF Delete, ListNext
  <2>6. CASE ListRows(c)
    BY <2>6 DEF ListRows, ListNext
  <2>7. CASE ListCount(c)
    BY <2>7 DEF ListCount, ListNext
  <2> QED BY <1>3, <2>1, <2>2, <2>3, <2>4, <2>5, <2>6, <2>7 DEF Serve
<1> QED BY <1>1, <1>2, <1>3 DEF Next

\* A walk through the chain, failures of its requests included, is a walk of
\* Listing.
THEOREM BoundaryImplementsListing == Spec => ImplementsListing
<1>1. Init => ListInit
  BY DEF Init
<1> QED BY <1>1, StepsAreListSteps, PTL DEF Spec, ListSpec, ImplementsListing

\* So a client of the whole chain that has read every page has seen every row
\* there was, unless one has left or moved, and none twice, unless one has come
\* or moved.
THEOREM WalksAreComplete == Spec => []NoneSkipped
BY BoundaryImplementsListing, NothingSkipped, PTL DEF ImplementsListing

THEOREM WalksDoNotRepeat == Spec => []NoRowTwice
BY BoundaryImplementsListing, NothingTwice, PTL DEF ImplementsListing

-----------------------------------------------------------------------------
\* Errors.

Codes ==
  {"none", "VALIDATION_ERROR", "BAD_REQUEST", "UNAUTHENTICATED", "RESOURCE_NOT_FOUND",
   "CONFLICT", "PAYLOAD_TOO_LARGE", "TOO_MANY_REQUESTS", "INTERNAL_ERROR"}

Records ==
  [at : {"guard", "handler", "answered"}, r : AnyRequest, id : {"own", "uuid"},
   bodyId : {"unset", "own", "uuid"}, status : Nat, code : Codes,
   broken : BOOLEAN]

Broken(q) == [q EXCEPT !.broken = TRUE]
Answered(q, status) == [q EXCEPT !.at = "answered", !.status = status]

RequestOK(q) ==
  /\ q \in Records
  /\ q.at = "handler" => Accepted(q.r)
  /\ Contractual(q) /\ Accounted(q)

ErrorInv ==
  /\ req \in [Clients -> {Idle} \cup Records]
  /\ \A c \in Clients : req[c] # Idle => RequestOK(req[c])

\* The filter maps e to a status and a code that the contract has.
MapsTo(e, s, k) ==
  /\ mapException(e).status = s /\ mapException(e).code = k
  /\ s \in Nat /\ k \in Codes /\ <<s, k>> \in Contract

\* What the filter makes of the exceptions there are.
LEMMA MappedExceptions ==
  /\ MapsTo(Http(400), 400, "BAD_REQUEST")
  /\ MapsTo(Http(401), 401, "UNAUTHENTICATED")
  /\ MapsTo(Http(404), 404, "RESOURCE_NOT_FOUND")
  /\ MapsTo(Http(409), 409, "CONFLICT")
  /\ MapsTo(Http(429), 429, "TOO_MANY_REQUESTS")
  /\ MapsTo(Http(503), 503, "INTERNAL_ERROR")
  /\ MapsTo(ValidationException, 400, "VALIDATION_ERROR")
  /\ MapsTo(Unexpected(413), 413, "PAYLOAD_TOO_LARGE")
  /\ MapsTo(Unexpected(415), 500, "INTERNAL_ERROR")
  /\ MapsTo(Unexpected(0), 500, "INTERNAL_ERROR")
<1>1. /\ statusCodeMap[400] = "BAD_REQUEST" /\ statusCodeMap[401] = "UNAUTHENTICATED"
      /\ statusCodeMap[404] = "RESOURCE_NOT_FOUND" /\ statusCodeMap[409] = "CONFLICT"
      /\ statusCodeMap[429] = "TOO_MANY_REQUESTS"
  BY DEF statusCodeMap
<1>2. DOMAIN statusCodeMap = {400, 401, 403, 404, 409, 413, 429}
  BY DEF statusCodeMap
<1>3. ASSUME NEW s \in {400, 401, 404, 409, 429}
      PROVE  /\ mapException(Http(s)).status = s
             /\ mapException(Http(s)).code = statusCodeMap[s]
  BY <1>2 DEF mapException, Http
<1>4. mapException(Http(503)).status = 503 /\ mapException(Http(503)).code = "INTERNAL_ERROR"
  BY <1>2 DEF mapException, Http
<1>5. /\ mapException(ValidationException).status = 400
      /\ mapException(ValidationException).code = "VALIDATION_ERROR"
  BY DEF mapException, ValidationException
<1>6. /\ mapException(Unexpected(413)).status = 413
      /\ mapException(Unexpected(413)).code = "PAYLOAD_TOO_LARGE"
  BY DEF mapException, Unexpected
<1>7. ASSUME NEW s \in {0, 415}
      PROVE  /\ mapException(Unexpected(s)).status = 500
             /\ mapException(Unexpected(s)).code = "INTERNAL_ERROR"
  BY DEF mapException, Unexpected
<1>8. /\ <<400, "VALIDATION_ERROR">> \in Contract /\ <<400, "BAD_REQUEST">> \in Contract
      /\ <<401, "UNAUTHENTICATED">> \in Contract /\ <<404, "RESOURCE_NOT_FOUND">> \in Contract
      /\ <<409, "CONFLICT">> \in Contract /\ <<413, "PAYLOAD_TOO_LARGE">> \in Contract
      /\ <<429, "TOO_MANY_REQUESTS">> \in Contract /\ <<500, "INTERNAL_ERROR">> \in Contract
      /\ <<503, "INTERNAL_ERROR">> \in Contract
  BY DEF Contract
<1>9. MapsTo(Http(400), 400, "BAD_REQUEST") /\ MapsTo(Http(401), 401, "UNAUTHENTICATED")
  BY <1>1, <1>3, <1>8 DEF MapsTo, Codes
<1>10. MapsTo(Http(404), 404, "RESOURCE_NOT_FOUND") /\ MapsTo(Http(409), 409, "CONFLICT")
  BY <1>1, <1>3, <1>8 DEF MapsTo, Codes
<1>11. MapsTo(Http(429), 429, "TOO_MANY_REQUESTS") /\ MapsTo(Http(503), 503, "INTERNAL_ERROR")
  BY <1>1, <1>3, <1>4, <1>8 DEF MapsTo, Codes
<1>12. /\ MapsTo(ValidationException, 400, "VALIDATION_ERROR")
       /\ MapsTo(Unexpected(413), 413, "PAYLOAD_TOO_LARGE")
  BY <1>5, <1>6, <1>8 DEF MapsTo, Codes
<1>13. /\ MapsTo(Unexpected(415), 500, "INTERNAL_ERROR")
       /\ MapsTo(Unexpected(0), 500, "INTERNAL_ERROR")
  BY <1>7, <1>8 DEF MapsTo, Codes
<1> QED BY <1>9, <1>10, <1>11, <1>12, <1>13

\* GlobalExceptionFilter.catch() leaves the request what it was and answers it.
LEMMA ThrownRecord ==
  ASSUME NEW q \in Records, NEW e,
         mapException(e).status \in Nat, mapException(e).code \in Codes
  PROVE  /\ Thrown(q, e) \in Records
         /\ Thrown(q, e).at = "answered"
         /\ Thrown(q, e).status = mapException(e).status
         /\ Thrown(q, e).code = mapException(e).code
         /\ Thrown(q, e).bodyId = q.id /\ Thrown(q, e).id = q.id
         /\ Thrown(q, e).r = q.r /\ Thrown(q, e).broken = q.broken
<1>1. Thrown(q, e) \in Records
  BY DEF Records, Thrown
<1>2. Thrown(q, e).at = "answered" /\ Thrown(q, e).status = mapException(e).status
  BY DEF Records, Thrown
<1>3. /\ Thrown(q, e).code = mapException(e).code
      /\ Thrown(q, e).bodyId = q.id /\ Thrown(q, e).id = q.id
      /\ Thrown(q, e).r = q.r /\ Thrown(q, e).broken = q.broken
  BY DEF Records, Thrown
<1> QED BY <1>1, <1>2, <1>3

\* A request that ends in an exception is in order if the contract has what
\* the exception is mapped to and the request has a cause for more than 4xx.
LEMMA ThrownOK ==
  ASSUME NEW q \in Records, NEW e, NEW s, NEW k, MapsTo(e, s, k)
  PROVE  /\ s < 500 \/ Accounted(Answered(q, 500)) => RequestOK(Thrown(q, e))
         /\ RequestOK(Broken(Thrown(q, e)))
<1> DEFINE u == Thrown(q, e)
           t == Broken(u)
<1>1. /\ u \in Records
      /\ u.at = "answered" /\ u.status = s
      /\ u.code = k /\ u.bodyId = u.id
      /\ u.r = q.r /\ u.broken = q.broken
  BY ThrownRecord DEF MapsTo
<1> HIDE DEF u
<1>2. /\ t \in Records /\ t.broken
      /\ t.at = u.at /\ t.status = u.status /\ t.code = u.code
      /\ t.bodyId = u.bodyId /\ t.id = u.id
  BY <1>1 DEF Records, Broken
<1> HIDE DEF t
<1>3. Contractual(u) /\ Contractual(t)
  BY <1>1, <1>2 DEF Contractual, Records, MapsTo
<1>4. RequestOK(t)
  BY <1>1, <1>2, <1>3 DEF RequestOK, Accounted
<1>5. ASSUME s < 500 \/ Accounted(Answered(q, 500))
      PROVE  RequestOK(u)
  <2>1. Accounted(u)
    BY <1>1, <1>5 DEF Accounted, Answered, Records, MapsTo
  <2> QED BY <1>1, <1>3, <2>1 DEF RequestOK
<1> QED BY <1>4, <1>5 DEF t, u

\* So are the exceptions of the guard, the pipe, the handlers and the database.
LEMMA ExceptionsOK ==
  ASSUME NEW q \in Records
  PROVE  /\ \A e \in {Http(400), Http(401), Http(404), Http(409), Http(429),
                     ValidationException, Unexpected(413)} : RequestOK(Thrown(q, e))
         /\ \A e \in {Http(401), Http(503), Unexpected(0)} :
              RequestOK(Broken(Thrown(q, e)))
         /\ Accounted(Answered(q, 500)) =>
              \A e \in {Unexpected(0), Unexpected(415)} : RequestOK(Thrown(q, e))
<1>3. RequestOK(Thrown(q, Http(400))) /\ RequestOK(Thrown(q, Http(404)))
  BY ThrownOK, MappedExceptions
<1>4. /\ RequestOK(Thrown(q, Http(401)))
      /\ RequestOK(Broken(Thrown(q, Http(401))))
  BY ThrownOK, MappedExceptions
<1>5. RequestOK(Thrown(q, Http(409))) /\ RequestOK(Thrown(q, Http(429)))
  BY ThrownOK, MappedExceptions
<1>6. RequestOK(Thrown(q, ValidationException)) /\ RequestOK(Thrown(q, Unexpected(413)))
  BY ThrownOK, MappedExceptions
<1>7. /\ RequestOK(Broken(Thrown(q, Http(503))))
      /\ RequestOK(Broken(Thrown(q, Unexpected(0))))
  BY ThrownOK, MappedExceptions
<1>8. Accounted(Answered(q, 500)) =>
        RequestOK(Thrown(q, Unexpected(0))) /\ RequestOK(Thrown(q, Unexpected(415)))
  BY ThrownOK, MappedExceptions
<1> QED BY <1>3, <1>4, <1>5, <1>6, <1>7, <1>8

\* An answer below 400 is in order.
LEMMA RespondOK ==
  ASSUME NEW q \in Records, NEW s \in {200, 201, 204}
  PROVE  RequestOK(Answered(q, s))
<1> DEFINE t == Answered(q, s)
<1>1. s \in Nat /\ ~(s >= 400)
  OBVIOUS
<1>2. t \in Records
  BY <1>1 DEF Records, Answered
<1>3. t.at = "answered" /\ t.status = s
  BY DEF Records, Answered
<1> HIDE DEF t
<1>4. RequestOK(t)
  BY <1>1, <1>2, <1>3 DEF RequestOK, Contractual, Accounted
<1> QED BY <1>4 DEF t

\* What the chain makes of a request that has just come.
LEMMA ArrivalOK ==
  ASSUME NEW r \in AnyRequest
  PROVE  RequestOK(Parsed(WithId(r)))
<1> DEFINE q == WithId(r)
<1> SUFFICES RequestOK(Parsed(q))
  OBVIOUS
<1>1. q \in Records
  <2>1. PICK i \in {"own", "uuid"} :
          q = [at |-> "guard", r |-> r, bodyId |-> "unset", status |-> 0,
               code |-> "none", broken |-> FALSE, id |-> i]
    BY DEF WithId
  <2> QED BY <2>1 DEF Records, Codes
<1>2. q.at = "guard" /\ q.r = r
  BY DEF WithId
<1> HIDE DEF q
<1>3. CASE r.body = "fine"
  BY <1>1, <1>2, <1>3 DEF Parsed, RequestOK, Contractual, Accounted
<1>4. CASE r.body = "large"
  <2>1. RequestOK(Thrown(q, Unexpected(413)))
    BY <1>1, ExceptionsOK
  <2> QED BY <1>2, <1>4, <2>1 DEF Parsed
<1>5. CASE r.body = "malformed"
  <2>1. RequestOK(Thrown(q, Http(400)))
    BY <1>1, ExceptionsOK
  <2> QED BY <1>2, <1>5, <2>1 DEF Parsed
<1>6. CASE r.body = "undecodable"
  <2>1. Accounted(Answered(q, 500))
    BY <1>1, <1>2, <1>6 DEF Accounted, Answered, Records
  <2>2. RequestOK(Thrown(q, Unexpected(415)))
    BY <1>1, <2>1, ExceptionsOK
  <2> QED BY <1>2, <1>6, <2>2 DEF Parsed
<1> QED BY <1>3, <1>4, <1>5, <1>6 DEF AnyRequest

\* A row that PostgreSQL refuses although validation let it through.
LEMMA RefusedAccounted ==
  ASSUME NEW q \in Records, Accepted(q.r), ~Storable(q.r)
  PROVE  Accounted(Answered(q, 500))
<1>1. q.r \in AnyRequest /\ q.r.field \in FieldsOf[q.r.route]
  BY DEF Records, AnyRequest
<1>2. \/ q.r.value = "unstorable"
      \/ /\ q.r.value = "null" /\ q.r.field \in NotNull
         /\ q.r.route # "register" /\ ~(q.r.route = "create" /\ q.r.field = "name")
  BY DEF Accepted, Optional, Storable
<1>3. q.r.route \in {"register", "list", "ready", "delete", "create", "update"}
  BY <1>1 DEF AnyRequest, FieldsOf
<1>4. q.r.route \in {"list", "ready", "delete"} => q.r.field \notin NotNull
  BY <1>1 DEF FieldsOf, NotNull
<1>5. \/ q.r.value = "unstorable"
      \/ /\ q.r.value = "null"
         /\ <<q.r.route, q.r.field>> \in
              {<<"update", "name">>, <<"update", "status">>, <<"create", "status">>}
  BY <1>2, <1>3, <1>4 DEF NotNull
<1> QED BY <1>5 DEF Accounted, Answered, Records

-----------------------------------------------------------------------------
LEMMA ErrorInvInit == Init => ErrorInv
BY DEF Init, ErrorInv, Idle

LEMMA PageIsARequest == PageRequest \in AnyRequest
BY DEF PageRequest, AnyRequest, FieldsOf

\* A step that leaves one request in order leaves all of them so.
LEMMA OneRequest ==
  ASSUME ErrorInv, NEW c \in Clients, NEW q, RequestOK(q),
         req' = [req EXCEPT ![c] = q]
  PROVE  ErrorInv'
<1>1. q \in Records
  BY DEF RequestOK
<1>2. req' \in [Clients -> {Idle} \cup Records]
  BY <1>1 DEF ErrorInv
<1>3. \A d \in Clients : req'[d] = IF d = c THEN q ELSE req[d]
  BY DEF ErrorInv
<1> QED BY <1>2, <1>3 DEF ErrorInv

LEMMA ErrorInvServe ==
  ASSUME ErrorInv, NEW c \in Clients, Serve(c)
  PROVE  ErrorInv'
<1>1. CASE Admit(c)
  <2>1. req[c] # Idle /\ req[c] \in Records /\ RequestOK(req[c])
    BY <1>1 DEF Admit, ErrorInv, Idle, RequestOK
  <2>2. CASE Accepted(req[c].r) /\ req' = [req EXCEPT ![c].at = "handler"]
    <3> DEFINE q == [req[c] EXCEPT !.at = "handler"]
    <3>1. q \in Records /\ q.at = "handler" /\ q.r = req[c].r
      BY <2>1 DEF Records
    <3>2. req' = [req EXCEPT ![c] = q]
      BY <2>2
    <3> HIDE DEF q
    <3>3. RequestOK(q)
      BY <2>2, <3>1 DEF RequestOK, Contractual, Accounted
    <3> QED BY <3>2, <3>3, OneRequest
  <2>3. CASE Throw(c, ValidationException)
    <3>1. RequestOK(Thrown(req[c], ValidationException))
      BY <2>1, ExceptionsOK
    <3> QED BY <2>3, <3>1, OneRequest DEF Throw
  <2>4. CASE Throw(c, Http(401))
    <3>1. RequestOK(Thrown(req[c], Http(401)))
      BY <2>1, ExceptionsOK
    <3> QED BY <2>4, <3>1, OneRequest DEF Throw
  <2>5. CASE ThrowBroken(c, Http(401))
    <3>1. RequestOK(Broken(Thrown(req[c], Http(401))))
      BY <2>1, ExceptionsOK
    <3> QED BY <2>5, <3>1, OneRequest DEF ThrowBroken, Broken
  <2>6. CASE Throw(c, Http(429))
    <3>1. RequestOK(Thrown(req[c], Http(429)))
      BY <2>1, ExceptionsOK
    <3> QED BY <2>6, <3>1, OneRequest DEF Throw
  <2> QED BY <1>1, <2>2, <2>3, <2>4, <2>5, <2>6 DEF Admit
<1> DEFINE q == req[c]
<1>2. ASSUME q.at = "handler"
      PROVE  /\ q \in Records /\ RequestOK(q) /\ Accepted(q.r)
             /\ \A s \in {200, 201, 204} : Respond(c, s) => ErrorInv'
             /\ \A s \in {404, 409} : Throw(c, Http(s)) => ErrorInv'
             /\ UNCHANGED req => ErrorInv'
  <2>1. q \in Records /\ RequestOK(q) /\ Accepted(q.r)
    BY <1>2 DEF ErrorInv, Idle, RequestOK
  <2>2. ASSUME NEW s \in {200, 201, 204}, Respond(c, s) PROVE ErrorInv'
    <3>1. RequestOK(Answered(q, s))
      BY <2>1, RespondOK
    <3> QED BY <2>2, <3>1, OneRequest DEF Respond, Answered
  <2>3. ASSUME NEW s \in {404, 409}, Throw(c, Http(s)) PROVE ErrorInv'
    <3>1. RequestOK(Thrown(q, Http(s)))
      BY <2>1, ExceptionsOK
    <3> QED BY <2>3, <3>1, OneRequest DEF Throw
  <2>4. ASSUME UNCHANGED req PROVE ErrorInv'
    BY <2>4 DEF ErrorInv
  <2> QED BY <2>1, <2>2, <2>3, <2>4
<1>3. CASE StatementFails(c)
  <2>1. /\ RequestOK(Broken(Thrown(q, Http(503))))
        /\ RequestOK(Broken(Thrown(q, Unexpected(0))))
    BY <1>2, <1>3, ExceptionsOK DEF StatementFails
  <2> QED BY <1>3, <2>1, OneRequest DEF StatementFails, ThrowBroken, Broken
<1>4. CASE StatementRefused(c)
  <2>1. Accounted(Answered(q, 500))
    BY <1>2, <1>4, RefusedAccounted DEF StatementRefused
  <2>2. RequestOK(Thrown(q, Unexpected(0)))
    BY <1>2, <1>4, <2>1, ExceptionsOK DEF StatementRefused
  <2> QED BY <1>4, <2>2, OneRequest DEF StatementRefused, Throw
<1>5. CASE Create(c) \/ Update(c) \/ Delete(c)
  BY <1>2, <1>5 DEF Create, Update, Delete, Handles
<1>6. CASE List(c) \/ ListRows(c) \/ ListCount(c) \/ Register(c) \/ Ready(c)
  BY <1>2, <1>6 DEF List, ListRows, ListCount, Register, Ready, Handles
<1> QED BY <1>1, <1>3, <1>4, <1>5, <1>6 DEF Serve

LEMMA ErrorInvStep == ErrorInv /\ [Next]_vars => ErrorInv'
<1> SUFFICES ASSUME ErrorInv, [Next]_vars PROVE ErrorInv'
  OBVIOUS
<1>1. CASE UNCHANGED vars
  BY <1>1 DEF vars, ErrorInv
<1>2. ASSUME NEW c \in Clients, NEW r \in Requests \cup {PageRequest}, Arrive(c, r)
      PROVE  ErrorInv'
  <2>1. RequestOK(Parsed(WithId(r)))
    BY HttpAssumption, PageIsARequest, ArrivalOK
  <2> QED BY <1>2, <2>1, OneRequest DEF Arrive
<1>3. ASSUME NEW c \in Clients, Serve(c) PROVE ErrorInv'
  BY <1>3, ErrorInvServe
<1> QED BY <1>1, <1>2, <1>3 DEF Next

\* Every error response has a code that stands for its status and the id of its
\* request, for any clients and requests.
THEOREM ErrorsHaveTheContract == Spec => []ErrorsKeepTheContract
<1>1. ErrorInv => ErrorsKeepTheContract
  BY DEF ErrorInv, RequestOK, ErrorsKeepTheContract
<1> QED BY <1>1, ErrorInvInit, ErrorInvStep, PTL DEF Spec

\* No 5xx without a failed statement or one of the four requests that should
\* have been refused.
THEOREM InternalErrorsHaveCauses == Spec => []InternalErrorsAccounted
<1>1. ErrorInv => InternalErrorsAccounted
  BY DEF ErrorInv, RequestOK, InternalErrorsAccounted
<1> QED BY <1>1, ErrorInvInit, ErrorInvStep, PTL DEF Spec
=============================================================================
