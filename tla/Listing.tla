------------------------------- MODULE Listing -------------------------------
(***************************************************************************)
(* GET /projects and GET /projects/:id/tasks as a client sees them that    *)
(* asks for page after page, while other requests change what there is to  *)
(* list.  A page takes two queries, first the rows and then their number,  *)
(* and the client goes on until meta.totalPages says that it was the last. *)
(***************************************************************************)
EXTENDS Integers, FiniteSets

CONSTANTS
  Ids,      \* ids of rows: uuids, which PostgreSQL orders
  Keys,     \* values of the sort column
  Null,     \* a sort column that has none (dueDate)
  Limits,   \* limits a client asks for
  Orders    \* and sort orders, "asc" and "desc"

ASSUME ListingAssumption ==
  /\ Ids \subseteq Nat /\ IsFiniteSet(Ids)
  /\ Keys \subseteq Nat /\ Null \notin Nat
  /\ Limits \subseteq Nat \ {0} /\ Orders \subseteq {"asc", "desc"}

VARIABLES
  rows,   \* the rows of the owner, or the project, that the filter lets through
  key,    \* the sort column of each, Null for a row that is not there
  walk    \* the client: its query, the pages read, and what it has seen

listVars == <<rows, key, walk>>

-----------------------------------------------------------------------------
\* Mutant: no second sort column.
BugNoTieBreak(a, b, order) ==
  \/ key[a] # Null /\ key[b] = Null
  \/ /\ Null \notin {key[a], key[b]}
     /\ IF order = "asc" THEN key[a] < key[b] ELSE key[a] > key[b]

\* ORDER BY the column, NULLS LAST in either direction, then by id ASC.
Before(a, b, order) ==
  \/ key[a] # Null /\ key[b] = Null
  \/ /\ Null \notin {key[a], key[b]}
     /\ IF order = "asc" THEN key[a] < key[b] ELSE key[a] > key[b]
  \/ key[a] = key[b] /\ a < b

\* The first n rows, or all: where the order leaves ties, PostgreSQL may
\* return any of them first.
IsFirst(set, n, order) ==
  /\ Cardinality(set) = IF n < Cardinality(rows) THEN n ELSE Cardinality(rows)
  /\ \A a \in set, b \in rows \ set : ~Before(b, a, order)

\* What OFFSET skip LIMIT take may return.
Slices(skip, take, order) ==
  {page \in SUBSET rows :
     \E before \in SUBSET (rows \ page) :
       /\ IsFirst(before, skip, order)
       /\ IsFirst(before \cup page, skip + take, order)}

\* Mutant: pages are counted from 0.
BugSkip(page, limit) == page * limit

Skip(page, limit) == (page - 1) * limit

totalPages(total, limit) == (total + limit - 1) \div limit

-----------------------------------------------------------------------------
\* The client and the handler of its requests.

ReadRows(data) ==
  /\ walk.phase = "ask"
  /\ walk' = [walk EXCEPT !.phase = "count", !.data = data]
  /\ UNCHANGED <<rows, key>>
  /\ data \in Slices(Skip(walk.page, walk.limit), walk.limit, walk.order)

\* The answer reaches the client, which asks for the next page if there is one.
CountRows ==
  /\ walk.phase = "count"
  /\ LET more == walk.page < totalPages(Cardinality(rows), walk.limit)
     IN walk' = [walk EXCEPT
          !.phase = IF more THEN "ask" ELSE "done",
          !.page = IF more THEN @ + 1 ELSE @,
          !.seen = @ \cup walk.data,
          !.missed = @ \ walk.data,
          !.twice = @ \/ walk.data \cap walk.seen # {},
          !.data = {}]
  /\ UNCHANGED <<rows, key>>

\* The request fails between its queries, and the client repeats it.
AskAgain ==
  /\ walk.phase = "count"
  /\ walk' = [walk EXCEPT !.phase = "ask", !.data = {}]
  /\ UNCHANGED <<rows, key>>

-----------------------------------------------------------------------------
\* What other requests do to the rows of the list.

Enter(r, k) ==
  /\ r \notin rows
  /\ rows' = rows \cup {r}
  /\ key' = [key EXCEPT ![r] = k]
  /\ walk' = [walk EXCEPT !.came = TRUE]

Leave(r) ==
  /\ r \in rows
  /\ rows' = rows \ {r}
  /\ key' = [key EXCEPT ![r] = Null]
  /\ walk' = [walk EXCEPT !.left = TRUE]

Move(r, k) ==
  /\ r \in rows /\ key[r] # k
  /\ key' = [key EXCEPT ![r] = k]
  /\ walk' = [walk EXCEPT !.came = TRUE, !.left = TRUE]
  /\ UNCHANGED rows

-----------------------------------------------------------------------------
ListInit ==
  /\ rows \in SUBSET Ids
  /\ key \in [Ids -> Keys \cup {Null}]
  /\ \A r \in Ids \ rows : key[r] = Null
  /\ \E limit \in Limits, order \in Orders :
       walk = [phase |-> "ask", page |-> 1, data |-> {}, seen |-> {},
               missed |-> rows, twice |-> FALSE, came |-> FALSE, left |-> FALSE,
               limit |-> limit, order |-> order]

ListNext ==
  \/ \E data \in SUBSET rows : ReadRows(data)
  \/ CountRows
  \/ AskAgain
  \/ \E r \in Ids, k \in Keys \cup {Null} : Enter(r, k) \/ Move(r, k)
  \/ \E r \in Ids : Leave(r)

ListSpec == ListInit /\ [][ListNext]_listVars

-----------------------------------------------------------------------------
\* The client's bookkeeping has its types, and data waits for its number.
ListTypeOK ==
  /\ rows \subseteq Ids
  /\ key \in [Ids -> Keys \cup {Null}]
  /\ walk \in [phase : {"ask", "count", "done"}, page : Nat \ {0},
               data : SUBSET Ids, seen : SUBSET Ids, missed : SUBSET Ids,
               twice : BOOLEAN, came : BOOLEAN, left : BOOLEAN,
               limit : Limits, order : Orders]
  /\ walk.phase # "count" => walk.data = {}

\* A client that has read every page has seen every row there was when it
\* began, whatever was inserted meanwhile, unless a row has left the list or
\* moved in it (projects-and-tasks.md: id as second order, so that the result
\* is deterministic).
NoneSkipped == walk.phase = "done" /\ ~walk.left => walk.missed = {}

\* It sees no row twice, whatever was deleted meanwhile, unless a row has come
\* into the list or moved in it.
NoRowTwice == ~walk.came => ~walk.twice
=============================================================================
