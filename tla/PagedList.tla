------------------------------- MODULE PagedList ------------------------------
(***************************************************************************)
(* The lists of devices, users, locations, installation points, API keys   *)
(* and alarms, and a client that walks through the pages of one of them.   *)
(* The repositories' List functions are the same but for their queries:    *)
(* one statement reads a page by LIMIT and OFFSET, newest row first, a     *)
(* second one counts, and total_pages is computed from the count.  Rows    *)
(* come and go between any two statements.                                 *)
(*                                                                         *)
(* A row is the number of its creation time: larger is newer.              *)
(***************************************************************************)
EXTENDS Integers, FiniteSets

CONSTANTS Rows,          \* creation times
          Asked,         \* the limits clients ask for, 0 for none
          DefaultLimit,  \* what a missing limit becomes (10 in the code)
          MaxOthers,     \* bound: live rows the search does not match
          MaxChanges     \* bound: rows that enter, and rows that leave, in a walk

\* What the constants are, assumed in Walks.
PagedListAssumption ==
    /\ Rows \subseteq Nat /\ IsFiniteSet(Rows)
    /\ Asked \subseteq Int
    /\ DefaultLimit \in Nat \ {0}
    /\ MaxOthers \in Nat /\ MaxChanges \in Nat

VARIABLES
    list,       \* "alarms", whose count has a fallback, or "master" data
    listed,     \* the rows the WHERE clause selects
    others,     \* how many more the count of master data includes
    limit,      \* effective limit of the walk
    page,       \* effective page of the request
    at,         \* "asking", "read" (between the two statements), "done"
    got,        \* rows of the page that was read
    seen,       \* rows the client was given
    twice,      \* history: how many rows it was given again
    lasting,    \* history: rows listed ever since the walk began
    entered,    \* history: how many rows entered the list during the walk
    left,       \* history: how many rows left it
    fallback    \* history: a total of 0 took the place of a failed count

vars == <<list, listed, others, limit, page, at, got, seen, twice, lasting,
          entered, left, fallback>>
table == <<list, listed, others>>
history == <<lasting, entered, left>>

-----------------------------------------------------------------------------
(* One List call *)

EffectiveLimit(asked) == IF asked <= 0 THEN DefaultLimit ELSE asked
EffectivePage(asked) == IF asked <= 0 THEN 1 ELSE asked

\* Fault: pages are counted, not rows.
OffsetInPages(p) == p - 1

Offset(p) == (p - 1) * limit

\* ORDER BY created_at DESC
Rank(r) == Cardinality({x \in listed : x > r})

\* Fault: one row too many.
PageAndOne(p) == {r \in listed : Offset(p) <= Rank(r) /\ Rank(r) <= Offset(p) + limit}

PageOf(p) == {r \in listed : Offset(p) <= Rank(r) /\ Rank(r) < Offset(p) + limit}

\* Fault: the last, incomplete page is not counted.
FullPages(total) == total \div limit

TotalPages(total) ==
    total \div limit + IF total % limit > 0 THEN 1 ELSE 0

\* The count of alarms has the page's WHERE clause; that of master data counts
\* every live row, whatever the search.
Counted == IF list = "alarms" THEN Cardinality(listed) ELSE Cardinality(listed) + others

-----------------------------------------------------------------------------
(* The walk.  A client asks for page 1 (or none), and for the next page as   *)
(* long as the answer says there are more.                                   *)

Begin(asked, first) ==
    /\ limit' = EffectiveLimit(asked)
    /\ page' = EffectivePage(first)
    /\ at' = "asking"
    /\ got' = {} /\ seen' = {} /\ twice' = 0
    /\ lasting' = listed
    /\ entered' = 0 /\ left' = 0
    /\ fallback' = FALSE

Init ==
    /\ list \in {"alarms", "master"}
    /\ listed \in SUBSET Rows
    /\ others \in 0..MaxOthers
    /\ limit = DefaultLimit /\ page = 1 /\ at = "done"
    /\ got = {} /\ seen = {} /\ twice = 0
    /\ lasting = {} /\ entered = 0 /\ left = 0
    /\ fallback = FALSE

Walk ==
    /\ at = "done"
    /\ \E asked \in Asked, first \in {0, 1} : Begin(asked, first)
    /\ UNCHANGED table

\* The page's statement; when it fails the client asks again.
ReadPage ==
    /\ at = "asking"
    /\ got' = PageOf(page)
    /\ at' = "read"
    /\ UNCHANGED <<table, limit, page, seen, twice, history, fallback>>

\* The answer: the client has the page, and asks for the next if there is one.
Answer(total) ==
    /\ seen' = seen \cup got
    /\ twice' = twice + Cardinality(seen \cap got)
    /\ got' = {}
    /\ IF page < TotalPages(total)
       THEN page' = page + 1 /\ at' = "asking"
       ELSE page' = page /\ at' = "done"

CountRows ==
    /\ at = "read"
    /\ Answer(Counted)
    /\ UNCHANGED <<table, limit, history, fallback>>

\* The count fails: of alarms the total is 0, otherwise the request fails and
\* the client asks for the page again.
CountFails ==
    /\ at = "read"
    /\ IF list = "alarms"
       THEN Answer(0) /\ fallback' = TRUE
       ELSE /\ at' = "asking" /\ got' = {}
            /\ UNCHANGED <<page, seen, twice, fallback>>
    /\ UNCHANGED <<table, limit, history>>

-----------------------------------------------------------------------------
(* Other requests create, delete and patch rows: a row enters or leaves the  *)
(* list, wherever it stands in it, or only the count.                        *)

Enter(r) ==
    /\ r \notin listed
    /\ entered < MaxChanges
    /\ listed' = listed \cup {r}
    /\ entered' = entered + 1
    /\ UNCHANGED <<list, others, limit, page, at, got, seen, twice, lasting, left,
                   fallback>>

Leave(r) ==
    /\ r \in listed
    /\ left < MaxChanges
    /\ listed' = listed \ {r}
    /\ lasting' = lasting \ {r}
    /\ left' = left + 1
    /\ UNCHANGED <<list, others, limit, page, at, got, seen, twice, entered, fallback>>

OthersChange ==
    /\ others' \in 0..MaxOthers
    /\ UNCHANGED <<list, listed, limit, page, at, got, seen, twice, history, fallback>>

Next ==
    \/ Walk \/ ReadPage \/ CountRows \/ CountFails
    \/ \E r \in Rows : Enter(r) \/ Leave(r)
    \/ OthersChange

Spec == Init /\ [][Next]_vars

-----------------------------------------------------------------------------
(* Properties *)

\* Every variable has its type; a page never exceeds the limit.
TypeOK ==
    /\ list \in {"alarms", "master"}
    /\ listed \subseteq Rows /\ lasting \subseteq listed
    /\ others \in 0..MaxOthers
    /\ limit \in Nat \ {0} /\ page \in Nat \ {0}
    /\ at \in {"asking", "read", "done"}
    /\ got \subseteq Rows /\ Cardinality(got) <= limit
    /\ seen \subseteq Rows
    /\ twice \in Nat /\ entered \in Nat /\ left \in Nat
    /\ fallback \in BOOLEAN

\* A walk through the pages misses at most one row for each row that left the
\* list meanwhile, although pages are cut out of a list that moves and the
\* count is of another moment and of more rows; unless a failed count of
\* alarms was answered as 0.
MissesAtMostOnePerLeaving ==
    at = "done" /\ ~fallback => Cardinality(lasting \ seen) <= left

\* It gives a row again at most once for each row that entered meanwhile: in a
\* list that nothing enters no row comes twice.
RepeatsAtMostOnePerEntering == twice <= entered
=============================================================================
