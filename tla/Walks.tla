--------------------------------- MODULE Walks -------------------------------
(***************************************************************************)
(* A client that walks through the pages of one of the API's lists or of a *)
(* device's history.  Both cut pages by offset out of rows that move while *)
(* it walks; lists answer with a number of pages, the history with         *)
(* has_more.  The two modules share the client: what it asked for, where   *)
(* it is, what it was given, and what was there all the while.             *)
(***************************************************************************)
EXTENDS Integers, FiniteSets

CONSTANTS Times,        \* creation times of rows, timestamps of samples
          Tags,         \* combinations of tags of samples
          Asked,        \* the limits clients ask for
          MaxLimit,     \* of the history: 100
          DefaultLimit, \* what a missing limit becomes: 10 and 20
          MaxOthers,    \* bound: live rows the search does not match
          MaxChanges,   \* bound: rows that enter, rows that leave, samples
          None

VARIABLES limit, page, at, seen, twice, lasting,                      \* the client
          list, listed, others, got, entered, left, fallback,         \* a list
          tags, desc, shown, more, cut, newest, arrived               \* a history

listVars == <<list, listed, others, got, entered, left, fallback>>
historyVars == <<tags, desc, shown, more, cut, newest, arrived>>
vars == <<limit, page, at, seen, twice, lasting, listVars, historyVars>>

Lists == INSTANCE PagedList WITH Rows <- Times
History == INSTANCE TelemetryHistory WITH MaxArrivals <- MaxChanges

ASSUME WalksAssumption == Lists!PagedListAssumption /\ History!HistoryAssumption

Init ==
    \/ /\ Lists!Init
       /\ tags = [t \in Times |-> None] /\ desc = FALSE /\ shown = {} /\ more = FALSE
       /\ cut = {} /\ newest = None /\ arrived = 0
    \/ /\ History!Init
       /\ list = "history" /\ listed = {} /\ others = 0 /\ got = {}
       /\ entered = 0 /\ left = 0 /\ fallback = FALSE

Next ==
    \/ list # "history" /\ Lists!Next /\ UNCHANGED historyVars
    \/ list = "history" /\ History!Next /\ UNCHANGED listVars

Spec == Init /\ [][Next]_vars

-----------------------------------------------------------------------------
(* Properties *)

\* Every variable has its type; a page never exceeds the limit, and samples
\* that were shown exist.
TypeOK == IF list = "history" THEN History!TypeOK ELSE Lists!TypeOK

\* A walk through a list misses at most one row for each that left, and one
\* through a history misses only what its answers had read and cut, nothing in
\* ascending order as long as there is one table: the number of pages, and
\* has_more, never end a walk too early.
MissesAtMostOnePerLeaving ==
    IF list = "history"
    THEN History!MissesOnlyWhatWasCut /\ History!AscendingMissesNothing
    ELSE Lists!MissesAtMostOnePerLeaving

\* In descending order a walk misses only the newest sample.
DescendingMissesOnlyNewest == list = "history" => History!DescendingMissesOnlyNewest

\* It is given a row again at most once for each that entered, and in a
\* descending walk once more at the end of each table.
RepeatsAtMostOnePerEntering ==
    IF list = "history" THEN History!RepeatsFewRecords ELSE Lists!RepeatsAtMostOnePerEntering
=============================================================================
