--------------------------- MODULE TelemetryHistory --------------------------
(***************************************************************************)
(* POST /telemetry/history/:device_sn, and a client that walks through its *)
(* pages for as long as the answer says has_more.  InfluxDB keeps one      *)
(* table per combination of tags; the query's sort and limit work on each  *)
(* of them.  The repository merges what it gets by time, oldest first      *)
(* whatever the order asked for, and the handler keeps the first `limit`   *)
(* records.  A sample has all its fields, so fields are left out, and a    *)
(* failed query, which changes nothing, too.                               *)
(***************************************************************************)
EXTENDS Integers, FiniteSets

CONSTANTS Times,        \* timestamps of samples within start and stop
          Tags,         \* combinations of device type, location, project
          Asked,        \* the limits clients ask for
          MaxLimit,     \* 100: larger limits are replaced
          DefaultLimit, \* 20
          MaxArrivals,  \* bound: samples written during a walk
          None

\* What the constants are, assumed in Walks.
HistoryAssumption ==
    /\ Times \subseteq Nat /\ IsFiniteSet(Times)
    /\ Asked \subseteq Int
    /\ MaxLimit \in Nat /\ DefaultLimit \in 1..MaxLimit
    /\ MaxArrivals \in Nat
    /\ None \notin Tags

VARIABLES
    tags,      \* the tags of the sample of each time, None where there is none
    desc,      \* filter.SortDesc
    limit,     \* effective limit
    page,      \* page of the request
    at,        \* "asking", "answered", "done"
    shown,     \* the records of the answer
    more,      \* its has_more
    seen,      \* history: all records the client was given
    cut,       \* history: all records that were read but left out of an answer
    twice,     \* history: how many it was given again
    lasting,   \* history: samples that were there when the walk began
    newest,    \* history: the newest sample when the first page was read
    arrived    \* history: how many samples came during the walk

vars == <<tags, desc, limit, page, at, shown, more, seen, cut, twice, lasting, newest, arrived>>
walk == <<desc, limit, lasting>>

Samples == {t \in Times : tags[t] # None}

-----------------------------------------------------------------------------
(* One answer *)

EffectiveLimit(asked) == IF asked < 1 \/ asked > MaxLimit THEN DefaultLimit ELSE asked

\* Fault: pages are counted, not rows.
OffsetInPages == page - 1

Offset == (page - 1) * limit

\* Fault: no record beyond the page is asked for.
FetchPage == limit

\* limit + 1, to see whether there are more.
FetchLimit == limit + 1

\* Place of a sample in its own table, in the order asked for.
Rank(t) ==
    Cardinality({x \in Samples : tags[x] = tags[t] /\ (IF desc THEN x > t ELSE x < t)})

\* The rows of all tables, merged by time.
Fetched == {t \in Samples : Offset <= Rank(t) /\ Rank(t) < Offset + FetchLimit}

Oldest(records, n) == {t \in records : Cardinality({x \in records : x < t}) < n}
Newest(records, n) == {t \in records : Cardinality({x \in records : x > t}) < n}

\* records[:req.Limit] of the records sorted by time, ascending.
CutRecords == Oldest(Fetched, limit)

-----------------------------------------------------------------------------
Init ==
    /\ tags \in [Times -> Tags \cup {None}]
    /\ desc = FALSE /\ limit = DefaultLimit /\ page = 1 /\ at = "done"
    /\ shown = {} /\ more = FALSE
    /\ seen = {} /\ cut = {} /\ twice = 0 /\ lasting = {} /\ newest = None /\ arrived = 0

\* A client begins with page 1, in either order.
Walk ==
    /\ at = "done"
    /\ desc' \in BOOLEAN
    /\ \E asked \in Asked : limit' = EffectiveLimit(asked)
    /\ page' = 1 /\ at' = "asking"
    /\ shown' = {} /\ more' = FALSE
    /\ seen' = {} /\ cut' = {} /\ twice' = 0
    /\ lasting' = Samples /\ newest' = None /\ arrived' = 0
    /\ UNCHANGED tags

\* GetTelemetryHistory: one query, and what is made of its rows.
GetTelemetryHistory ==
    /\ at = "asking"
    /\ at' = "answered"
    /\ shown' = CutRecords
    /\ more' = (Cardinality(Fetched) > limit)
    /\ seen' = seen \cup CutRecords
    /\ cut' = cut \cup (Fetched \ CutRecords)
    /\ twice' = twice + Cardinality(seen \cap CutRecords)
    /\ newest' = IF page = 1 /\ Samples # {} THEN CHOOSE t \in Newest(Samples, 1) : TRUE ELSE newest
    /\ UNCHANGED <<tags, page, arrived, walk>>

\* The client goes on while there are more.
NextPage ==
    /\ at = "answered"
    /\ IF more THEN page' = page + 1 /\ at' = "asking" ELSE page' = page /\ at' = "done"
    /\ UNCHANGED <<tags, shown, more, seen, cut, twice, newest, arrived, walk>>

\* WriteTelemetry: writers stamp their samples before they write them, so a
\* sample need not be the newest.
WriteTelemetry(t, g) ==
    /\ tags[t] = None
    /\ arrived < MaxArrivals
    /\ tags' = [tags EXCEPT ![t] = g]
    /\ arrived' = arrived + 1
    /\ UNCHANGED <<page, at, shown, more, seen, cut, twice, newest, walk>>

Next ==
    \/ Walk \/ GetTelemetryHistory \/ NextPage
    \/ \E t \in Times, g \in Tags : WriteTelemetry(t, g)

Spec == Init /\ [][Next]_vars

-----------------------------------------------------------------------------
(* Properties *)

\* Every variable has its type; an answer has at most `limit` records, all of
\* which exist.
TypeOK ==
    /\ tags \in [Times -> Tags \cup {None}]
    /\ desc \in BOOLEAN /\ more \in BOOLEAN
    /\ limit \in 1..MaxLimit /\ page \in Nat \ {0}
    /\ at \in {"asking", "answered", "done"}
    /\ shown \subseteq Samples /\ Cardinality(shown) <= limit
    /\ seen \subseteq Samples /\ cut \subseteq Samples /\ lasting \subseteq Samples
    /\ twice \in Nat /\ arrived \in 0..MaxArrivals
    /\ newest \in Times \cup {None}

\* The device kept its type, location and project.
OneTable == Cardinality({tags[t] : t \in Samples}) <= 1

\* In ascending order a walk misses nothing, although pages are cut by offset
\* while samples arrive anywhere: has_more is never FALSE too early.
AscendingMissesNothing ==
    at = "done" /\ ~desc /\ OneTable => lasting \subseteq seen

\* In descending order the cut takes the newest record of each page instead of
\* the one beyond it.  That one was the last of the page before, so a walk
\* misses only the newest sample of all.
DescendingMissesOnlyNewest ==
    at = "done" /\ desc /\ OneTable => lasting \ seen \subseteq {newest}

\* Under any number of tables, each of which has a limit and an offset of its
\* own, a walk in either order misses only what an answer of its own had read
\* and cut: the queries of its pages leave nothing out, whatever arrives.
MissesOnlyWhatWasCut ==
    at = "done" => lasting \ seen \subseteq cut

\* A record comes again at most once for each sample that arrives meanwhile,
\* and in descending order once more at the end of each table.
RepeatsFewRecords ==
    twice <= arrived + (IF desc THEN Cardinality({tags[t] : t \in Samples}) ELSE 0)

\* "sort by time descending (default true)": the first page has the newest
\* samples.
DescendingShowsNewestFirst ==
    [][at = "asking" /\ at' = "answered" /\ desc /\ page = 1 =>
           shown' = Newest(Samples, limit)]_vars
=============================================================================
