----------------------------- MODULE DeviceStream ----------------------------
(***************************************************************************)
(* GET /telemetry/stream and /telemetry/stream/:device_sn: every five      *)
(* seconds a round asks InfluxDB for the last health and the last          *)
(* telemetry of each device, PostgreSQL for the devices, and sends what it *)
(* made of them.  A round that fails sends an error and the loop goes on.  *)
(* Streams share nothing that a round changes, so there is one.            *)
(*                                                                         *)
(* InfluxDB keeps a table per combination of tags and answers with the     *)
(* last row of each.  What devices measure is left out; a point is its     *)
(* age, a device the number of its created_at.                             *)
(***************************************************************************)
EXTENDS Integers, FiniteSetsExt

CONSTANTS Devices,    \* serial numbers
          Places,     \* of each device: its combinations of gateway, type,
                      \* project and model
          ProjectOf,  \* the project of each place
          Streams,    \* that clients open: of which device, or None for all, of
                      \* which ?project=, or None, and the headers of the answer
          AsRead,     \* what a serial number becomes when the answer is read
          Threshold,  \* age up to which a device is online: 30 seconds
          ListLimit,  \* of the devices' list: 1000
          None

ASSUME DeviceStreamAssumption ==
    /\ Devices \subseteq Nat /\ IsFiniteSet(Devices)
    /\ DOMAIN Places = Devices /\ \A d \in Devices : IsFiniteSet(Places[d])
    /\ \A d \in Devices : Places[d] \subseteq DOMAIN ProjectOf
    /\ \A s \in Streams : /\ s.of \in Devices \cup {None}
                           /\ s.headers \in {"same", "types", "tags"}
    /\ AsRead \in [Devices -> Nat]
    /\ Threshold \in Nat
    /\ ListLimit \in Nat \ {0}
    /\ None \notin Nat

VARIABLES
    health,  \* age of the last health point of each device at each place
    listed,  \* devices in PostgreSQL
    of,      \* the device of the stream
    project, \* the project of the stream
    headers, \* "same", or apart in "types" or in "tags"
    at,      \* what the round does next
    read,    \* what the round made of InfluxDB's answer
    screen   \* what the client was sent last, None where it has no device

stream == <<of, project, headers>>
vars == <<health, listed, stream, at, read, screen>>
world == <<health, listed, stream>>

Old == Threshold + 1
Ages == 0..Old

\* last_seen, as an age, and whether the status was "online" when it was read.
Entries == [seen : Ages \cup {None}, online : BOOLEAN]

\* A device InfluxDB knows nothing of.
Offline == [seen |-> None, online |-> FALSE]

Online(age) == age # None /\ age <= Threshold

Older(age) == IF age = None \/ age = Old THEN age ELSE age + 1

-----------------------------------------------------------------------------
(* A round *)

\* The query has a filter on the project if the stream has one.
Asked(d) == {p \in Places[d] : project \in {None, ProjectOf[p]}}

\* The rows of d, one of each table asked for, by their times.
Times(d) == {health[d][p] : p \in Asked(d)} \ {None}

\* Fault: the time of the oldest table.
OldestTime(times) == IF times = {} THEN None ELSE Max(times)

\* parseHealthResult: the latest time.
LastSeen(times) == IF times = {} THEN None ELSE Min(times)

Health(times) == [seen |-> LastSeen(times), online |-> Online(LastSeen(times))]

\* parseValue makes a number of whatever looks like one and toString prints
\* it, so "0012" is read as "12": whose rows a device is given.
RowsOf(d) == UNION {Times(e) : e \in {x \in Devices : AsRead[x] = d}}

\* parseFluxCSV takes the columns from the first header.  InfluxDB repeats it
\* where they change: with their types, as between integers, floats and the text
\* reset_reason, they stay in place; where a tag is missing in a table, rows are
\* read off by a column, and then their device is lost.
ReadUnder(rows) == IF headers = "tags" THEN SUBSET rows ELSE {rows}

\* Each further header becomes a device without a time, and the list is in no
\* order.
Answers(d) ==
    {Health(rows) : rows \in ReadUnder(Times(d))}
        \cup IF Times(d) # {} /\ headers # "same" THEN {Offline} ELSE {}

\* Fault: the list has no limit.
AllListed == listed

\* List of the devices: ORDER BY created_at DESC LIMIT 1000.
ListDevices == {d \in listed : Cardinality({x \in listed : x > d}) < ListLimit}

Init ==
    /\ health = [d \in Devices |-> [p \in Places[d] |-> None]]
    /\ listed \in SUBSET Devices
    /\ \E s \in Streams : of = s.of /\ project = s.project /\ headers = s.headers
    /\ at = "health"
    /\ read = [d \in Devices |-> Offline]
    /\ screen = [d \in Devices |-> None]

Tick ==
    /\ at = "sleep"
    /\ at' = "health"
    /\ UNCHANGED <<world, read, screen>>

\* GetLatestHealthSSE.  The base of all devices' payload is PostgreSQL, where
\* the header is no device; a stream of one takes the first of the list, and
\* reports an error when there is none.
GetLatestHealth ==
    /\ at = "health"
    /\ IF of = None
       THEN /\ read' \in [Devices -> Entries]
            /\ \A d \in Devices : \E rows \in ReadUnder(RowsOf(d)) : read'[d] = Health(rows)
            /\ at' = "telemetry"
       ELSE /\ \E entry \in Answers(of) : read' = [d \in Devices |-> IF d = of THEN entry ELSE Offline]
            /\ at' = IF Times(of) = {} THEN "sleep" ELSE "telemetry"
    /\ UNCHANGED <<world, screen>>

GetLatestTelemetry ==
    /\ at = "telemetry"
    /\ at' = "devices"
    /\ UNCHANGED <<world, read, screen>>

\* The merge, and the event.
Send(shown) ==
    /\ screen' = [d \in Devices |-> IF d \in shown THEN read[d] ELSE None]
    /\ at' = "sleep"

\* All devices are sent, also those of which the project's answer has nothing.
GetDevices ==
    /\ at = "devices"
    /\ Send(IF of = None THEN ListDevices ELSE {of})
    /\ UNCHANGED <<world, read>>

\* Fault: a query that fails is an empty answer.
Ignore ==
    /\ at' = IF at = "health" THEN "telemetry" ELSE "devices"
    /\ read' = IF at = "health" THEN [d \in Devices |-> Offline] ELSE read
    /\ UNCHANGED screen

\* The round ends with an error event.
Abandon ==
    /\ at' = "sleep"
    /\ UNCHANGED <<read, screen>>

InfluxFails ==
    /\ at \in {"health", "telemetry"}
    /\ Abandon
    /\ UNCHANGED world

\* Of one device only the name is missing then.
PostgresFails ==
    /\ at = "devices"
    /\ IF of = None THEN Abandon ELSE Send({of}) /\ UNCHANGED read
    /\ UNCHANGED world

-----------------------------------------------------------------------------
(* The world *)

\* A device writes its health, wherever its tags put it.
Report(d, p) ==
    /\ health' = [health EXCEPT ![d][p] = 0]
    /\ UNCHANGED <<listed, stream, at, read, screen>>

TimePasses ==
    /\ health' = [d \in Devices |-> [p \in Places[d] |-> Older(health[d][p])]]
    /\ read' = [d \in Devices |-> [read[d] EXCEPT !.seen = Older(@)]]
    /\ screen' = [d \in Devices |->
                     IF screen[d] = None THEN None ELSE [screen[d] EXCEPT !.seen = Older(@)]]
    /\ UNCHANGED <<listed, stream, at>>

\* CreateDevice and DeleteDevice.
Change(d) ==
    /\ listed' = IF d \in listed THEN listed \ {d} ELSE listed \cup {d}
    /\ UNCHANGED <<health, stream, at, read, screen>>

-----------------------------------------------------------------------------
Round == Tick \/ GetLatestHealth \/ GetLatestTelemetry \/ GetDevices

Next ==
    \/ Round \/ InfluxFails \/ PostgresFails
    \/ \E d \in Devices : Change(d) \/ \E p \in Places[d] : Report(d, p)
    \/ TimePasses

\* The ticker ticks, every query has a timeout, and none fails for ever.
Fairness ==
    /\ WF_vars(Round \/ InfluxFails \/ PostgresFails)
    /\ SF_vars(GetLatestHealth) /\ SF_vars(GetLatestTelemetry) /\ SF_vars(GetDevices)

Spec == Init /\ [][Next]_vars
FairSpec == Spec /\ Fairness

-----------------------------------------------------------------------------
(* Properties *)

\* Every variable has its type; no more devices are shown than are listed.
TypeOK ==
    /\ \A d \in Devices : health[d] \in [Places[d] -> Ages \cup {None}]
    /\ listed \subseteq Devices
    /\ of \in Devices \cup {None} /\ headers \in {"same", "types", "tags"}
    /\ at \in {"sleep", "health", "telemetry", "devices"}
    /\ read \in [Devices -> Entries]
    /\ screen \in [Devices -> Entries \cup {None}]
    /\ Cardinality({d \in Devices : screen[d] # None}) <= ListLimit

\* What is read as d is its rows, all and nothing else: in the stream of all
\* devices no tag is missing, its serial number is read as itself and none other
\* is; in its own, its fields are of one type, too (with a text reset_reason
\* next to the numbers they are not).
Plain(d) ==
    \/ of = None /\ headers # "tags" /\ \A e \in Devices : AsRead[e] = d <=> e = d
    \/ of = d /\ headers = "same"

\* What the newest point of d says, under whatever project, and what the screen
\* says; the devices cut off by the limit of the list count as not there.
Status(points) == IF \E p \in points : Online(p) THEN "online" ELSE "offline"

Truth(d) ==
    IF of = None /\ d \notin {x \in listed : Cardinality({y \in listed : y > x}) < ListLimit}
    THEN "not there" ELSE Status({health[d][p] : p \in Places[d]})

Screen(d) ==
    IF screen[d] = None THEN "not there" ELSE IF screen[d].online THEN "online" ELSE "offline"

\* d is online, but not under the project of the stream, which is deaf to it: it
\* shows d as offline, for as long as that lasts.
Elsewhere(d) ==
    Status({health[d][p] : p \in Places[d]}) # Status({health[d][p] : p \in Places[d] \cap Asked(d)})

\* A device that stays as it is, online, silent or not listed, is shown so in
\* the end, wherever it reported from before and whatever fails in between, if
\* what is read as the device is its own (Plain) and it is not online under a
\* project the stream has not asked for (Elsewhere); in a stream of its own,
\* once there is a report to be found.  Of devices beyond the limit of the list
\* it says only that they are not shown.
ScreenSettles ==
    \A d \in Devices : \A s \in {"online", "offline", "not there"} :
        LET still == /\ Truth(d) = s
                     /\ \/ s = "not there"
                        \/ Plain(d) /\ ~Elsewhere(d) /\ (of = None \/ Times(d) # {})
        IN <>[]still => <>[](Screen(d) = s)

\* From one event to the next the last_seen of a device that is Plain does not
\* go back, nor is it lost.  (In a stream of its own it is, when the device has
\* a text field and the made-up entry comes first.)
NeverBackInTime ==
    [][\A d \in Devices :
          at' # at /\ Plain(d) /\ screen[d] # None /\ screen'[d] # None /\ screen[d].seen # None
              => screen'[d].seen # None /\ screen'[d].seen <= screen[d].seen]_vars
=============================================================================
