-------------------------- MODULE DeviceStreamProofs --------------------------
(***************************************************************************)
(* What a stream of devices shows, for any devices, tags, serial numbers   *)
(* and limits.  Time on the screen does not go back because what a round   *)
(* reads is never newer than what InfluxDB has, nor older than what an     *)
(* earlier round put on the screen.                                        *)
(***************************************************************************)
EXTENDS DeviceStream, FiniteSetTheorems, WellFoundedInduction, TLAPS

\* d is on the screen, with a time, and what is read as d is its own.
Dated(d) == Plain(d) /\ screen[d] # None /\ screen[d].seen # None

Reading == at \in {"telemetry", "devices"}

\* InfluxDB has a point of d that is as new as the one on the screen.
Behind(d) == Dated(d) => \E a \in Times(d) : a <= screen[d].seen

\* Between its queries a round has read a time that is as new as the one on
\* the screen ...
Ahead(d) == Dated(d) /\ Reading => read[d].seen # None /\ read[d].seen <= screen[d].seen

\* ... and InfluxDB has a point as new as that.
Founded(d) ==
    Plain(d) /\ Reading /\ read[d].seen # None => \E a \in Times(d) : a <= read[d].seen

IInv == TypeOK /\ DOMAIN health = Devices /\ \A d \in Devices : Behind(d) /\ Ahead(d) /\ Founded(d)

-----------------------------------------------------------------------------
\* What most steps need to know of the constants.
LEMMA ConstantFacts ==
    /\ Devices \subseteq Nat /\ IsFiniteSet(Devices)
    /\ Threshold \in Nat /\ ListLimit \in Nat \ {0} /\ None \notin Nat
  BY DeviceStreamAssumption DEF DeviceStreamAssumption

\* Of some numbers one is least.
LEMMA LeastExists ==
    ASSUME NEW S \in SUBSET Nat, S # {}
    PROVE  \E m \in S : \A x \in S : m <= x
  <1>1. PICK m \in S : \A x \in S : ~(<<x, m>> \in OpToRel(<, Nat))
    BY WFMin, NatLessThanWellFounded
  <1>2. \A x \in S : ~(x < m)
    BY <1>1 DEF OpToRel
  <1> QED
    BY <1>2

\* The latest of some ages is one of them, and none is less.
LEMMA LatestIsLeast ==
    ASSUME NEW S \in SUBSET Ages
    PROVE  /\ S = {} => LastSeen(S) = None
           /\ S # {} => LastSeen(S) \in S /\ \A a \in S : LastSeen(S) <= a
           /\ Health(S) \in Entries /\ Health(S).seen = LastSeen(S)
  <1>1. S \subseteq Nat
    BY ConstantFacts DEF Ages, Old
  <1>2. S = {} => LastSeen(S) = None
    BY DEF LastSeen
  <1>3. S # {} => LastSeen(S) \in S /\ \A a \in S : LastSeen(S) <= a
    <2> SUFFICES ASSUME S # {} PROVE LastSeen(S) \in S /\ \A a \in S : LastSeen(S) <= a
      OBVIOUS
    <2>1. PICK m \in S : \A a \in S : m <= a
      BY <1>1, LeastExists
    <2>2. Min(S) \in S /\ \A a \in S : Min(S) <= a
      BY <2>1 DEF Min
    <2> QED
      BY <2>2 DEF LastSeen
  <1>4. LastSeen(S) \in Ages \cup {None}
    BY <1>2, <1>3
  <1>5. Online(LastSeen(S)) \in BOOLEAN
    BY DEF Online
  <1> QED
    BY <1>2, <1>3, <1>4, <1>5 DEF Health, Entries

\* The rows of a device are ages; where it is plain those read as d are d's.
LEMMA RowsAreTimes ==
    ASSUME TypeOK, NEW d \in Devices
    PROVE  /\ Times(d) \in SUBSET Ages /\ RowsOf(d) \in SUBSET Ages
           /\ Plain(d) /\ of = None => RowsOf(d) = Times(d) /\ headers # "tags"
           /\ of # None /\ Plain(d) => d = of /\ headers = "same"
  <1>1. \A e \in Devices : Times(e) \in SUBSET Ages
    BY DEF TypeOK, Times, Asked, stream
  <1>2. RowsOf(d) \in SUBSET Ages
    BY <1>1 DEF RowsOf
  <1>3. Plain(d) /\ of = None => RowsOf(d) = Times(d) /\ headers # "tags"
    <2> SUFFICES ASSUME Plain(d), of = None PROVE RowsOf(d) = Times(d) /\ headers # "tags"
      OBVIOUS
    <2>1. headers # "tags" /\ \A e \in Devices : AsRead[e] = d <=> e = d
      BY DeviceStreamAssumption DEF Plain
    <2>2. {x \in Devices : AsRead[x] = d} = {d}
      BY <2>1
    <2>3. RowsOf(d) = UNION {Times(e) : e \in {d}}
      BY <2>2 DEF RowsOf
    <2> QED
      BY <2>1, <2>3
  <1>4. of # None /\ Plain(d) => d = of /\ headers = "same"
    BY DEF Plain
  <1> QED
    BY <1>1, <1>2, <1>3, <1>4

\* The list is no longer than its limit: the oldest device in it has all the
\* others before it.
LEMMA ListFits == TypeOK => Cardinality(ListDevices) <= ListLimit /\ IsFiniteSet(ListDevices)
  <1> SUFFICES ASSUME TypeOK
               PROVE  Cardinality(ListDevices) <= ListLimit /\ IsFiniteSet(ListDevices)
    OBVIOUS
  <1> DEFINE L == ListDevices
             After(d) == {x \in listed : x > d}
  <1>1. /\ L \subseteq listed /\ listed \subseteq Devices /\ L \subseteq Nat /\ listed \subseteq Nat
        /\ IsFiniteSet(Devices) /\ ListLimit \in Nat \ {0}
    BY ConstantFacts DEF TypeOK, ListDevices
  <1>2. IsFiniteSet(L) /\ IsFiniteSet(listed)
    BY <1>1, FS_Subset
  <1>3. CASE L = {}
    BY <1>1, <1>2, <1>3, FS_EmptySet
  <1>4. CASE L # {}
    <2>1. PICK m \in L : \A x \in L : m <= x
      BY <1>1, <1>4, LeastExists
    <2>2. L \ {m} \subseteq After(m)
      <3> HIDE DEF L
      <3>1. \A x \in L : x # m => x > m
        BY <1>1, <2>1
      <3> QED
        BY <1>1, <3>1
    <2>3. IsFiniteSet(After(m))
      BY <1>2, FS_Subset
    <2>4. Cardinality(L \ {m}) <= Cardinality(After(m))
      BY <2>2, <2>3, FS_Subset
    <2>5. Cardinality(L \ {m}) = Cardinality(L) - 1
      BY <1>2, FS_RemoveElement
    <2>6. Cardinality(After(m)) < ListLimit
      BY DEF ListDevices
    <2>7. Cardinality(L) \in Nat /\ Cardinality(After(m)) \in Nat /\ Cardinality(L \ {m}) \in Nat
      BY <1>2, <2>3, FS_CardinalityType, FS_RemoveElement
    <2> HIDE DEF L, After
    <2>8. Cardinality(L) <= ListLimit
      BY <1>1, <2>4, <2>5, <2>6, <2>7
    <2> QED
      BY <1>2, <2>8 DEF L
  <1> QED
    BY <1>3, <1>4

\* Before the first event nothing is on the screen and no round is under way.
LEMMA InitInv == Init => IInv
  <1> SUFFICES ASSUME Init PROVE IInv
    OBVIOUS
  <1>1. {d \in Devices : screen[d] # None} = {}
    BY DEF Init
  <1>2. Cardinality({d \in Devices : screen[d] # None}) <= ListLimit
    BY <1>1, FS_EmptySet, ConstantFacts
  <1>3. Offline \in Entries
    BY DEF Offline, Entries
  <1>4. of \in Devices \cup {None} /\ headers \in {"same", "types", "tags"}
    BY DeviceStreamAssumption DEF Init
  <1>5. TypeOK
    BY <1>2, <1>3, <1>4 DEF Init, TypeOK
  <1>6. \A d \in Devices : Behind(d) /\ Ahead(d) /\ Founded(d)
    BY DEF Init, Behind, Ahead, Founded, Dated, Reading
  <1> QED
    BY <1>5, <1>6 DEF IInv, Init

-----------------------------------------------------------------------------
\* Steps that neither read nor show anything, and the changes of the list.
LEMMA QuietStep ==
    ASSUME IInv, UNCHANGED <<health, stream, read, screen>>,
           listed' \subseteq Devices,
           at' \in {"sleep", "health", "telemetry", "devices"}, Reading' => Reading
    PROVE  IInv'
  <1>1. TypeOK'
    BY DEF IInv, TypeOK, stream
  <1>2. ASSUME NEW d \in Devices PROVE Behind(d)' /\ Ahead(d)' /\ Founded(d)'
    <2>1. Behind(d) /\ Ahead(d) /\ Founded(d)
      BY DEF IInv
    <2>2. Plain(d)' = Plain(d) /\ Dated(d)' = Dated(d) /\ Times(d)' = Times(d)
      BY DEF Plain, Dated, Times, Asked, stream
    <2> QED
      BY <2>1, <2>2 DEF Behind, Ahead, Founded
  <1> QED
    BY <1>1, <1>2 DEF IInv

\* An event: what the round has read goes on the screen.
LEMMA SendStep ==
    ASSUME IInv, at = "devices", NEW shown, IsFiniteSet(shown), Cardinality(shown) <= ListLimit,
           Send(shown), UNCHANGED <<world, read>>
    PROVE  IInv'
  <1>1. /\ UNCHANGED <<health, listed, stream, read>> /\ at' = "sleep"
        /\ screen' = [d \in Devices |-> IF d \in shown THEN read[d] ELSE None]
    BY DEF Send, world, stream
  <1>2. TypeOK
    BY DEF IInv
  <1>3. TypeOK'
    <2>1. screen' \in [Devices -> Entries \cup {None}]
      BY <1>1, <1>2 DEF TypeOK
    <2>2. {d \in Devices : screen'[d] # None} \subseteq shown
      BY <1>1
    <2> DEFINE S == {d \in Devices : screen'[d] # None}
    <2>3. IsFiniteSet(S) /\ Cardinality(S) <= Cardinality(shown)
      BY <2>2, FS_Subset
    <2>4. Cardinality(S) \in Nat /\ Cardinality(shown) \in Nat
      BY <2>3, FS_CardinalityType
    <2>5. Cardinality(S) <= ListLimit
      <3> HIDE DEF S
      <3> QED
        BY <2>3, <2>4, ConstantFacts
    <2> QED
      BY <1>1, <1>2, <2>1, <2>5 DEF TypeOK, stream
  <1>4. ASSUME NEW d \in Devices PROVE Behind(d)' /\ Ahead(d)' /\ Founded(d)'
    <2>1. Plain(d)' = Plain(d) /\ Times(d)' = Times(d) /\ ~Reading'
      BY <1>1 DEF Plain, Times, Asked, stream, Reading
    <2>2. screen'[d] # None => screen'[d] = read[d]
      BY <1>1
    <2>3. Founded(d) /\ Reading
      BY DEF IInv, Reading
    <2>4. Behind(d)'
      BY <2>1, <2>2, <2>3 DEF Behind, Dated, Founded
    <2> QED
      BY <2>1, <2>4 DEF Ahead, Founded
  <1> QED
    BY <1>1, <1>3, <1>4 DEF IInv

\* What GetLatestHealth makes of InfluxDB's rows is the newest of them.
LEMMA HealthStep ==
    ASSUME IInv, GetLatestHealth
    PROVE  /\ IInv'
           /\ UNCHANGED screen
  <1>1. /\ UNCHANGED <<health, listed, stream, screen>> /\ at' \in {"sleep", "telemetry"} /\ TypeOK
        /\ at' = "telemetry" /\ of # None => Times(of) # {}
    BY DEF GetLatestHealth, world, stream, IInv
  <1>2. read' \in [Devices -> Entries]
    <2>1. CASE of = None
      BY <2>1 DEF GetLatestHealth
    <2>2. CASE of # None
      <3>1. of \in Devices
        BY <1>1, <2>2 DEF TypeOK
      <3>2. Answers(of) \subseteq Entries
        <4>1. \A rows \in ReadUnder(Times(of)) : Health(rows) \in Entries
          <5>1. ReadUnder(Times(of)) \subseteq SUBSET Ages
            BY <1>1, <3>1, RowsAreTimes DEF ReadUnder
          <5> QED
            BY <5>1, LatestIsLeast
        <4>2. Offline \in Entries
          BY DEF Offline, Entries
        <4> QED
          BY <4>1, <4>2 DEF Answers
      <3>3. Offline \in Entries
        BY DEF Offline, Entries
      <3> QED
        BY <2>2, <3>2, <3>3 DEF GetLatestHealth
    <2> QED
      BY <2>1, <2>2
  <1>3. TypeOK'
    BY <1>1, <1>2 DEF TypeOK, stream
  <1>4. ASSUME NEW d \in Devices, Plain(d), at' = "telemetry"
        PROVE  read'[d].seen = LastSeen(Times(d))
    <2>1. CASE of = None
      <3>1. read'[d] = Health(Times(d))
        BY <1>1, <1>4, <2>1, RowsAreTimes DEF GetLatestHealth, ReadUnder
      <3> QED
        BY <1>1, <3>1, RowsAreTimes, LatestIsLeast
    <2>2. CASE of # None
      <3>1. d = of /\ headers = "same"
        BY <1>1, <1>4, <2>2, RowsAreTimes
      <3>2. Answers(of) = {Health(Times(d))}
        BY <3>1 DEF Answers, ReadUnder
      <3>3. read'[d] = Health(Times(d))
        BY <2>2, <3>1, <3>2 DEF GetLatestHealth
      <3> QED
        BY <1>1, <3>3, RowsAreTimes, LatestIsLeast
    <2> QED
      BY <2>1, <2>2
  <1>5. ASSUME NEW d \in Devices PROVE Behind(d)' /\ Ahead(d)' /\ Founded(d)'
    <2>1. Plain(d)' = Plain(d) /\ Times(d)' = Times(d) /\ Dated(d)' = Dated(d)
          /\ (Reading' => at' = "telemetry")
      BY <1>1 DEF Plain, Times, Asked, stream, Dated, Reading
    <2>2. Behind(d)
      BY DEF IInv
    <2>3. Behind(d)'
      BY <1>1, <2>1, <2>2 DEF Behind
    <2>4. /\ Times(d) \in SUBSET Ages
          /\ Times(d) = {} => LastSeen(Times(d)) = None
          /\ Times(d) # {} =>
                LastSeen(Times(d)) \in Times(d) /\ \A a \in Times(d) : LastSeen(Times(d)) <= a
      BY <1>1, RowsAreTimes, LatestIsLeast
    <2>5. Ages \subseteq Nat /\ None \notin Nat
      BY ConstantFacts DEF Ages, Old
    <2>6. Founded(d)'
      BY <1>4, <2>1, <2>4, <2>5 DEF Founded
    <2>7. Ahead(d)'
      <3> SUFFICES ASSUME Dated(d), at' = "telemetry"
                   PROVE  read'[d].seen # None /\ read'[d].seen <= screen[d].seen
        BY <1>1, <2>1 DEF Ahead
      <3>1. PICK a \in Times(d) : a <= screen[d].seen
        BY <2>2 DEF Behind
      <3>2. read'[d].seen = LastSeen(Times(d))
        BY <1>4 DEF Dated
      <3>3. screen[d].seen \in Nat
        BY <1>1, <2>5 DEF TypeOK, Dated, Entries
      <3>4. LastSeen(Times(d)) \in Times(d) /\ LastSeen(Times(d)) <= a
        BY <2>4, <3>1
      <3>5. LastSeen(Times(d)) \in Nat /\ a \in Nat
        BY <2>4, <2>5, <3>1, <3>4
      <3> QED
        BY <2>5, <3>1, <3>2, <3>3, <3>4, <3>5
    <2> QED
      BY <2>3, <2>6, <2>7
  <1> QED
    BY <1>1, <1>3, <1>5 DEF IInv

\* A device reports: there is a point newer than any on the screen.
LEMMA ReportStep ==
    ASSUME IInv, NEW d \in Devices, NEW p \in Places[d], Report(d, p)
    PROVE  IInv'
  <1>1. /\ health' = [health EXCEPT ![d][p] = 0] /\ TypeOK
        /\ UNCHANGED <<listed, stream, at, read, screen>>
    BY DEF Report, stream, IInv
  <1>2. 0 \in Ages /\ Ages \subseteq Nat /\ None \notin Nat
    BY ConstantFacts DEF Ages, Old
  <1>d. DOMAIN health = Devices /\ DOMAIN health' = Devices
    BY <1>1 DEF IInv
  <1>3. /\ \A e \in Devices \ {d} : health'[e] = health[e]
        /\ health'[d] = [health[d] EXCEPT ![p] = 0]
    BY <1>1, <1>d
  <1>4. health'[d] \in [Places[d] -> Ages \cup {None}] /\ health'[d][p] = 0
    BY <1>1, <1>2, <1>3 DEF TypeOK
  <1>5. TypeOK'
    BY <1>1, <1>3, <1>4 DEF TypeOK, stream
  <1>6. /\ 0 \in Times(d)' \/ Times(d)' = Times(d)
        /\ \A e \in Devices \ {d} : Times(e)' = Times(e)
    <2>1. \A e \in Devices : Asked(e)' = Asked(e)
      BY <1>1 DEF Asked, stream
    <2>2. \A e \in Devices \ {d} : Times(e)' = Times(e)
      BY <1>3, <2>1 DEF Times
    <2>3. CASE p \in Asked(d)
      BY <1>2, <1>4, <2>1, <2>2, <2>3 DEF Times
    <2>4. CASE p \notin Asked(d)
      <3>1. \A q \in Asked(d) : q \in Places[d] /\ q # p
        BY <2>4 DEF Asked
      <3>2. \A q \in Asked(d) : health'[d][q] = health[d][q]
        BY <1>1, <1>3, <3>1 DEF TypeOK
      <3> QED
        BY <2>1, <2>2, <3>2 DEF Times
    <2> QED
      BY <2>3, <2>4
  <1>7. ASSUME NEW e \in Devices PROVE Behind(e)' /\ Ahead(e)' /\ Founded(e)'
    <2>1. Behind(e) /\ Ahead(e) /\ Founded(e)
      BY DEF IInv
    <2>2. Plain(e)' = Plain(e) /\ Dated(e)' = Dated(e) /\ Reading' = Reading
      BY <1>1 DEF Plain, stream, Dated, Reading
    <2>3. /\ screen[e] # None => screen[e].seen \in Nat \cup {None}
          /\ read[e].seen \in Nat \cup {None}
      BY <1>1, <1>2 DEF TypeOK, Entries
    <2>4. Ahead(e)'
      BY <1>1, <2>1, <2>2 DEF Ahead
    <2>5. CASE e = d /\ 0 \in Times(d)'
      BY <1>1, <2>2, <2>3, <2>4, <2>5 DEF Behind, Founded, Dated
    <2>6. CASE Times(e)' = Times(e)
      BY <1>1, <1>6, <2>1, <2>2, <2>4, <2>6 DEF Behind, Founded
    <2> QED
      BY <1>6, <2>5, <2>6
  <1> QED
    BY <1>5, <1>7, <1>d DEF IInv

\* Growing older keeps ages in order.
LEMMA OlderFacts ==
    /\ \A a \in Ages \cup {None} : Older(a) \in Ages \cup {None} /\ (Older(a) = None <=> a = None)
    /\ \A a, b \in Ages : a <= b => Older(a) <= Older(b)
  <1>1. Threshold \in Nat /\ None \notin Nat
    BY ConstantFacts
  <1>2. \A a \in Ages : Older(a) = IF a = Threshold + 1 THEN a ELSE a + 1
    BY <1>1 DEF Older, Ages, Old
  <1>3. Older(None) = None
    BY DEF Older
  <1> QED
    BY <1>1, <1>2, <1>3 DEF Ages, Old

\* Time passes for points, what was read and the screen alike.
LEMMA TimeStep == ASSUME IInv, TimePasses PROVE IInv'
  <1>1. /\ health' = [d \in Devices |-> [p \in Places[d] |-> Older(health[d][p])]]
        /\ read' = [d \in Devices |-> [read[d] EXCEPT !.seen = Older(@)]]
        /\ screen' = [d \in Devices |->
              IF screen[d] = None THEN None ELSE [screen[d] EXCEPT !.seen = Older(@)]]
        /\ UNCHANGED <<listed, stream, at>> /\ TypeOK
    BY DEF TimePasses, stream, IInv
  <1>2. ASSUME NEW d \in Devices
        PROVE  /\ health'[d] \in [Places[d] -> Ages \cup {None}]
               /\ \A p \in Places[d] : health'[d][p] = Older(health[d][p])
               /\ read'[d] \in Entries /\ read'[d].seen = Older(read[d].seen)
               /\ screen[d] = None => screen'[d] = None
               /\ screen[d] # None => screen'[d] \in Entries /\ screen'[d].seen = Older(screen[d].seen)
               /\ read[d] \in Entries /\ (screen[d] # None => screen[d] \in Entries)
    <2>1. health[d] \in [Places[d] -> Ages \cup {None}] /\ read[d] \in Entries
          /\ (screen[d] # None => screen[d] \in Entries)
      BY <1>1 DEF TypeOK
    <2>2. health'[d] = [p \in Places[d] |-> Older(health[d][p])]
          /\ read'[d] = [read[d] EXCEPT !.seen = Older(@)]
          /\ screen'[d] = IF screen[d] = None THEN None ELSE [screen[d] EXCEPT !.seen = Older(@)]
      BY <1>1
    <2>3. \A r \in Entries : /\ [r EXCEPT !.seen = Older(@)] \in Entries
                             /\ [r EXCEPT !.seen = Older(@)].seen = Older(r.seen)
      BY OlderFacts DEF Entries
    <2> QED
      BY <2>1, <2>2, <2>3, OlderFacts
  <1>3. TypeOK'
    <2>1. {d \in Devices : screen'[d] # None} \subseteq {d \in Devices : screen[d] # None}
      BY <1>2
    <2> DEFINE S == {d \in Devices : screen[d] # None}
               T == {d \in Devices : screen'[d] # None}
    <2>2. IsFiniteSet(S)
      BY ConstantFacts, FS_Subset
    <2>3. IsFiniteSet(T) /\ Cardinality(T) <= Cardinality(S)
      BY <2>1, <2>2, FS_Subset
    <2>4. Cardinality(S) \in Nat /\ Cardinality(T) \in Nat /\ Cardinality(S) <= ListLimit
      BY <1>1, <2>2, <2>3, FS_CardinalityType DEF TypeOK
    <2>5. Cardinality(T) <= ListLimit
      <3> HIDE DEF S, T
      <3> QED
        BY <2>3, <2>4, ConstantFacts
    <2>6. read' \in [Devices -> Entries] /\ screen' \in [Devices -> Entries \cup {None}]
      BY <1>1, <1>2
    <2> QED
      BY <1>1, <1>2, <2>5, <2>6 DEF TypeOK, stream
  <1>4. ASSUME NEW d \in Devices PROVE Behind(d)' /\ Ahead(d)' /\ Founded(d)'
    <2>1. Behind(d) /\ Ahead(d) /\ Founded(d)
      BY DEF IInv
    <2>2. Plain(d)' = Plain(d) /\ Reading' = Reading
      BY <1>1 DEF Plain, stream, Reading
    <2>3. Dated(d)' => Dated(d) /\ screen'[d].seen = Older(screen[d].seen) /\ screen[d].seen \in Ages
      BY <1>2, <2>2, OlderFacts DEF Dated, Entries
    <2>4. /\ read[d].seen \in Ages \cup {None} /\ read'[d].seen = Older(read[d].seen)
          /\ (read'[d].seen # None <=> read[d].seen # None)
      BY <1>2, OlderFacts DEF Entries
    <2>5. Times(d) \subseteq Ages
      BY <1>1, RowsAreTimes
    <2>6. \A a \in Times(d) : Older(a) \in Times(d)'
      <3> TAKE a \in Times(d)
      <3>1. PICK p \in Asked(d) : a = health[d][p]
        BY DEF Times
      <3>a. a \in Ages /\ a # None
        BY <2>5 DEF Times
      <3>2. p \in Places[d] /\ p \in Asked(d)'
        BY <1>1, <3>1 DEF Asked, stream
      <3>3. Older(a) = health'[d][p] /\ Older(a) # None
        BY <1>2, <3>a, <3>1, <3>2, OlderFacts
      <3> QED
        BY <3>2, <3>3 DEF Times
    <2>7. Behind(d)'
      BY <2>1, <2>3, <2>5, <2>6, OlderFacts DEF Behind
    <2>8. Ahead(d)'
      BY <2>1, <2>2, <2>3, <2>4, OlderFacts DEF Ahead
    <2>9. Founded(d)'
      BY <2>1, <2>2, <2>4, <2>5, <2>6, OlderFacts DEF Founded
    <2> QED
      BY <2>7, <2>8, <2>9
  <1> QED
    BY <1>1, <1>3, <1>4 DEF IInv

-----------------------------------------------------------------------------
\* One device is within any limit.
LEMMA OneFits == \A d : IsFiniteSet({d}) /\ Cardinality({d}) <= ListLimit
  <1> TAKE d
  <1>1. IsFiniteSet({d}) /\ Cardinality({d}) = 1
    BY FS_Singleton
  <1> QED
    BY <1>1, ConstantFacts

\* From one event to the next the times are those of the round, as new as the
\* ones before.
LEMMA SendKeepsTime ==
    ASSUME IInv, at = "devices", NEW shown, Send(shown), NEW d \in Devices,
           Plain(d), screen[d] # None, screen'[d] # None, screen[d].seen # None
    PROVE  screen'[d].seen # None /\ screen'[d].seen <= screen[d].seen
  <1>1. screen'[d] = read[d]
    BY DEF Send
  <1>2. Ahead(d) /\ Dated(d) /\ Reading
    BY DEF IInv, Dated, Reading
  <1> QED
    BY <1>1, <1>2 DEF Ahead

\* What NeverBackInTime says of one step.
Forward ==
    \A d \in Devices :
        at' # at /\ Plain(d) /\ screen[d] # None /\ screen'[d] # None /\ screen[d].seen # None
            => screen'[d].seen # None /\ screen'[d].seen <= screen[d].seen

\* Where the screen stays, nothing on it goes back.
LEMMA StillForward == ASSUME TypeOK, UNCHANGED screen PROVE Forward
  <1>1. ASSUME NEW d \in Devices, screen[d] # None, screen[d].seen # None PROVE screen[d].seen \in Nat
    BY <1>1, ConstantFacts DEF TypeOK, Entries, Ages, Old
  <1> QED
    BY <1>1 DEF Forward

\* Every step keeps the invariant, and no step puts the screen back.
LEMMA NextInv == IInv /\ [Next]_vars => IInv' /\ Forward
  <1> SUFFICES ASSUME IInv, [Next]_vars PROVE IInv' /\ Forward
    OBVIOUS
  <1>i. TypeOK /\ listed \subseteq Devices /\ at \in {"sleep", "health", "telemetry", "devices"}
    BY DEF IInv, TypeOK
  <1>1. CASE UNCHANGED vars
    BY <1>1, <1>i, QuietStep, StillForward DEF vars, stream, Reading
  <1>2. CASE Tick
    BY <1>2, <1>i, QuietStep, StillForward DEF Tick, world, stream, Reading
  <1>3. CASE GetLatestHealth
    BY <1>3, <1>i, HealthStep, StillForward
  <1>4. CASE GetLatestTelemetry
    BY <1>4, <1>i, QuietStep, StillForward DEF GetLatestTelemetry, world, stream, Reading
  <1>5. ASSUME NEW shown, at = "devices", Send(shown), IsFiniteSet(shown),
               Cardinality(shown) <= ListLimit, UNCHANGED <<world, read>>
        PROVE  IInv' /\ Forward
    <2>1. IInv'
      BY <1>5, SendStep
    <2>2. Forward
      BY <1>5, SendKeepsTime DEF Forward
    <2> QED
      BY <2>1, <2>2
  <1>6. CASE GetDevices
    <2>1. CASE of = None
      BY <1>5, <1>6, <1>i, <2>1, ListFits DEF GetDevices
    <2>2. CASE of # None
      BY <1>5, <1>6, <2>2, OneFits DEF GetDevices
    <2> QED
      BY <2>1, <2>2
  <1>7. CASE InfluxFails
    BY <1>7, <1>i, QuietStep, StillForward DEF InfluxFails, Abandon, world, stream, Reading
  <1>8. CASE PostgresFails
    <2>1. CASE of = None
      BY <1>8, <1>i, <2>1, QuietStep, StillForward DEF PostgresFails, Abandon, world, stream, Reading
    <2>2. CASE of # None
      BY <1>5, <1>8, <2>2, OneFits DEF PostgresFails
    <2> QED
      BY <2>1, <2>2
  <1>9. ASSUME NEW d \in Devices, Change(d) PROVE IInv' /\ Forward
    <2>1. listed' \subseteq Devices
      BY <1>9, <1>i DEF Change
    <2> QED
      BY <1>9, <1>i, <2>1, QuietStep, StillForward DEF Change, stream, Reading
  <1>10. ASSUME NEW d \in Devices, NEW p \in Places[d], Report(d, p) PROVE IInv' /\ Forward
    BY <1>10, <1>i, ReportStep, StillForward DEF Report
  <1>11. CASE TimePasses
    BY <1>11, TimeStep DEF TimePasses, Forward
  <1> QED
    BY <1>1, <1>2, <1>3, <1>4, <1>6, <1>7, <1>8, <1>9, <1>10, <1>11 DEF Next, Round

\* The invariant always holds.
LEMMA AlwaysInv == Spec => []IInv
  BY InitInv, NextInv, PTL DEF Spec

\* Every variable has its type and no event has more devices than the list's
\* limit (the merge of StreamAllDevicesWithHealth), for any number of devices.
THEOREM StreamOfDevicesTypeCorrect == Spec => []TypeOK
  <1>1. IInv => TypeOK
    BY DEF IInv
  <1> QED
    BY <1>1, AlwaysInv, PTL

\* From one event to the next the last_seen of a device neither goes back nor
\* is lost, whatever fails in between, wherever the device reports from and
\* whatever project the stream asks for (parseHealthResult takes the newest of
\* a device's tables), as long as the device is Plain: what is read as it is its
\* own.  A stream of one device that has a text reset_reason is not covered.
THEOREM LastSeenNeverGoesBack == Spec => NeverBackInTime
  <1>1. Forward =>
          [\A d \in Devices :
             at' # at /\ Plain(d) /\ screen[d] # None /\ screen'[d] # None /\ screen[d].seen # None
                => screen'[d].seen # None /\ screen'[d].seen <= screen[d].seen]_vars
    BY DEF Forward
  <1> QED
    BY <1>1, AlwaysInv, NextInv, PTL DEF Spec, NeverBackInTime
=============================================================================
