----------------------------- MODULE ServerProofs -----------------------------
(***************************************************************************)
(* What holds of the server for any number of clients, alarms and          *)
(* connections.  Each step changes the connection of one client, except    *)
(* Close, which cuts them all, and Exit: so it is enough to see that the   *)
(* step takes or gives back what that client holds (StepKeepsBooks).       *)
(***************************************************************************)
EXTENDS Server, FiniteSetTheorems, SequenceTheorems, WellFoundedInduction, TLAPS

Conns == [kind : Kinds, on : SUBSET AlarmIds, at : Stages, plan : Seq(1..4),
          up : BOOLEAN, got : {s \in SUBSET AlarmIds : Cardinality(s) <= Shown}]

\* Who waits for a connection or has one has statements left to send, also
\* after the query of InfluxDB.
PlanFits(r) ==
    r.at \in {"wait", "hold"} \/ (r.at = "influx" /\ r.kind # "health") => r.plan # <<>>

ConnsOK == conn \in [Clients -> Conns] /\ \A c \in Clients : PlanFits(conn[c])

ScreensOK == screen \in [Clients -> {s \in SUBSET AlarmIds : Cardinality(s) <= Shown}]

Streaming == {c \in Clients : conn[c].kind = "devices" /\ conn[c].at # "idle"}

IInv ==
    /\ alarms \in [AlarmIds -> Statuses]
    /\ ConnsOK /\ ScreensOK
    /\ free \in 0..PoolSize /\ gauge \in Nat /\ phase \in Phases
    /\ NothingLeaks

-----------------------------------------------------------------------------
\* A set of numbers that is not empty has a least one.
LEMMA HasLeast ==
    ASSUME NEW S \in SUBSET Nat, S # {}
    PROVE  \E m \in S : \A x \in S : m <= x
  <1>1. \E m \in S : \A x \in S : ~(<<x, m>> \in OpToRel(<, Nat))
    BY WFMin, NatLessThanWellFounded
  <1>2. PICK m \in S : \A x \in S : ~(<<x, m>> \in OpToRel(<, Nat))
    BY <1>1
  <1>3. \A x \in S : ~(x < m)
    BY <1>2 DEF OpToRel
  <1> QED
    BY <1>3

\* A page has no more alarms than its limit: the oldest of them has all others
\* before it.
LEMMA FirstPageFits ==
    /\ ActiveAlarms \subseteq AlarmIds
    /\ Cardinality(ActiveAlarms) <= Shown
  <1> DEFINE P == FirstPage(Shown)
             Newer(a) == {x \in Active : x > a}
  <1>1. /\ P \subseteq Active /\ P \subseteq AlarmIds /\ AlarmIds \subseteq Nat /\ Active \subseteq AlarmIds
        /\ IsFiniteSet(AlarmIds) /\ Shown \in Nat \ {0}
    BY AlarmsAssumption DEF FirstPage, Active
  <1>2. IsFiniteSet(P)
    BY <1>1, FS_Subset
  <1>3. CASE P = {}
    <2>1. Cardinality(P) = 0
      BY <1>3, FS_EmptySet
    <2> QED
      BY <1>1, <2>1 DEF ActiveAlarms
  <1>4. CASE P # {}
    <2>1. PICK m \in P : \A x \in P : m <= x
      BY <1>1, <1>4, HasLeast
    <2>2. P \ {m} \subseteq Newer(m)
      <3> HIDE DEF P
      <3>1. \A x \in P : x # m => x > m
        BY <1>1, <2>1
      <3> QED
        BY <1>1, <3>1
    <2>3. IsFiniteSet(Newer(m))
      BY <1>1, FS_Subset
    <2>4. Cardinality(P \ {m}) <= Cardinality(Newer(m))
      BY <2>2, <2>3, FS_Subset
    <2>5. Cardinality(P \ {m}) = Cardinality(P) - 1
      BY <1>2, FS_RemoveElement
    <2>6. Cardinality(Newer(m)) < Shown
      BY DEF FirstPage
    <2>7. Cardinality(Newer(m)) \in Nat /\ Cardinality(P) \in Nat
      BY <1>2, <2>3, FS_CardinalityType
    <2> QED
      BY <1>1, <2>4, <2>5, <2>6, <2>7 DEF ActiveAlarms
  <1> QED
    BY <1>3, <1>4

\* What is counted is finite.
LEMMA ClientsFinite ==
    /\ IsFiniteSet(Clients)
    /\ IsFiniteSet(Holders) /\ Cardinality(Holders) \in Nat
    /\ IsFiniteSet(Streaming) /\ Cardinality(Streaming) \in Nat
  <1>1. IsFiniteSet(Clients)
    BY ServerAssumption, FS_Union DEF Clients
  <1>2. Holders \subseteq Clients /\ Streaming \subseteq Clients
    BY DEF Holders, Streaming
  <1> QED
    BY <1>1, <1>2, FS_Subset, FS_CardinalityType

\* The share of a client in what is counted.
Holds(r) == IF r.at = "hold" THEN 1 ELSE 0
Counted(r) == IF r.kind = "devices" /\ r.at # "idle" THEN 1 ELSE 0

\* A step of client c that takes from the pool and the gauge what its
\* connection takes more, and gives back what it takes less, keeps the books.
LEMMA StepKeepsBooks ==
    ASSUME IInv, NEW c \in Clients, NEW r \in Conns,
           conn' = [conn EXCEPT ![c] = r], PlanFits(r),
           free' = free + Holds(conn[c]) - Holds(r), free' >= 0,
           gauge' = gauge - Counted(conn[c]) + Counted(r)
    PROVE  /\ ConnsOK' /\ NothingLeaks'
           /\ free' \in 0..PoolSize /\ gauge' \in Nat
  <1>1. ConnsOK'
    BY DEF IInv, ConnsOK
  <1>2. conn'[c] = r /\ \A d \in Clients \ {c} : conn'[d] = conn[d]
    BY DEF IInv, ConnsOK
  <1>3. Holders' = IF r.at = "hold" THEN Holders \cup {c} ELSE Holders \ {c}
    BY <1>2 DEF Holders
  <1>4. Streaming' = IF r.kind = "devices" /\ r.at # "idle" THEN Streaming \cup {c} ELSE Streaming \ {c}
    BY <1>2 DEF Streaming
  <1>5. /\ c \in Holders <=> conn[c].at = "hold"
        /\ c \in Streaming <=> conn[c].kind = "devices" /\ conn[c].at # "idle"
    BY DEF Holders, Streaming
  <1>6. Cardinality(Holders') = Cardinality(Holders) - Holds(conn[c]) + Holds(r)
    <2>1. Cardinality(Holders \cup {c}) = IF c \in Holders THEN Cardinality(Holders) ELSE Cardinality(Holders) + 1
      BY ClientsFinite, FS_AddElement
    <2>2. Cardinality(Holders \ {c}) = IF c \in Holders THEN Cardinality(Holders) - 1 ELSE Cardinality(Holders)
      BY ClientsFinite, FS_RemoveElement
    <2> QED
      BY <1>3, <1>5, <2>1, <2>2, ClientsFinite DEF Holds
  <1>7. Cardinality(Streaming') = Cardinality(Streaming) - Counted(conn[c]) + Counted(r)
    <2>1. Cardinality(Streaming \cup {c}) = IF c \in Streaming THEN Cardinality(Streaming) ELSE Cardinality(Streaming) + 1
      BY ClientsFinite, FS_AddElement
    <2>2. Cardinality(Streaming \ {c}) = IF c \in Streaming THEN Cardinality(Streaming) - 1 ELSE Cardinality(Streaming)
      BY ClientsFinite, FS_RemoveElement
    <2> QED
      BY <1>4, <1>5, <2>1, <2>2, ClientsFinite DEF Counted
  <1>8. /\ Cardinality(Holders') \in Nat /\ Cardinality(Streaming') \in Nat
    <2>1. IsFiniteSet(Holders') /\ IsFiniteSet(Streaming')
      BY <1>3, <1>4, ClientsFinite, FS_AddElement, FS_RemoveElement
    <2> QED
      BY <2>1, FS_CardinalityType
  <1>9. NothingLeaks <=> free + Cardinality(Holders) = PoolSize /\ gauge = Cardinality(Streaming)
    BY DEF NothingLeaks, Streaming
  <1>10. NothingLeaks' <=> free' + Cardinality(Holders') = PoolSize /\ gauge' = Cardinality(Streaming')
    BY DEF NothingLeaks, Streaming
  <1>11. free \in Int /\ gauge \in Int /\ PoolSize \in Nat /\ Holds(conn[c]) \in 0..1 /\ Holds(r) \in 0..1
         /\ Counted(conn[c]) \in 0..1 /\ Counted(r) \in 0..1
    BY ServerAssumption DEF IInv, Holds, Counted
  <1>12. NothingLeaks'
    <2>1. /\ free + Cardinality(Holders) = PoolSize
          /\ gauge = Cardinality(Streaming)
      BY <1>9 DEF IInv
    <2> QED
      BY <1>6, <1>7, <1>10, <1>11, <2>1, ClientsFinite
  <1> QED
    BY <1>1, <1>8, <1>10, <1>11, <1>12

-----------------------------------------------------------------------------
\* A record of type Conns with other stages, plans and the like.
LEMMA Changed ==
    ASSUME IInv, NEW c \in Clients
    PROVE  /\ \A s \in Stages : [conn[c] EXCEPT !.at = s] \in Conns
           /\ [conn[c] EXCEPT !.up = FALSE] \in Conns
           /\ Idle \in Conns
           /\ conn[c] \in Conns /\ PlanFits(conn[c]) /\ PlanFits(Idle)
  <1>1. conn[c] \in Conns /\ PlanFits(conn[c])
    BY DEF IInv, ConnsOK
  <1>2. {} \in {s \in SUBSET AlarmIds : Cardinality(s) <= Shown}
    BY FS_EmptySet, AlarmsAssumption
  <1>3. <<>> \in Seq(1..4)
    BY EmptySeq
  <1>4. Idle \in Conns /\ PlanFits(Idle)
    BY <1>2, <1>3 DEF Idle, Conns, Kinds, Requests, Stages, PlanFits
  <1> QED
    BY <1>1, <1>4 DEF Conns

\* What Goto and its like make of the connection.
LEMMA GotoKeepsBooks ==
    ASSUME IInv, NEW c \in Clients, NEW s \in Stages, Goto(c, s),
           s = "idle" => conn[c].kind # "devices",
           conn[c].at # "idle",
           s \in {"wait", "hold"} => conn[c].plan # <<>>,
           s = "influx" => conn[c].kind = "health",
           free' = free + Holds(conn[c]) - (IF s = "hold" THEN 1 ELSE 0), free' >= 0,
           gauge' = gauge
    PROVE  /\ ConnsOK' /\ NothingLeaks'
           /\ free' \in 0..PoolSize /\ gauge' \in Nat
  <1> DEFINE r == IF s = "idle" THEN Idle ELSE [conn[c] EXCEPT !.at = s]
  <1>1. r \in Conns
    BY Changed
  <1>2. conn' = [conn EXCEPT ![c] = r]
    BY DEF Goto
  <1>3. conn[c] \in Conns
    BY Changed
  <1>4. s # "idle" => r.at = s /\ r.kind = conn[c].kind /\ r.plan = conn[c].plan
    BY <1>3 DEF Conns
  <1>5. Idle.at = "idle" /\ Idle.kind = "register"
    BY DEF Idle
  <1>6. PlanFits(r)
    BY <1>4, <1>5 DEF PlanFits
  <1>7. Holds(r) = IF s = "hold" THEN 1 ELSE 0
    BY <1>4, <1>5 DEF Holds
  <1>8. Counted(r) = Counted(conn[c])
    BY <1>4, <1>5 DEF Counted
  <1>9. gauge' = gauge - Counted(conn[c]) + Counted(r)
    BY <1>8 DEF Counted, IInv
  <1> HIDE DEF r
  <1> QED
    BY <1>1, <1>2, <1>6, <1>7, <1>9, StepKeepsBooks

\* Where a handler goes after its statements, and after an error.
LEMMA AfterFacts ==
    ASSUME NEW kind \in Kinds
    PROVE  /\ After(kind) \in {"idle", "influx", "show", "sleep"}
           /\ AfterError(kind) \in {"idle", "influx", "sleep"}
           /\ "idle" \in {After(kind), AfterError(kind)} => kind # "devices"
           /\ "influx" \in {After(kind), AfterError(kind)} => kind = "health"
  BY DEF Kinds, Requests, Streams, After, AfterError

\* What is left of a plan when a statement of it is done.
LEMMA PlanAfter ==
    ASSUME NEW p \in Seq(1..4), p # <<>>
    PROVE  /\ Head(p) \in 1..4
           /\ Tail(p) \in Seq(1..4)
           /\ Head(p) > 1 => /\ <<Head(p) - 1>> \o Tail(p) \in Seq(1..4)
                             /\ <<Head(p) - 1>> \o Tail(p) # <<>>
  <1>1. Head(p) \in 1..4 /\ Tail(p) \in Seq(1..4) /\ Len(Tail(p)) \in Nat
    BY HeadTailProperties, LenProperties
  <1>2. ASSUME Head(p) > 1
        PROVE  /\ <<Head(p) - 1>> \o Tail(p) \in Seq(1..4)
               /\ <<Head(p) - 1>> \o Tail(p) # <<>>
    <2> DEFINE s == <<Head(p) - 1>>
    <2>1. s \in Seq(1..4) /\ Len(s) = 1
      <3>1. Head(p) - 1 \in 1..4
        BY <1>1, <1>2
      <3> QED
        BY <3>1
    <2> HIDE DEF s
    <2>2. s \o Tail(p) \in Seq(1..4) /\ Len(s \o Tail(p)) = 1 + Len(Tail(p))
      BY <1>1, <2>1, ConcatProperties
    <2>3. Len(<<>>) = 0
      OBVIOUS
    <2> QED
      BY <1>1, <2>2, <2>3 DEF s
  <1> QED
    BY <1>1, <1>2

\* The connection goes back with the last statement of its share of the plan.
LEMMA AdvanceKeepsBooks ==
    ASSUME IInv, NEW c \in Clients, conn[c].at = "hold", Advance(c), gauge' = gauge
    PROVE  /\ ConnsOK' /\ NothingLeaks'
           /\ free' \in 0..PoolSize /\ gauge' \in Nat
  <1> DEFINE p == conn[c].plan
             left == Head(p) - 1
             rest == IF left > 0 THEN <<left>> \o Tail(p) ELSE Tail(p)
             next == IF left > 0 THEN "hold" ELSE IF rest # <<>> THEN "wait" ELSE After(conn[c].kind)
             got == IF Reads(c) THEN ActiveAlarms ELSE conn[c].got
             moved == [kind |-> conn[c].kind, on |-> conn[c].on, at |-> next, plan |-> rest,
                       up |-> conn[c].up, got |-> got]
             r == IF next = "idle" THEN Idle ELSE moved
  <1>1. conn[c] \in Conns /\ p # <<>>
    BY Changed DEF PlanFits
  <1>2. /\ p \in Seq(1..4) /\ conn[c].kind \in Kinds /\ conn[c].on \in SUBSET AlarmIds
        /\ conn[c].up \in BOOLEAN
        /\ conn[c].got \in {s \in SUBSET AlarmIds : Cardinality(s) <= Shown}
    BY <1>1 DEF Conns
  <1>3. left \in 0..3 /\ rest \in Seq(1..4) /\ (left > 0 => rest # <<>>)
    <2>1. /\ Head(p) \in 1..4
          /\ Tail(p) \in Seq(1..4)
          /\ Head(p) > 1 => /\ <<Head(p) - 1>> \o Tail(p) \in Seq(1..4)
                            /\ <<Head(p) - 1>> \o Tail(p) # <<>>
      BY <1>1, <1>2, PlanAfter
    <2> HIDE DEF p
    <2>2. left \in 0..3 /\ (left > 0 <=> Head(p) > 1)
      BY <2>1
    <2> QED
      BY <2>1, <2>2
  <1>4. /\ next \in Stages
        /\ next = "hold" <=> left > 0
        /\ next = "wait" => rest # <<>>
        /\ next = "idle" => conn[c].kind # "devices"
        /\ next = "influx" => conn[c].kind = "health"
    BY <1>2, <1>3, AfterFacts DEF Stages
  <1>5. got \in {s \in SUBSET AlarmIds : Cardinality(s) <= Shown}
    BY <1>2, FirstPageFits
  <1>6. moved \in Conns
    BY <1>2, <1>3, <1>4, <1>5 DEF Conns
  <1>7. /\ conn' = [conn EXCEPT ![c] = r]
        /\ free' = IF left > 0 THEN free ELSE free + 1
    BY DEF Advance
  <1>8. Idle.at = "idle" /\ Idle.kind = "register"
    BY DEF Idle
  <1>9. /\ moved.at = next /\ moved.kind = conn[c].kind /\ moved.plan = rest
    OBVIOUS
  <1> HIDE DEF moved, next, rest, left, got
  <1>10. r \in Conns /\ PlanFits(r)
    BY <1>4, <1>6, <1>8, <1>9, Changed, <1>3 DEF PlanFits
  <1>11. Holds(conn[c]) = 1 /\ Holds(r) = IF left > 0 THEN 1 ELSE 0
    BY <1>4, <1>8, <1>9 DEF Holds
  <1>12. gauge' = gauge - Counted(conn[c]) + Counted(r)
    <2>1. Counted(conn[c]) = Counted(r)
      BY <1>4, <1>8, <1>9 DEF Counted
    <2> QED
      BY <2>1 DEF Counted, IInv
  <1>13. free' = free + Holds(conn[c]) - Holds(r) /\ free' >= 0
    BY <1>3, <1>7, <1>11 DEF IInv
  <1> HIDE DEF r
  <1> QED
    BY <1>7, <1>10, <1>12, <1>13, StepKeepsBooks

-----------------------------------------------------------------------------
\* A server that has just started.
LEMMA InitInv == Init => IInv
  <1> SUFFICES ASSUME Init PROVE IInv
    OBVIOUS
  <1>1. {} \in {s \in SUBSET AlarmIds : Cardinality(s) <= Shown}
    BY FS_EmptySet, AlarmsAssumption
  <1>2. Idle \in Conns /\ PlanFits(Idle) /\ Idle.at = "idle"
    BY <1>1, EmptySeq DEF Idle, Conns, Kinds, Requests, Stages, PlanFits
  <1>3. Holders = {} /\ Streaming = {}
    BY <1>2 DEF Init, Holders, Streaming
  <1>4. NothingLeaks
    BY <1>3, FS_EmptySet, ServerAssumption DEF Init, NothingLeaks, Streaming
  <1> QED
    BY <1>1, <1>2, <1>4, ServerAssumption
       DEF Init, IInv, ConnsOK, ScreensOK, NoAlarms, Statuses, Phases

\* What a statement does to the table.
LEMMA EffectType ==
    ASSUME IInv, NEW c \in Clients, Effect(c)
    PROVE  alarms' \in [AlarmIds -> Statuses]
  <1>1. conn[c].on \subseteq AlarmIds
    BY Changed DEF Conns
  <1> QED
    BY <1>1 DEF IInv, Effect, UpdateStatus, Statuses

\* The invariant speaks of nothing but the variables.
LEMMA Unchanged == IInv /\ UNCHANGED vars => IInv'
  <1> SUFFICES ASSUME IInv, UNCHANGED vars PROVE IInv'
    OBVIOUS
  <1>1. Holders' = Holders
    BY DEF vars, Holders
  <1>2. NothingLeaks'
    BY <1>1 DEF IInv, vars, NothingLeaks
  <1> QED
    BY <1>2 DEF IInv, vars, ConnsOK, ScreensOK

\* A plan has at least one statement.
LEMMA PlanType ==
    ASSUME NEW kind
    PROVE  Plan(kind) \in Seq(1..4) /\ Plan(kind) # <<>>
  <1>1. <<1, 4>> \in Seq(1..4) /\ <<1, 4>> # <<>>
    OBVIOUS
  <1>2. <<1, 1>> \in Seq(1..4) /\ <<1, 1>> # <<>>
    OBVIOUS
  <1>3. <<1>> \in Seq(1..4) /\ <<1>> # <<>>
    OBVIOUS
  <1> QED
    BY <1>1, <1>2, <1>3, Zenon DEF Plan

-----------------------------------------------------------------------------
(* The steps of clients and their handlers *)

\* No step of a client or its handler breaks the invariant.
LEMMA ClientStep ==
    ASSUME IInv, NEW c \in Clients,
           (\E kind \in Asks(c) : Arrive(c, kind)) \/ Leave(c) \/ Acquire(c) \/ Handler(c) \/ Done(c)
    PROVE  IInv'
  <1> DEFINE Books == ConnsOK' /\ NothingLeaks' /\ free' \in 0..PoolSize /\ gauge' \in Nat
             World == alarms' = alarms /\ phase' = phase
             Screens == {s \in SUBSET AlarmIds : Cardinality(s) <= Shown}
  <1>0. SUFFICES Books /\ alarms' \in [AlarmIds -> Statuses] /\ phase' = phase /\ ScreensOK'
    BY DEF IInv
  <1>a. World => alarms' \in [AlarmIds -> Statuses]
    BY DEF IInv
  <1>b. screen' = screen => ScreensOK'
    BY DEF IInv, ScreensOK
  <1>c. /\ conn[c] \in Conns /\ conn[c].kind \in Kinds /\ conn[c].plan \in Seq(1..4)
        /\ conn[c].on \in SUBSET AlarmIds /\ conn[c].got \in Screens /\ conn[c].up \in BOOLEAN
        /\ PlanFits(conn[c])
    BY Changed DEF Conns
  <1>d. free \in Int /\ gauge \in Int
    BY DEF IInv
  <1>e. {} \in Screens
    BY FS_EmptySet, AlarmsAssumption
  <1>1. ASSUME NEW kind \in Asks(c), Arrive(c, kind)
        PROVE  Books /\ World /\ screen' = screen
    <2>1. PICK on \in SUBSET AlarmIds :
             conn' = [conn EXCEPT ![c] = [kind |-> kind, on |-> on, at |-> Start(kind),
                                          plan |-> Plan(kind), up |-> TRUE, got |-> {}]]
      BY <1>1 DEF Arrive
    <2> DEFINE r == [kind |-> kind, on |-> on, at |-> Start(kind),
                     plan |-> Plan(kind), up |-> TRUE, got |-> {}]
    <2>2. kind \in Kinds
      BY DEF Asks
    <2>3. Plan(kind) \in Seq(1..4) /\ Plan(kind) # <<>>
      BY PlanType
    <2>4. Start(kind) \in Stages /\ Start(kind) \notin {"hold", "idle"}
      BY DEF Start, Stages
    <2>5. r \in Conns /\ PlanFits(r) /\ r.at = Start(kind) /\ r.kind = kind
      BY <2>2, <2>3, <2>4, <1>e DEF Conns, PlanFits
    <2> HIDE DEF r
    <2>6. /\ free' = free /\ Holds(r) = 0 /\ Holds(conn[c]) = 0
          /\ Counted(conn[c]) = 0 /\ Counted(r) = IF kind = "devices" THEN 1 ELSE 0
      BY <1>1, <2>4, <2>5 DEF Arrive, Holds, Counted
    <2>7. gauge' = gauge + (IF kind = "devices" THEN 1 ELSE 0)
      BY <1>1, <1>d DEF Arrive, RecordSSEConnection
    <2>8. /\ free' = free + Holds(conn[c]) - Holds(r) /\ free' >= 0
          /\ gauge' = gauge - Counted(conn[c]) + Counted(r)
      BY <2>6, <2>7, <1>d DEF IInv
    <2>9. Books
      BY <2>1, <2>5, <2>8, StepKeepsBooks DEF r
    <2> QED
      BY <1>1, <2>9 DEF Arrive
  <1>2. ASSUME Leave(c)
        PROVE  Books /\ World /\ ScreensOK'
    <2> DEFINE r == [conn[c] EXCEPT !.up = FALSE]
    <2>1. conn' = [conn EXCEPT ![c] = r]
      BY <1>2 DEF Leave
    <2>2. /\ r \in Conns /\ PlanFits(r)
          /\ Holds(conn[c]) = Holds(r) /\ Counted(conn[c]) = Counted(r)
      BY <1>c, Changed DEF Conns, PlanFits, Holds, Counted
    <2> HIDE DEF r
    <2>3. /\ free' = free + Holds(conn[c]) - Holds(r) /\ free' >= 0
          /\ gauge' = gauge - Counted(conn[c]) + Counted(r)
      BY <1>2, <2>2, <1>d DEF Leave, IInv, Holds, Counted
    <2>4. Books
      BY <2>1, <2>2, <2>3, StepKeepsBooks
    <2>5. ScreensOK'
      BY <1>2, <1>e DEF Leave, IInv, ScreensOK
    <2> QED
      BY <1>2, <2>4, <2>5 DEF Leave
  <1>3. ASSUME Acquire(c)
        PROVE  Books /\ World /\ screen' = screen
    <2>1. conn[c].plan # <<>> /\ "hold" \in Stages
      BY <1>3, <1>c DEF Acquire, PlanFits, Stages
    <2>2. Holds(conn[c]) = 0 /\ free' = free + Holds(conn[c]) - 1 /\ free' >= 0
      BY <1>3, <1>d DEF Acquire, Holds
    <2> QED
      BY <1>3, <2>1, <2>2, GotoKeepsBooks DEF Acquire
  <1>4. ASSUME Influx(c)
        PROVE  Books /\ World /\ screen' = screen
    <2>1. PICK s \in AfterInflux(conn[c].kind) : Goto(c, s)
      BY <1>4 DEF Influx
    <2>2. /\ s \in Stages /\ s \notin {"hold", "influx"}
          /\ s = "idle" => conn[c].kind # "devices"
          /\ s = "wait" => conn[c].kind # "health"
      BY DEF AfterInflux, Stages
    <2>3. Holds(conn[c]) = 0 /\ free' = free + Holds(conn[c]) - 0 /\ free' >= 0
      BY <1>4, <1>d DEF Influx, Holds, IInv
    <2>4. s = "wait" => conn[c].plan # <<>>
      BY <1>4, <1>c, <2>2 DEF Influx, PlanFits
    <2> QED
      BY <1>4, <2>1, <2>2, <2>3, <2>4, GotoKeepsBooks DEF Influx
  <1>5. ASSUME GiveUp(c)
        PROVE  Books /\ World /\ screen' = screen
    <2>1. /\ AfterError(conn[c].kind) \in Stages \ {"hold", "wait"}
          /\ AfterError(conn[c].kind) = "idle" => conn[c].kind # "devices"
          /\ AfterError(conn[c].kind) = "influx" => conn[c].kind = "health"
      BY <1>c, AfterFacts DEF Stages
    <2>2. Holds(conn[c]) = 0 /\ free' = free + Holds(conn[c]) - 0 /\ free' >= 0
      BY <1>5, <1>d DEF GiveUp, Holds, IInv
    <2> QED
      BY <1>5, <2>1, <2>2, GotoKeepsBooks DEF GiveUp
  <1>6. ASSUME StatementDone(c)
        PROVE  Books /\ alarms' \in [AlarmIds -> Statuses] /\ phase' = phase /\ screen' = screen
    BY <1>6, AdvanceKeepsBooks, EffectType DEF StatementDone
  <1>7. ASSUME Fail(c), gauge' = gauge
        PROVE  Books
    <2> DEFINE s == IF conn[c].kind = "alarms" /\ ~Reads(c) THEN "show" ELSE AfterError(conn[c].kind)
    <2>1. /\ s \in Stages \ {"hold", "wait"}
          /\ s = "idle" => conn[c].kind # "devices"
          /\ s = "influx" => conn[c].kind = "health"
      BY <1>c, AfterFacts DEF Stages
    <2>2. Goto(c, s) /\ conn[c].at = "hold" /\ free' = free + 1
      BY <1>7 DEF Fail
    <2> HIDE DEF s
    <2>3. Holds(conn[c]) = 1 /\ free' = free + Holds(conn[c]) - 0 /\ free' >= 0
      BY <2>2, <1>d DEF Holds, IInv
    <2> QED
      BY <1>7, <2>1, <2>2, <2>3, GotoKeepsBooks
  <1>8. ASSUME StatementFails(c) \/ AnswerLost(c)
        PROVE  Books /\ alarms' \in [AlarmIds -> Statuses] /\ phase' = phase /\ screen' = screen
    <2>1. Fail(c) /\ gauge' = gauge /\ phase' = phase /\ screen' = screen
      BY <1>8 DEF StatementFails, AnswerLost
    <2>2. alarms' \in [AlarmIds -> Statuses]
      BY <1>8, <1>a, EffectType DEF StatementFails, AnswerLost, IInv
    <2> QED
      BY <1>7, <2>1, <2>2
  <1>9. ASSUME Show(c)
        PROVE  Books /\ World /\ ScreensOK'
    <2>1. "sleep" \in Stages /\ Holds(conn[c]) = 0 /\ free' = free + Holds(conn[c]) - 0 /\ free' >= 0
      BY <1>9, <1>d DEF Show, Holds, IInv, Stages
    <2>2. Books
      BY <1>9, <2>1, GotoKeepsBooks DEF Show
    <2>3. ScreensOK'
      BY <1>9, <1>c DEF Show, IInv, ScreensOK
    <2> QED
      BY <1>9, <2>2, <2>3 DEF Show
  <1>10. ASSUME Tick(c)
         PROVE  Books /\ World /\ screen' = screen
    <2> DEFINE r == [kind |-> conn[c].kind, on |-> conn[c].on, at |-> Start(conn[c].kind),
                     plan |-> Plan(conn[c].kind), up |-> conn[c].up, got |-> {}]
    <2>1. conn' = [conn EXCEPT ![c] = r]
      BY <1>10 DEF Tick
    <2>3. Plan(conn[c].kind) \in Seq(1..4) /\ Plan(conn[c].kind) # <<>>
      BY PlanType
    <2>4. Start(conn[c].kind) \in Stages /\ Start(conn[c].kind) \notin {"hold", "idle"}
      BY DEF Start, Stages
    <2>5. r \in Conns /\ PlanFits(r) /\ r.at = Start(conn[c].kind) /\ r.kind = conn[c].kind
      BY <1>c, <2>3, <2>4, <1>e DEF Conns, PlanFits
    <2> HIDE DEF r
    <2>6. /\ Holds(r) = 0 /\ Holds(conn[c]) = 0 /\ Counted(conn[c]) = Counted(r)
      BY <1>10, <2>4, <2>5 DEF Tick, Holds, Counted
    <2>8. /\ free' = free + Holds(conn[c]) - Holds(r) /\ free' >= 0
          /\ gauge' = gauge - Counted(conn[c]) + Counted(r)
      BY <1>10, <2>6, <1>d DEF Tick, IInv, Counted
    <2>9. Books
      BY <2>1, <2>5, <2>8, StepKeepsBooks
    <2> QED
      BY <1>10, <2>9 DEF Tick
  <1>11. ASSUME Done(c)
         PROVE  Books /\ World /\ screen' = screen
    <2>1. conn' = [conn EXCEPT ![c] = Idle] /\ Idle \in Conns /\ PlanFits(Idle)
      BY <1>11, Changed DEF Done
    <2>2. /\ Holds(Idle) = 0 /\ Holds(conn[c]) = 0 /\ Counted(Idle) = 0
          /\ Counted(conn[c]) = IF conn[c].kind = "devices" THEN 1 ELSE 0
      BY <1>11 DEF Done, Holds, Counted, Idle
    <2>3. /\ free' = free + Holds(conn[c]) - Holds(Idle) /\ free' >= 0
          /\ gauge' = gauge - Counted(conn[c]) + Counted(Idle)
      BY <1>11, <2>2, <1>d DEF Done, RecordSSEConnection, IInv
    <2>4. Books
      BY <2>1, <2>3, StepKeepsBooks
    <2> QED
      BY <1>11, <2>4 DEF Done
  <1> HIDE DEF Books, World, Screens
  <1>12. (\E kind \in Asks(c) : Arrive(c, kind)) \/ Leave(c) \/ Acquire(c) \/ Influx(c) \/ GiveUp(c)
         \/ StatementDone(c) \/ StatementFails(c) \/ AnswerLost(c) \/ Show(c) \/ Tick(c) \/ Done(c)
    BY DEF Handler, Statement
  <1>13. World => phase' = phase
    BY DEF World
  <1> QED
    BY <1>1, <1>2, <1>3, <1>4, <1>5, <1>6, <1>8, <1>9, <1>10, <1>11, <1>12, <1>13, <1>a, <1>b

-----------------------------------------------------------------------------
(* The steps of main, and of who raises alarms *)

\* Close cuts connections but takes nothing from the handlers.
LEMMA CloseStep ==
    ASSUME IInv, Close
    PROVE  IInv'
  <1>1. \A c \in Clients : /\ conn'[c] = [conn[c] EXCEPT !.up = FALSE]
                           /\ conn'[c] \in Conns /\ PlanFits(conn'[c])
                           /\ conn'[c].at = conn[c].at /\ conn'[c].kind = conn[c].kind
    <2> TAKE c \in Clients
    <2>1. conn'[c] = [conn[c] EXCEPT !.up = FALSE]
      BY DEF Close
    <2>2. conn[c] \in Conns /\ PlanFits(conn[c])
      BY Changed
    <2> QED
      BY <2>1, <2>2 DEF Conns, PlanFits
  <1>2. ConnsOK'
    BY <1>1 DEF Close, ConnsOK
  <1>3. Holders' = Holders /\ Streaming' = Streaming
    BY <1>1 DEF Holders, Streaming
  <1>4. NothingLeaks'
    BY <1>3 DEF Close, IInv, NothingLeaks, Streaming
  <1>5. ScreensOK'
    BY FS_EmptySet, AlarmsAssumption DEF Close, ScreensOK
  <1> QED
    BY <1>2, <1>4, <1>5 DEF Close, IInv, Phases

\* The end of the process takes all of them along.
LEMMA ExitStep ==
    ASSUME IInv, Exit
    PROVE  IInv'
  <1>1. Idle \in Conns /\ PlanFits(Idle)
    <2>1. {} \in {s \in SUBSET AlarmIds : Cardinality(s) <= Shown}
      BY FS_EmptySet, AlarmsAssumption
    <2> QED
      BY <2>1, EmptySeq DEF Idle, Conns, Kinds, Requests, Stages, PlanFits
  <1>2. ConnsOK'
    BY <1>1 DEF Exit, ConnsOK
  <1>3. Holders' = {} /\ Streaming' = {}
    BY DEF Exit, Holders, Streaming, Idle
  <1>4. NothingLeaks'
    BY <1>3, FS_EmptySet, ServerAssumption DEF Exit, NothingLeaks, Streaming
  <1> QED
    BY <1>2, <1>4 DEF Exit, IInv, ScreensOK, Phases

\* The other steps leave connections, pool and gauge alone.
LEMMA OtherStep ==
    ASSUME IInv, Signal \/ Drain \/ ClosePool \/ Exited \/ (\E a \in AlarmIds : Raise(a))
    PROVE  IInv'
  <1>1. CASE Signal \/ Drain \/ ClosePool
    <2>1. UNCHANGED <<alarms, conn, free, gauge, screen>> /\ phase' \in Phases
      BY <1>1 DEF Signal, Drain, ClosePool, Phases
    <2>2. Holders' = Holders
      BY <2>1 DEF Holders
    <2>3. NothingLeaks'
      BY <2>1, <2>2 DEF IInv, NothingLeaks
    <2> QED
      BY <2>1, <2>3 DEF IInv, ConnsOK, ScreensOK
  <1>2. CASE Exited
    BY <1>2, Unchanged DEF Exited
  <1>3. ASSUME NEW a \in AlarmIds, Raise(a)
        PROVE  IInv'
    <2>1. UNCHANGED <<conn, free, gauge, screen, phase>> /\ alarms' \in [AlarmIds -> Statuses]
      BY <1>3 DEF Raise, CreateAlarm, Statuses, IInv
    <2>2. Holders' = Holders
      BY <2>1 DEF Holders
    <2>3. NothingLeaks'
      BY <2>1, <2>2 DEF IInv, NothingLeaks
    <2> QED
      BY <2>1, <2>3 DEF IInv, ConnsOK, ScreensOK
  <1> QED
    BY <1>1, <1>2, <1>3

\* The invariant is inductive.
LEMMA NextInv == IInv /\ [Next]_vars => IInv'
  <1> SUFFICES ASSUME IInv, [Next]_vars PROVE IInv'
    OBVIOUS
  <1>1. ASSUME NEW c \in Clients,
               (\E kind \in Asks(c) : Arrive(c, kind)) \/ Leave(c) \/ Acquire(c) \/ Handler(c) \/ Done(c)
        PROVE  IInv'
    BY <1>1, ClientStep
  <1>2. CASE Signal \/ Shutdown \/ Exited \/ (\E a \in AlarmIds : Raise(a))
    BY <1>2, CloseStep, ExitStep, OtherStep DEF Shutdown
  <1>3. CASE UNCHANGED vars
    BY <1>3, Unchanged
  <1> QED
    BY <1>1, <1>2, <1>3 DEF Next

\* It implies both properties.
LEMMA InvImplies == IInv => TypeOK /\ NothingLeaks
  BY DEF IInv, ConnsOK, ScreensOK, Conns, TypeOK

-----------------------------------------------------------------------------
\* Every variable has its type, and a screen shows no more alarms than its page.
THEOREM ServerTypeCorrect == Spec => []TypeOK
  <1> QED
    BY InitInv, NextInv, InvImplies, PTL DEF Spec

\* For any number of clients and connections, whatever fails and whoever
\* leaves: each connection of the pool is free or held by one handler, and the
\* gauge is the number of streams of devices.
THEOREM ServerNothingLeaks == Spec => []NothingLeaks
  <1> QED
    BY InitInv, NextInv, InvImplies, PTL DEF Spec
=============================================================================
