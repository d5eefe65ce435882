-------------------------------- MODULE Server -------------------------------
(***************************************************************************)
(* cmd/server/main.go and the handlers' goroutines: requests and SSE       *)
(* streams that share the connection pool of PostgreSQL, clients that      *)
(* leave, and the shutdown, which goes on while handlers run.              *)
(*                                                                         *)
(* A client c has at most one request under way: an operator's change of   *)
(* an alarm, a registration (whose transaction keeps its connection from   *)
(* one statement to the next), a health check, the stream of alarms, or a  *)
(* stream of devices.  A request's plan is how many statements it sends on *)
(* each connection it takes from the pool.                                 *)
(***************************************************************************)
EXTENDS Alarms, Sequences

CONSTANTS Operators,  \* clients that send requests
          Dashboards, \* clients that open streams; a client may do both
          PoolSize    \* of pgxpool; its default, DSN() sets none

ASSUME ServerAssumption ==
    /\ IsFiniteSet(Operators) /\ IsFiniteSet(Dashboards)
    /\ PoolSize \in Nat \ {0}

Clients == Operators \cup Dashboards

VARIABLES
    conn,      \* the connection and the handler of each client
    free,      \* connections of the pool nobody has taken
    gauge,     \* sse_active_connections
    screen,    \* the alarms each connected client was shown last
    phase      \* how far main has come

vars == <<alarms, conn, free, gauge, screen, phase>>

Requests == {"update", "register", "health"}
Streams == {"alarms", "devices"}
Kinds == Requests \cup Streams
Asks(c) == {kind \in Kinds : (kind \in Requests /\ c \in Operators) \/ (kind \in Streams /\ c \in Dashboards)}

Stages == {"idle", "influx", "wait", "hold", "show", "sleep"}
Phases == {"serving", "stopping", "closed", "leaving", "closing", "exited"}

\* Register asks ExistsByEmail, and then begins a transaction, inserts user and
\* token and commits; the lists of alarms and devices read a page and count.  (A
\* stream of one device asks for its name only, and heeds no error: to the pool
\* that is a round of all devices that ends with its first statement.)
Plan(kind) == CASE kind = "register" -> <<1, 4>>
                [] kind \in {"alarms", "devices"} -> <<1, 1>>
                [] OTHER -> <<1>>

\* Devices are read from InfluxDB first.
Start(kind) == IF kind = "devices" THEN "influx" ELSE "wait"

\* What a handler does next when it needs the pool no more.
After(kind) == CASE kind \in {"update", "register"} -> "idle"
                 [] kind = "health" -> "influx"
                 [] kind = "alarms" -> "show"
                 [] kind = "devices" -> "sleep"

\* An error ends a request; a stream reports it and goes on, and a health check
\* asks InfluxDB all the same (and answers 200 whatever became of both).
AfterError(kind) ==
    CASE kind = "health" -> After(kind)
      [] kind \in Streams -> "sleep"
      [] OTHER -> "idle"

\* checkInfluxDB, at most three seconds: the health check is answered.
AfterInflux(kind) == IF kind = "health" THEN {"idle"} ELSE {"wait", "sleep"}

\* checkPostgres gives its ping two seconds, also to wait for a connection;
\* nothing else sets a deadline.
HasDeadline(kind) == kind = "health"

Holders == {c \in Clients : conn[c].at = "hold"}

Idle == [kind |-> "register", on |-> {}, at |-> "idle", plan |-> <<>>, up |-> FALSE, got |-> {}]

Init ==
    /\ alarms = NoAlarms
    /\ conn = [c \in Clients |-> Idle]
    /\ free = PoolSize
    /\ gauge = 0
    /\ screen = [c \in Clients |-> {}]
    /\ phase = "serving"

\* The handler of c comes to stage s; a request that is done leaves nothing.
Goto(c, s) ==
    conn' = [conn EXCEPT ![c] = IF s = "idle" THEN Idle ELSE [conn[c] EXCEPT !.at = s]]

-----------------------------------------------------------------------------
(* Clients *)

\* The gauge counts streams of devices; streams of alarms are not recorded.
RecordSSEConnection(kind, n) == gauge' = IF kind = "devices" THEN gauge + n ELSE gauge

\* A request, past rate limit and JWT check.
Arrive(c, kind) ==
    /\ phase = "serving"
    /\ conn[c].at = "idle"
    /\ \E on \in (IF kind = "update" THEN {{a} : a \in AlarmIds} ELSE {{}}) :
           conn' = [conn EXCEPT ![c] = [kind |-> kind, on |-> on, at |-> Start(kind),
                                        plan |-> Plan(kind), up |-> TRUE, got |-> {}]]
    /\ RecordSSEConnection(kind, 1)
    /\ UNCHANGED <<alarms, free, screen, phase>>

\* The client closes its connection: the request's context is cancelled.
Leave(c) ==
    /\ conn[c].up
    /\ conn' = [conn EXCEPT ![c].up = FALSE]
    /\ screen' = [screen EXCEPT ![c] = {}]
    /\ UNCHANGED <<alarms, free, gauge, phase>>

Raise(a) ==
    /\ phase = "serving"
    /\ CreateAlarm(a)
    /\ UNCHANGED <<conn, free, gauge, screen, phase>>

-----------------------------------------------------------------------------
(* Handlers *)

\* A query of InfluxDB, whose request does not carry the context: it runs on
\* when the client has left.
Influx(c) ==
    /\ conn[c].at = "influx"
    /\ \E s \in AfterInflux(conn[c].kind) : Goto(c, s)
    /\ UNCHANGED <<alarms, free, gauge, screen, phase>>

PoolOpen == phase \notin {"closing", "exited"}

\* The pool hands out a free connection, first come, first served.
Acquire(c) ==
    /\ conn[c].at = "wait" /\ conn[c].up /\ PoolOpen
    /\ free > 0
    /\ free' = free - 1
    /\ Goto(c, "hold")
    /\ UNCHANGED <<alarms, gauge, screen, phase>>

\* Nobody waits for a connection any longer than its client does, or past its
\* deadline.
GiveUp(c) ==
    /\ conn[c].at = "wait"
    /\ ~conn[c].up \/ ~PoolOpen \/ HasDeadline(conn[c].kind)
    /\ Goto(c, AfterError(conn[c].kind))
    /\ UNCHANGED <<alarms, free, gauge, screen, phase>>

\* What the statement of c does to the table.
Effect(c) ==
    IF conn[c].kind = "update" THEN \E a \in conn[c].on : UpdateStatus(a) ELSE UNCHANGED alarms

\* The first statement of a round of the stream of alarms reads the page.
Reads(c) == conn[c].kind = "alarms" /\ Len(conn[c].plan) = 2

\* The connection goes back once its statements are through.
Advance(c) ==
    LET r == conn[c]
        left == Head(r.plan) - 1
        rest == IF left > 0 THEN <<left>> \o Tail(r.plan) ELSE Tail(r.plan)
        next == IF left > 0 THEN "hold" ELSE IF rest # <<>> THEN "wait" ELSE After(r.kind)
    IN /\ free' = IF left > 0 THEN free ELSE free + 1
       /\ conn' = [conn EXCEPT ![c] =
                      IF next = "idle" THEN Idle
                      ELSE [kind |-> r.kind, on |-> r.on, at |-> next, plan |-> rest, up |-> r.up,
                            got |-> IF Reads(c) THEN ActiveAlarms ELSE r.got]]

StatementDone(c) ==
    /\ conn[c].at = "hold"
    /\ Effect(c)
    /\ Advance(c)
    /\ UNCHANGED <<gauge, screen, phase>>

\* Fault: an error leaves the transaction open, and its connection taken.
FailKeeping(c) ==
    /\ conn[c].at = "hold"
    /\ free' = IF Head(conn[c].plan) = 1 THEN free + 1 ELSE free
    /\ Goto(c, AfterError(conn[c].kind))

\* What comes after a failed statement.  The deferred rollback gives the
\* connection of a transaction back.  When the count of alarms fails, the total
\* is 0 and the page is shown.
Fail(c) ==
    /\ conn[c].at = "hold"
    /\ free' = free + 1
    /\ Goto(c, IF conn[c].kind = "alarms" /\ ~Reads(c) THEN "show" ELSE AfterError(conn[c].kind))

\* The statement has no effect.
StatementFails(c) ==
    /\ Fail(c)
    /\ UNCHANGED <<alarms, gauge, screen, phase>>

\* It has, but the answer is lost, or the client left before it came.
AnswerLost(c) ==
    /\ Fail(c)
    /\ Effect(c)
    /\ UNCHANGED <<gauge, screen, phase>>

\* writeSSEData, which fails when the client has left; the stream goes on.
Show(c) ==
    /\ conn[c].at = "show"
    /\ screen' = IF conn[c].up THEN [screen EXCEPT ![c] = conn[c].got] ELSE screen
    /\ Goto(c, "sleep")
    /\ UNCHANGED <<alarms, free, gauge, phase>>

\* The ticker: another round, whatever became of the one before.
Tick(c) ==
    /\ conn[c].at = "sleep"
    /\ conn' = [conn EXCEPT ![c] = [kind |-> conn[c].kind, on |-> conn[c].on,
                                    at |-> Start(conn[c].kind), plan |-> Plan(conn[c].kind),
                                    up |-> conn[c].up, got |-> {}]]
    /\ UNCHANGED <<alarms, free, gauge, screen, phase>>

\* The context is done; the deferred call counts the handler out.
Done(c) ==
    /\ conn[c].at = "sleep" /\ ~conn[c].up
    /\ conn' = [conn EXCEPT ![c] = Idle]
    /\ RecordSSEConnection(conn[c].kind, -1)
    /\ UNCHANGED <<alarms, free, screen, phase>>

-----------------------------------------------------------------------------
(* main *)

Signal ==
    /\ phase = "serving"
    /\ phase' = "stopping"
    /\ UNCHANGED <<alarms, conn, free, gauge, screen>>

\* e.Close: no new connections, and an end to those there are.
Close ==
    /\ phase = "stopping"
    /\ phase' = "closed"
    /\ conn' = [c \in Clients |-> [conn[c] EXCEPT !.up = FALSE]]
    /\ screen' = [c \in Clients |-> {}]
    /\ UNCHANGED <<alarms, free, gauge>>

\* e.Shutdown waits for the connections the server still tracks, and Close has
\* left none: it returns at once, whatever the handlers do.
Drain ==
    /\ phase = "closed"
    /\ \A c \in Clients : ~conn[c].up
    /\ phase' = "leaving"
    /\ UNCHANGED <<alarms, conn, free, gauge, screen>>

\* Deferred: nc.Close, and pgPool.Close, which turns down who waits and waits
\* for the connections that are taken.
ClosePool ==
    /\ phase = "leaving"
    /\ phase' = "closing"
    /\ UNCHANGED <<alarms, conn, free, gauge, screen>>

Exit ==
    /\ phase = "closing" /\ free = PoolSize
    /\ phase' = "exited"
    /\ conn' = [c \in Clients |-> Idle]
    /\ gauge' = 0
    /\ UNCHANGED <<alarms, free, screen>>

\* The process is gone.
Exited == phase = "exited" /\ UNCHANGED vars

-----------------------------------------------------------------------------
Statement(c) == StatementDone(c) \/ StatementFails(c) \/ AnswerLost(c)

\* The goroutine of a handler goes on by itself.
Handler(c) == Influx(c) \/ GiveUp(c) \/ Statement(c) \/ Show(c) \/ Tick(c)

Shutdown == Close \/ Drain \/ ClosePool \/ Exit

Next ==
    \/ \E c \in Clients :
          \/ \E kind \in Asks(c) : Arrive(c, kind)
          \/ Leave(c)
          \/ Acquire(c) \/ Handler(c) \/ Done(c)
    \/ \E a \in AlarmIds : Raise(a)
    \/ Signal \/ Shutdown \/ Exited

Spec == Init /\ [][Next]_vars

\* Goroutines run, InfluxDB's client has a timeout, and PostgreSQL answers
\* every statement, not always with an error (no statement here has a timeout).
\* The pool serves who waits longest.  A stream that finds both its ticker and
\* its context ready takes either, not always the ticker.
Fairness ==
    /\ \A c \in Clients :
          /\ WF_vars(Handler(c))
          /\ SF_vars(Acquire(c)) /\ SF_vars(Done(c)) /\ SF_vars(StatementDone(c))
    /\ WF_vars(Shutdown)

FairSpec == Spec /\ Fairness

-----------------------------------------------------------------------------
(* Properties *)

\* Every variable has its type; a screen never shows more than a page.
TypeOK ==
    /\ alarms \in [AlarmIds -> Statuses]
    /\ \A c \in Clients :
          /\ conn[c].kind \in Kinds /\ conn[c].on \subseteq AlarmIds
          /\ conn[c].at \in Stages /\ conn[c].plan \in Seq(1..4)
          /\ conn[c].up \in BOOLEAN /\ conn[c].got \subseteq AlarmIds
          /\ screen[c] \subseteq AlarmIds /\ Cardinality(screen[c]) <= Shown
    /\ free \in 0..PoolSize
    /\ gauge \in Nat
    /\ phase \in Phases

\* Whatever fails, and whoever leaves: every connection of the pool is free or
\* with a handler that will give it back, and the gauge counts the streams of
\* devices that run.
NothingLeaks ==
    /\ free + Cardinality(Holders) = PoolSize
    /\ gauge = Cardinality({c \in Clients : conn[c].kind = "devices" /\ conn[c].at # "idle"})

\* The handler of a request, and that of a stream whose client has left, comes
\* to its end, however many handlers the pool has to serve; and after the
\* signal so does the program, which waits for the connections that are taken.
EverythingEnds ==
    /\ \A c \in Clients :
          conn[c].at # "idle" /\ (conn[c].kind \in Requests \/ ~conn[c].up) ~> conn[c].at = "idle"
    /\ phase = "stopping" ~> phase = "exited"

\* When the page of active alarms changes no more, every stream that stays
\* connected comes to show it and keeps to it, although rounds fail and what a
\* round shows was read before.
ScreensSettle ==
    \A c \in Dashboards : \A page \in SUBSET AlarmIds :
        <>[](conn[c].kind = "alarms" /\ conn[c].up /\ FirstPage(Shown) = page)
            => <>[](screen[c] = page)
=============================================================================
