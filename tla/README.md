# Verification of be-aether-node

TLA+ models of the Aether Node backend (Go, Echo, PostgreSQL, InfluxDB, NATS), model-checked
with TLC on small instances and, where stated, proved with TLAPS for every value of the
constants.

1. [The system](#1-the-system)
2. [Modules and how they follow the code](#2-modules-and-how-they-follow-the-code)
3. [Runs, bounds and fairness](#3-runs-bounds-and-fairness)
4. [Proofs](#4-proofs)
5. [Where code and documents disagree](#5-where-code-and-documents-disagree)
6. [What is not modelled](#6-what-is-not-modelled)
7. [Plan](#7-plan)

## 1. The system

The server receives air-quality telemetry from devices, stores it in InfluxDB, keeps devices,
locations, installation points, users, API keys, thresholds and alarms in PostgreSQL, tells
worker processes about changed thresholds over NATS, and shows live and historical data to a
dashboard over REST and SSE. Requests pass a rate limiter, then (except for /auth, /health,
/metrics and POST /telemetry) a JWT check, then a handler, a service and a repository. Each
request runs in a goroutine of its own; the components meet in the tables (one statement is
one step; only Register opens a transaction), in the mutexes of limiter, breaker and telemetry
service, and in channels.

| Component | State it keeps | Operations | What is hard about it | What makes it correct |
|---|---|---|---|---|
| Circuit breaker (`internal/circuitbreaker`) | state, failure and success counters, last failure, semaphore channel | Execute = Allow, call, Record*, Release | goroutines act on state read under locks already released; tokens that do not match calls | trips and closes only for the right runs of results; a slot is held by a call; Execute returns |
| Rate limiter (`internal/ratelimit`) | one token bucket per client | Allow, cleanup | lazy refill, clean-up of buckets in use, bursts at the edge of windows | cannot be told from a window quota; buckets go away |
| Telemetry fan-out (`internal/service/telemetry`) | subscribers map, bounded channels, allDevices channel | publisher, WriteTelemetry, StreamDevice, StreamAllDevices | channels shared, replaced, closed and full while senders run | no send on a closed channel; a client holds up nobody; goroutines end |
| Auth and accounts (`internal/service/auth`, `internal/service/user`) | users, refresh_tokens | register, login, refresh, logout, create and delete user | rotation in several statements, soft delete, one transaction | one live account per email; one token per session; a logout ends sessions |
| Master data: devices, users, locations, installation points, API keys | their tables | create, get, update, delete | exists-then-insert, read-modify-write, soft deletion next to foreign keys | keys unique; no silent lost update; deleted rows stay as they are; 404 for what is not there |
| Lists and alarm history | none beyond the tables | List, Count by LIMIT and OFFSET | two statements over a list that moves | a walk misses or repeats a row only for a row that left or entered |
| Thresholds (`internal/service/threshold`) | thresholds table, connection and buffer of the NATS client | create, update, delete, publish | commit and message are two steps; best effort; a client that reconnects or gives up; double delete | the service forgets no message; only named failures lose one; what is deleted stays so |
| Telemetry history (`internal/repository/telemetry`, handler) | none | query, merge, cut | limit before sort, grouping, has_more, moving offset | a walk misses only what its answers had read and cut |
| Alarms (`internal/service/alarm`) | alarms table | acknowledge, resolve, lists, stream | status changes without a guard, concurrent operators, rounds that fail half-way | a screen that stays connected comes to show the active alarms |
| Streams of devices (`internal/handler`, `internal/repository/telemetry`) | none between two rounds | a round every five seconds: health, telemetry, devices | three queries of two databases, several rows of one device, partial failure | what is shown comes to be true and never goes back in time |
| Server lifecycle (`cmd/server/main.go`), health checks | connection pool, open connections, gauge | request, stream, health check, graceful shutdown | waiting for a connection, clients that leave, a transaction that fails, shutdown while handlers run | every connection and count is given back; every request and the program end |
| Device-name cache | name map | InvalidateDeviceCache; getNameMap has no caller | - | nothing depends on it |
| Metrics, logs, configuration, middleware | counters, files | - | - | - |

Reachability at this commit, which limits what the results mean for the running server:

- Nothing calls the breaker's Execute on a route: of the telemetry repository only
  GetLatestHealth and GetLatestTelemetry do, and no service calls these two. The breaker is
  modelled for whoever wires it in again.
- The SSE routes poll the database every five seconds. The fan-out's viewers
  (StreamDevice, StreamAllDevices) belong to StreamAllDevicesLegacy and have no route; the
  publisher and the pushes of POST /telemetry run.
- main.go:167 registers Logout outside the JWT group, and no middleware sets `user_guid`
  there, so the route answers 401 before the service is reached.
- ValidateAPIKey, DeleteExpired, CreateAlarm and getNameMap have no caller; nobody in the
  repository subscribes to `aether.threshold.updated`.

## 2. Modules and how they follow the code

One module per component; `MC*` modules only give constants their values; `*Proofs` modules
hold theorems. Components meet in tables whose rows the modules divide among themselves (Sessions
and Catalogue both know users, Sessions by account and tokens, Catalogue by contents), so most
modules share no state. Two compose: `Server` extends `Alarms`, whose table its handlers write and
read through the shared pool, and `Walks` instantiates `PagedList` and `TelemetryHistory`
with the variables of one client. `MCAccess` puts `Sessions` and `RateLimiter`, which share nothing, into one run:
a behaviour is one of either.

| Module | Models | State and steps |
|---|---|---|
| `CircuitBreaker` | circuitbreaker.go | a variable per field; `pc` says where each goroutine is in Execute. One step per critical section of `cb.mu` and per channel operation, so Allow is State(), the copy of lastFailure, the comparison, transitionTo or the send. Time is kept as ages cut off at Timeout. A parked receiver gets the next token sent. A panic in the protected function goes straight to Release. |
| `WindowQuota` | what the limiter promises | abstract: `Limit` requests per window; a window opens with a request |
| `RateLimiter` | ratelimit.go | buckets as `known`, `tokens`, `sinceCheck`; Allow (three outcomes) and a round of cleanup are one step each, as each holds `s.mu` throughout; `ImplementsQuota` is the refinement. The history variable `recent` holds, for every stretch that ends now, how much was granted in it |
| `TelemetryStream` | telemetry_service_impl.go | samples, channels and map as in the code; a push is two sends, the second under the lock; viewers and forwarders step through subscribe, done, unsubscribe, close |
| `Sessions` | auth_service_impl.go, CreateUser and DeleteUser | a request advances by one statement per step; each may fail, and may commit with its answer lost. Rows of Register's transaction are "pending" until its commit |
| `Catalogue` | handlers, services and repositories of the five resources | the same code five times; rows carry a key (the unique or referring column) and a note (all others). `Mixes` says which tables the rows belong to. LookUpKey, Insert, Read, Write and Remove are the statements; CreateDevice and so on put them at their places |
| `PagedList` | the List functions and ListAlarmHistory | page and count are two steps; other requests change the list between them; a client walks through the pages |
| `Alarms` | the alarms table | raise, update, the page of active alarms. Acknowledged and resolved are one status: no statement looks at the status it replaces, so nothing tells them apart |
| `Server` | main.go, the goroutines of the handlers, pgxpool, health checks | a client's request or stream goes through `wait` (for a connection), `hold` (one statement a step), `show`, `sleep`. `Plan` says how many statements it sends on each connection it takes: a registration's transaction keeps its own from BEGIN to COMMIT, the lists take one for the page and one for the count. main goes from signal to exit while handlers run |
| `DeviceStream` | GET /telemetry/stream and /telemetry/stream/:device_sn | a round is three queries, each of which may fail; devices have a last row in each of their tag tables; ages are cut off just past the threshold. A stream has a `?project=` or none, which its query asks for (`Asked`) and its list of devices does not heed. Serial numbers that parseValue takes for numbers, rows that a repeated header makes up, and rows read off by a column where a table lacks a tag (`ReadUnder`), are in the model |
| `Walks` | a client of either kind of paging | its variables are the client's and both modules'; a behaviour is a walk through a list or through a history |
| `Thresholds` | threshold service, repository, handler | statement, then message; crash, lost answer; a NATS client that is missing, refuses, loses its connection (with any part of what it had written), reconnects, or closes for good after its attempts; its buffer is a set of devices, as messages about one device are alike |
| `TelemetryHistory` | GetTelemetryHistory | one query per step with its limit per table of tags, the merge by time, the cut, has_more; a client that walks; writers |

`PROJECT.json` maps every definition to the lines it stands for. Where several files hold the
same code (five repositories, six lists), each operator is mapped to one of them, so that
between them all are named. Data is abstracted to what the properties tell apart: contents
of rows are one value per group of columns, a refresh token is the call that issued it, a sample is its
device and number, wording of answers is their status code. History variables, marked so in
the modules, are read by no action's guard.

Definitions marked "Fault" are not the code: they are what a slip in the definition after them
would look like, and `PROJECT.json` pairs each with the property that catches it. No
specification refers to them.

## 3. Runs, bounds and fairness

| Run | Shows | States | Bounds and why they do |
|---|---|---|---|
| `breaker` | what it takes to trip and close, slots | 318 217 | five goroutines, both thresholds 2, one slot, Timeout 1: two failures to trip, one call that moves to half-open, one with the slot, one refused |
| `breaker_returns` | finding 1 | - | three goroutines |
| `stream` | types, no send on closed, who silences whom; rounds end, goroutines of viewers and watchers end | 130 264 | two viewers (who may ask for one device or two), a watcher, channels of one sample (full as soon as possible) |
| `access` | sessions: accounts, transaction, rotation, logout; limiter: bounds, grants per window, refinement, buckets go away | 122 236 | three requests besides logouts, expiry, deletions: a login and two exchanges of its token, or three writers of one email. Two clients, limit 3, window 3, clean-up 2: 2*2 >= 3, the tightest the assumption allows with a window that is no multiple |
| `sessions_logout` | finding 2 | - | a login and an exchange |
| `catalogue` | uniqueness, references, lost updates, soft deletion | 1 017 138 | two rows in four mixes of tables (every table, and points that refer to a device-like row, or to nothing valid), two concurrent requests, restarted without end |
| `catalogue_missing` | finding 3 | - | two rows of one table, one request at a time |
| `walks` | what a walk misses and repeats | 889 818 | five rows or samples, two combinations of tags, limits 1, 2 and 3 (the replaced one), two entering and two leaving rows per walk: page borders are crossed in both directions |
| `thresholds` | which changes are announced; deleted thresholds stay deleted | 248 511 | two devices with a threshold each, two requests: both may be about one threshold, and a message about one device must not count for the other |
| `history_newest` | finding 4 | - | three timestamps |
| `server` | connections and the gauge are given back, requests and shutdown end, screens settle | 42 507 | one client that sends requests, one that opens streams, one connection: whoever wants it while the other holds it waits; two alarms of which one fits on the screen, so that one comes forward when the other is handled |
| `devices` | what a stream of devices shows | 117 888 | two devices of which the list shows one; one with two tables in two projects, one whose serial number is read as another; streams of all devices, of a project and of one device, with each kind of headers; threshold 1: ages fresh, just online, old |

Symmetry is used in `breaker` and `catalogue` only, which check no liveness; their
symmetric sets appear in no order and no CHOOSE. Bounds that are not in the code are
constants: `MaxWrites`, `MaxChanges`, `MaxOthers`. Where the code has numbers (50 alarms, 1000
devices, pages of 10 and 20, 30 seconds) the constant is as small as lets the limit be
reached. `CHECK_DEADLOCK FALSE`
appears where the system may stop: goroutines parked in Release, and Sessions, whose requests are
not repeated. In `server` the only state without a step would be the process that has exited,
which has a step of its own (`Exited`), so its deadlock check says that shutdown gets
stuck nowhere.

Fairness, only where a run checks liveness:

- `CircuitBreaker`: weak fairness of each goroutine's own steps. Mutexes are granted, the protected
  function returns because the HTTP client has a timeout. Nothing of arrivals or the clock.
- `RateLimiter`: the clock and the cleanup goroutine. Nothing of clients.
- `TelemetryStream`: the publisher, each viewer's clean-up, each forwarder's receive and send; strong
  fairness of a forwarder's return on ctx.Done, since a Go select with several ready cases
  picks at random. Clients may stop reading and need not leave.
- `Sessions`, `Thresholds`: a request that has begun gets its statements answered (well or badly). Nothing of new requests, expiry
  and crashes.
- `Thresholds`, besides: the NATS client counts its attempts, so one that is down connects or gives up (weak fairness of the two
  together), and each connection begins with the flush of what is pending, so a message does not stay in the buffer through
  connection after connection (strong fairness of its delivery). That a connection ever comes back is not assumed.
- `Server`: handlers and main go on; strong fairness of taking a connection (the pool serves who has
  waited longest), of a statement's success (a database that answers every statement of a stream with
  an error would keep the screen old, rightly), and of a stream's end once its client
  has left (ticker and ctx.Done are ready together, and select picks at random). Nothing of clients, alarms and the signal.
- `DeviceStream`: rounds go on; strong fairness of each query's success. Nothing of devices and the list.

What the runs found worth knowing, besides that the properties hold:

- A viewer of the fan-out goes silent when another viewer of the same device comes or goes
  (`SilencedOnlyByAnother` says: never otherwise). A forwarder whose client left with a full
  channel stays for ever (`Caught`, excluded from `StreamsEnd`).
- A PATCH writes back every column, so it undoes another one that came between its read and
  its write; `UndoneOnlyByRaces` says: only then.
- The limiter lets up to 2*limit - 1 requests through in a stretch as long as a window.
- A walk through a list misses rows when others leave, and repeats rows when others enter, at most one for one;
  a failed count of alarms ends the walk with a total of 0.
- A stream whose round of two statements failed at the second (the count) still shows its page; one that failed at
  the first keeps what it had, and catches up. Requests whose client has left give their connection back
  because the rollback is deferred and the pool closes a connection it cannot roll back.
- After the signal e.Close leaves e.Shutdown nothing to wait for; what makes the program wait for its handlers is
  pgPool.Close, and only for those that have a connection.
- A device on the dashboard of all devices comes to be shown as it is if (`Plain`) its serial number is read as it is and no table
  lacks a tag, if it is among the newest 1000, and if it is not online under a project other than the one the stream asks for
  (`Elsewhere`): such a device is shown as offline. A device's own stream may alternate between the truth and "offline" when
  the types of its health's columns differ, as they do with the documented text field reset_reason.
- A threshold's message is lost to a crash, a lost answer of the database, or the NATS client: one that is missing since the
  start, refuses, loses its connection with what it had written, or gives up reconnecting. The service itself loses none, and
  nobody sends one again. What `ChangesAnnounced` and `AnnouncedInTheEnd` say holds but for these failures (`missed`).

## 4. Proofs

Every theorem is for any value of the constants under the ASSUME of its module (finite
goroutines and positive configuration for the breaker; Window <= 2 * CleanupInterval for the
limiter, without which cleanup would forget open windows; nonempty channels for the stream;
finitely many natural numbers as rows and times, and a default limit within the maximum, for the walks;
model values that are apart for the others).

| Module | Theorems | Argument |
|---|---|---|
| `ResilienceProofs` (breaker) | types; CountersFitState; SlotsHeldByCalls; TripsOnlyAfterFailures; ClosesOnlyAfterSuccesses | The inductive invariant adds where a call that holds a slot can be (HoldersInside: nobody still inside Allow holds one, so a send adds a token and a holder together) and that the counters never exceed the runs of equal results really recorded (CountersAreRuns), which gives the two action properties |
| `ResilienceProofs` (limiter) | types; the limiter implements WindowQuota; NeverTwiceTheLimit | step simulation: a clean-up is a stutter because only buckets due for a refill go, and a refill is a stutter because the abstract window was restored when it ended. For the bound (GrantsBounded): a stretch that begins inside the window now open has been granted what is missing from the bucket; one that reaches back into the window before has been granted at most Limit - 1 of that one, as its first request lies out of reach |
| `WalksProofs` | types; MissesAtMostOnePerLeaving; DescendingMissesOnlyNewest; RepeatsAtMostOnePerEntering | every row has a place of its own and the places have no gaps (NoGaps), so a page is the rows at its places (PageFull). A row that enters or leaves moves those behind it by one, so at most one row crosses the place where the next page starts. Of the lasting rows no more are unseen before that place than rows left (FewLost), and no more rows seen stand behind it than entered (FewAgain). In a history each combination of tags has places of its own (Rank), and nothing leaves: what no answer has read stands where the next queries read, and while there is any has_more is true, since in front of it a query reads one more than a page (AllRead, ReadInFront). Of one table an ascending answer never keeps the record beyond the page (KeptRanks), and a descending one the first of the page only where the table ends within it (KeptFirst), so tables that have ended pay for one repetition each (FewShownAgain). With one table the cut of a descending page takes the wrong end and shifts what is shown by one place (NoneLost, Lateness) |
| `TelemetryStreamProofs` | types; NeverSendOnClosed; SilencedOnlyByAnother | the registered channel belongs to a viewer of that device that is watching or has left but not cleaned up: registration ends before close |
| `ThresholdsProofs` | types; DeletedForGood; ChangesAnnounced | requests under way name rows that were made or are being made, so that messages are about devices of which a threshold was made; then a device that is owed a message is in the buffer, or some request is about to publish, or it is counted as missed: each step of one request leaves the others' promises, and every way of the client to lose a message counts it |
| `CatalogueProofs` | types and references; KeysStayUnique; DeletedStaysAsItWas; UndoneOnlyByRaces | the row a request is to create is not there and no two requests create one row; all other requests name a row that is or was there. Then every step is one of: nothing, an INSERT, an UPDATE, a DELETE of one row, and rows only go from absent to live to deleted |
| `SessionsProofs` | types; OneAccountPerEmail; RegisteredWhole; NoTokenAfterDeletion; OneTokenPerSession; LogoutEndsQuietSessions | no property is inductive alone. The invariant says whose session each request is in (its own, or that of a login that was answered, which is final, so a session has one user), that no two requests create one row, that rows with one email exclude each other from the insert on, and what was deleted stays so. One token per session is strengthened to one token *or* one exchange that has spent its token (OneHolder); a logout to: a session it ended has neither rows nor exchanges (QuietOK) |
| `ServerProofs` | types; NothingLeaks | each step changes one request's connection and takes or gives back exactly what that request holds (StepKeepsBooks); how far a request has come fits what it still has to do (PlanFits) |
| `DeviceStreamProofs` | types, with the limit of the list; NeverBackInTime (of Plain devices) | a round under way has read a time no older than the one on the screen (Ahead), and InfluxDB has a point no older than what was read (Founded) or is shown (Behind): reports only make it newer, and time passes for all three alike. The list fits its limit because its oldest device has all the others before it |

Only model-checked is liveness (RoundsEnd, StreamsEnd, RequestsEnd, BucketsGoAway, AnnouncedInTheEnd,
EverythingEnds, ScreensSettle, ScreenSettles), since TLAPS does not reason about ENABLED and
fairness. Every other property of a passing run is stated by a theorem.

What a walk through a history misses and repeats is bounded for any number of combinations of tags
(MissesOnlyWhatWasCut, RepeatsFewRecords). AscendingMissesNothing and
DescendingMissesOnlyNewest speak of one (`OneTable`): with two they do not hold, see section 6.

CountersFitState is proved although no run checks it. SessionsLogout's LogoutEndsSessions is
what the counterexample of section 5 refutes; LogoutEndsQuietSessions is what holds instead, for every
number of users and requests.

## 5. Where code and documents disagree

Runs that end in a counterexample:

1. `breaker_returns`: circuitbreaker.go:141 says Release "releases a slot in half-open state"; Execute
   defers it for every call, and a call let in while closed, which took no slot, waits in Release
   for ever.
2. `sessions_logout`: PRD.md:51 says that after a logout the token cannot be used; an exchange
   that has looked its token up before the logout stores a new one after it.
3. `catalogue_missing`: SRS.md:902-903 has 404 for a guid that is not found or was soft-deleted; UPDATE and DELETE are
   :exec queries, which do not say that they found no row (device_repository_impl.go:147, 165 wait for pgx.ErrNoRows in vain), so
   a DELETE of a missing row, and a PATCH of one deleted since its look-up, is answered with 200.
4. `history_newest`: telemetry.go:101 and SRS.md:356 say descending order; the first full
   page leaves the newest sample out, because records are put in ascending order before the
   one beyond the page is cut.

Met while modelling, without a run:

- circuitbreaker.go:123: calls that leave the open state together bypass the semaphore, against line 52, "Maximum concurrent requests in half-open state"; and
  a late one can cut a new open period short, as transitionTo does not look again at lastFailure.
- circuitbreaker.go:225: return inside the drain loops leaves the function, so moves to open and
  closed never reach OnStateChange, against circuitbreaker.go:55 ("called when state changes"). The model has it (`Told`); nothing
  in the repository sets the callback.
- Handlers compare with the domain's not-found errors, repositories return their own: where a GET or the look-up of a PATCH finds no
  row the answer is 500, and SRS/SRS.md:902-903 has 404 (thresholds excepted). The model answers so.
- telemetry_service_impl.go:207: with `?project=` the answer of InfluxDB is that of the project, the list of devices is not ("Filter by project if
  requested", says a comment without code). A device that is online under another project is sent as "offline", where
  DEVICE_STREAM_GUIDE.md:549-571 sends only the devices of the filtered answer. The model has it (`Asked`, `GetDevices`);
  `ScreenSettles` exempts such devices (`Elsewhere`).
- telemetry_service_impl.go:208: the dashboard of all devices has the newest 1000; the others are never on it.
- A duplicate of a soft-deleted serial number or email passes the look-up and fails on UNIQUE: 500, not 409.
- apikey_service_impl.go:102: ValidateAPIKey hashes the key it is given, CreateAPIKey stores it plain.
- apikeys.sql:19: keys without notes are in the count but never in the list.
- devices.sql:20: rows created in one microsecond may change places between pages; a huge page makes
  int32(offset) negative and the statement fails.
- alarms.sql:63: UpdateAlarmStatus looks at no status; a late acknowledgement undoes a resolution.
- main.go:254: e.Close ends every connection before e.Shutdown (main.go:258, "graceful") is to drain them: the drain is over at once,
  its timeout can never expire, and "Server drained successfully" says nothing of the handlers. The model has it (`Drain`).
- health_handler.go:43: Check never says "down", so readiness is always 200.
- telemetry_repository_impl.go:827: parseFluxCSV reads one header, but InfluxDB writes one per schema: where types of columns differ or a table lacks a tag, a row
  becomes a device called "device_sn", which GET /telemetry/stream/:device_sn ("SSE for specific device") may send (`Answers`), and under a missing tag rows are read off by a column (`ReadUnder`).
- telemetry_repository_impl.go:945: a serial number that looks like a number loses its leading zeros (`RowsOf`).
- telemetry_repository_impl.go:563: of several tables of one device the last one read, not the newest, gives the measurements; only
  last_seen takes the newest. A history with text fields gets a record without a time.
- config/database.go:21: DATABASE_MAX_CONN is read, but DSN() leaves it out.
- alarm_handler.go:142: the stream of alarms is not counted in sse_active_connections, which grafana-dashboard.md:28-29 shows as the number of open streams.
- alarm_repository_impl.go:224: UpdateStatus returns pgx.ErrNoRows as it is: acknowledging an unknown alarm is answered with 500.
- pkg/middleware/middleware.go:98: JWT errors come from golang-jwt v3 (echo's own middleware) and are compared with the sentinels of v5, so the code is
  never more specific than TOKEN_INVALID. middleware.go:58: the status that is logged and counted is read before the error handler
  writes one.

## 6. What is not modelled

- The device-name cache (no reader), metrics but for the gauge, loggers, configuration, middleware, response layout: they keep no
  state that anything reads, or read it once. QueryHistory, QueryLatest and QueryAggregated have no caller.
- CircuitBreakerGroup and Stats, which only pass calls through and have no callers; headers and
  bodies of answers; validation of request bodies.
- What devices measure: DeviceStream has times only, TelemetryHistory has timestamps and tags.
- Start-up, which is sequential; the order in which NATS and PostgreSQL close, except that both may lose what is on its way.
- JWT access tokens: checked by the library, no state.

Hazards of the code that no property covers, and why:

- telemetry_service_impl.go:75, 104: each write pushes from a goroutine of its own, and forwarders compete for one channel, so samples of a
  stream may come in any order and each reaches one watcher only. The model does both; the code promises nothing one could check.
- auth_service_impl.go:261: deleting the old token and storing the new one are not one transaction; when the insert fails the client is
  logged out. The model does it; that is the safe side of the two.
- auth_repository_impl.go:72: DeleteExpired has no caller; expired tokens stay in the table.
- alarm_repository_impl.go:139: a failed count of alarms ends a walk; `MissesAtMostOnePerLeaving` excludes it (`fallback`).
- telemetry_repository_impl.go:644: limit and offset apply to each table of tags, the cut to their union.
  Of two tables an answer keeps one page of up to two, and the next page's offset passes the rest by, in both. The API promises
  nothing for a device that changed its tags; `MissesOnlyWhatWasCut` says that this is all a walk loses,
  `DescendingMissesOnlyNewest` and `AscendingMissesNothing` that with one table it does not happen.
- alarms.sql:63: an acknowledgement that comes after a resolution undoes it, and keeps its resolved_at. No document says otherwise.

## 7. Plan

Done: breaker and limiter (shared by all requests), fan-out, sessions, master data and lists,
thresholds, history, alarms, server lifecycle, streams of devices; proofs of every safety property the runs
check. Left, in this order:

1. The `users` table is in Sessions (accounts and tokens) and in Catalogue (changes of email). A
   composition would show that a change of email between look-up and insert keeps OneAccountPerEmail; today
   each module shows it for its own half, KeysStayUnique for changes and OneAccountPerEmail for registrations.
2. An abstract specification of a session (who may use it, when it ends) that Sessions implements but for
   exchanges overtaken by a logout.
3. Acknowledged and resolved alarms apart, should a document come to say which of the two is to win.
