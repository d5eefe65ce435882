---------------------------- MODULE RateLimiter ----------------------------
(***************************************************************************)
(* internal/ratelimit: the middleware in front of every route and its      *)
(* in-memory TokenBucketStore.  Store.Allow and one round of cleanup each  *)
(* run under s.mu, so each is one step.                                    *)
(*                                                                         *)
(* Allow only asks how often a window fits into the time since lastCheck,  *)
(* and cleanup whether that time exceeds two intervals: that time is kept  *)
(* instead of lastCheck, cut off at Horizon, past which neither changes    *)
(* its answer.                                                             *)
(***************************************************************************)
EXTENDS Integers, FiniteSets

CONSTANTS Clients,          \* identifiers: one per RealIP
          RequestsPerUnit,  \* Config.RequestsPerUnit
          Burst,            \* Config.Burst
          Window,           \* Config.Unit, in ticks
          CleanupInterval   \* TokenBucketStore.cleanupInterval, in ticks

\* main passes 100 requests per minute, DefaultStore cleans every 5 minutes.
ASSUME LimiterAssumption ==
    /\ RequestsPerUnit \in Nat \ {0}
    /\ Burst \in Nat
    /\ Window \in Nat \ {0}
    /\ CleanupInterval \in Nat \ {0}
    /\ Window <= 2 * CleanupInterval

VARIABLES
    known,       \* the clients that have a bucket in s.buckets
    tokens,      \* bucket.tokens of the known clients, 0 of the others
    sinceCheck,  \* time since bucket.lastCheck, 0 for clients with no bucket
    recent       \* history: requests granted since n ticks ago, for n below Window

limiterVars == <<known, tokens, sinceCheck, recent>>

Horizon == 2 * CleanupInterval + 1

\* NewRateLimiter: a Burst above RequestsPerUnit replaces it.
Limit == IF Burst > RequestsPerUnit THEN Burst ELSE RequestsPerUnit

LimiterInit ==
    /\ known = {}
    /\ tokens = [c \in Clients |-> 0]
    /\ sinceCheck = [c \in Clients |-> 0]
    /\ recent = [c \in Clients |-> [n \in 0..Window - 1 |-> 0]]

\* A request of now is in each of the stretches that end now.
Granted(c) ==
    recent' = [recent EXCEPT ![c] = [n \in 0..Window - 1 |-> recent[c][n] + 1]]

-----------------------------------------------------------------------------
(* Allow: the middleware calls next on TRUE and answers 429 on FALSE. *)

\* Fault: the first request is not counted.
FreeFirst == Limit

TokensOfNewBucket == Limit - 1

\* The client has no bucket: it gets one, and the request is let through.
AllowNew(c) ==
    /\ c \notin known
    /\ known' = known \cup {c}
    /\ tokens' = [tokens EXCEPT ![c] = TokensOfNewBucket]
    /\ sinceCheck' = [sinceCheck EXCEPT ![c] = 0]
    /\ Granted(c)

\* tokensToAdd := int(elapsed / window) * limit
TokensToAdd(c) == (sinceCheck[c] \div Window) * Limit

\* Fault: idle windows pile up, the refill is not capped by the limit.
PiledUp(c) == tokens[c] + TokensToAdd(c)

Refilled(c) ==
    IF tokens[c] + TokensToAdd(c) < Limit THEN tokens[c] + TokensToAdd(c) ELSE Limit

Available(c) == IF TokensToAdd(c) > 0 THEN Refilled(c) ELSE tokens[c]

AgeAfterRefill(c) == IF TokensToAdd(c) > 0 THEN 0 ELSE sinceCheck[c]

AllowKnown(c) ==
    /\ c \in known
    /\ Available(c) > 0
    /\ tokens' = [tokens EXCEPT ![c] = Available(c) - 1]
    /\ sinceCheck' = [sinceCheck EXCEPT ![c] = AgeAfterRefill(c)]
    /\ Granted(c)
    /\ UNCHANGED known

\* No token is left and none was added.
Deny(c) ==
    /\ c \in known
    /\ Available(c) = 0
    /\ tokens' = [tokens EXCEPT ![c] = Available(c)]
    /\ sinceCheck' = [sinceCheck EXCEPT ![c] = AgeAfterRefill(c)]
    /\ UNCHANGED <<known, recent>>

-----------------------------------------------------------------------------
\* Faults: buckets go after one interval, which may be less than a window;
\* only full buckets go, but a bucket is refilled only when it is used.
IdleAnInterval(c) == sinceCheck[c] >= CleanupInterval
StaleAndFull(c) == sinceCheck[c] > 2 * CleanupInterval /\ tokens[c] = Limit

\* lastCheck.Before(now - 2 * cleanupInterval)
Stale(c) == sinceCheck[c] > 2 * CleanupInterval

\* One round of cleanup.  Where the rounds fall between requests is open; the
\* ticker fires again and again.
Cleanup ==
    LET gone == {c \in known : Stale(c)} IN
    /\ gone # {}
    /\ known' = known \ gone
    /\ tokens' = [c \in Clients |-> IF c \in gone THEN 0 ELSE tokens[c]]
    /\ sinceCheck' = [c \in Clients |-> IF c \in gone THEN 0 ELSE sinceCheck[c]]
    /\ UNCHANGED recent

\* The clock.
ClockTick ==
    /\ sinceCheck' = [c \in Clients |-> IF c \in known /\ sinceCheck[c] < Horizon
                                       THEN sinceCheck[c] + 1 ELSE sinceCheck[c]]
    /\ recent' = [c \in Clients |-> [n \in 0..Window - 1 |->
                     IF n = 0 THEN 0 ELSE recent[c][n - 1]]]
    /\ UNCHANGED <<known, tokens>>

LimiterNext ==
    \/ ClockTick
    \/ Cleanup
    \/ \E c \in Clients : AllowNew(c) \/ AllowKnown(c) \/ Deny(c)

LimiterSpec == LimiterInit /\ [][LimiterNext]_limiterVars

\* The clock runs and the cleanup goroutine is scheduled; clients owe nothing.
LimiterFairSpec == LimiterSpec /\ WF_limiterVars(ClockTick) /\ WF_limiterVars(Cleanup)

-----------------------------------------------------------------------------
(* Properties *)

\* Types; a bucket never holds more than the limit, nor less than nothing.
BucketsTyped ==
    /\ known \subseteq Clients
    /\ tokens \in [Clients -> 0..Limit]
    /\ sinceCheck \in [Clients -> 0..Horizon]
    /\ recent \in [Clients -> [0..Window - 1 -> Nat]]

\* Over any stretch as long as a window, also one that straddles a refill or
\* a clean-up, a client is granted fewer than twice the limit.
NeverTwiceTheLimit == \A c \in Clients : recent[c][Window - 1] < 2 * Limit

\* A bucket does not stay for ever: it is refilled by a request of its client
\* or dropped, so the map is not a record of every address ever seen.
BucketsGoAway ==
    \A c \in Clients :
        (c \in known /\ sinceCheck[c] > 0) ~> (c \notin known \/ sinceCheck[c] = 0)

\* Forgetting a bucket, and refilling it only when it is next used, cannot be
\* told from keeping a window per client that is restored when it ends.
Due(c) == c \notin known \/ sinceCheck[c] >= Window

Quota == INSTANCE WindowQuota WITH
    left <- [c \in Clients |-> IF Due(c) THEN Limit ELSE tokens[c]],
    open <- [c \in Clients |-> IF Due(c) THEN Window ELSE sinceCheck[c]]

ImplementsQuota == Quota!QuotaSpec
=============================================================================
