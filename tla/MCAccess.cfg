\* Sessions: two rows with one email; three requests besides logouts and
\* deletions.  Limiter: two clients, three requests per window of three ticks,
\* clean-up every two.
SPECIFICATION MCFairSpec
CONSTANTS
    u1 = u1
    u2 = u2
    u3 = u3
    Users = {u1, u2}
    Email <- OneEmailForTwo
    Calls = {c1, c2, c3}
    None = None
    Clients = {c1, c2}
    RequestsPerUnit = 2
    Burst = 3
    Window = 3
    CleanupInterval = 2
INVARIANTS
    TypeOK
    OneAccountPerEmail
    RegisteredWhole
    NoTokenAfterDeletion
    OneTokenPerSession
    LogoutEndsQuietSessions
    BucketsTyped
    NeverTwiceTheLimit
PROPERTIES
    RequestsEnd
    ImplementsQuota
    BucketsGoAway
\* Requests are not repeated: when all are over nothing more may happen.
CHECK_DEADLOCK FALSE
