------------------------------ MODULE Sessions ------------------------------
(***************************************************************************)
(* internal/service/auth with the users and refresh_tokens tables: Login,  *)
(* RefreshToken, Logout and Register, and CreateUser and DeleteUser of     *)
(* internal/service/user.  Requests run concurrently; every statement is a *)
(* step of its own, may fail, and may take effect although its answer is   *)
(* lost.  Only Register uses a transaction.                                *)
(*                                                                         *)
(* A refresh token is 32 random bytes and no call issues more than one, so *)
(* a token is named by the call that issued it.                            *)
(***************************************************************************)
EXTENDS FiniteSets

CONSTANTS Users,    \* guids of user rows, used or not
          Email,    \* the email of each row
          Calls,    \* requests that issue tokens or create users
          None

ASSUME SessionsAssumption ==
    /\ None \notin Users \cup Calls
    /\ Users \cap Calls = {}

VARIABLES
    account,    \* the users table, "pending" while its transaction is open
    rows,       \* refresh_tokens
    expired,    \* tokens past their expires_at
    call,       \* how far each request has come
    stored,     \* history: every row refresh_tokens ever had
    kept,       \* history: sessions in which an exchange went on without
                \* removing the token it was given
    ended,      \* history: sessions some Logout was to end
    overtaken   \* history: those with an exchange under way at that time

vars == <<account, rows, expired, call, stored, kept, ended, overtaken>>
history == <<stored, kept, ended, overtaken>>

Idle == [op |-> "none", at |-> "idle", user |-> None, old |-> None,
         session |-> None, goneBefore |-> {}]

SessionsOf(u) == {call[t].session : t \in {r \in rows : call[r].user = u}}

Exchanging == {c \in Calls : call[c].op = "refresh"
                             /\ call[c].at \in {"found", "owned", "spent"}}

Init ==
    /\ account \in {a \in [Users -> {"absent", "live", "deleted"}] :
                       \A u, v \in Users : Email[u] = Email[v] /\ u # v =>
                           a[u] = "absent" \/ a[v] = "absent"}
    /\ rows = {} /\ expired = {}
    /\ call = [c \in Calls |-> Idle]
    /\ stored = {} /\ kept = {} /\ ended = {} /\ overtaken = {}

Deleted == {u \in Users : account[u] = "deleted"}

Begin(c, op, at, u, old, session) ==
    /\ call[c].at = "idle"
    /\ call' = [call EXCEPT ![c] =
          [op |-> op, at |-> at, user |-> u, old |-> old, session |-> session,
           goneBefore |-> Deleted]]

GoOn(c, at) == call' = [call EXCEPT ![c].at = at]

At(c, op, at) == call[c].op = op /\ call[c].at = at

\* INSERT INTO refresh_tokens, and the answer to the client: "answered" with
\* the token, "refused" on an error, also when only the answer was lost.
\* user_guid refers to the row whether or not it is soft-deleted.
IssueToken(c) ==
    /\ \/ rows' = rows \cup {c} /\ stored' = stored \cup {c} /\ GoOn(c, "answered")
       \/ rows' = rows \cup {c} /\ stored' = stored \cup {c} /\ GoOn(c, "refused")
       \/ GoOn(c, "refused") /\ UNCHANGED <<rows, stored>>
    /\ UNCHANGED <<account, expired, kept, ended, overtaken>>

-----------------------------------------------------------------------------
(* Login *)

\* GetByEmail finds a live row, bcrypt agrees.
LoginLookup(c, u) ==
    /\ account[u] = "live"
    /\ Begin(c, "login", "found", u, None, c)
    /\ UNCHANGED <<account, rows, expired, history>>

LoginInsert(c) == At(c, "login", "found") /\ IssueToken(c)

-----------------------------------------------------------------------------
(* RefreshToken *)

\* Tokens clients know of: Register does not return the one it creates.
Given == {t \in Calls : call[t].op \in {"login", "refresh"} /\ call[t].at = "answered"}

\* GetByTokenHash: a row that has not expired.
RefreshLookup(c, t) ==
    /\ t \in Given
    /\ t \in rows
    /\ t \notin expired
    /\ Begin(c, "refresh", "found", call[t].user, t, call[t].session)
    /\ UNCHANGED <<account, rows, expired, history>>

\* Also a soft-deleted row (fault: the query does not look at deleted_at).
HasRow(u) == account[u] \in {"live", "deleted"}

\* GetByGUID: WHERE guid = $1 AND deleted_at IS NULL.
IsLive(u) == account[u] = "live"

RefreshOwner(c) ==
    /\ At(c, "refresh", "found")
    /\ \/ IsLive(call[c].user) /\ GoOn(c, "owned")
       \/ GoOn(c, "refused")   \* no such user, or the query failed
    /\ UNCHANGED <<account, rows, expired, history>>

\* Fault: it is the new token's hash that is deleted.
SpendNew(t) == rows

\* DELETE ... WHERE token_hash = $1.
SpendOld(t) == rows \ {t}

\* _ = DeleteByTokenHash: whether it removed the row, found none or failed,
\* the exchange goes on.
RefreshSpend(c) ==
    LET t == call[c].old IN
    /\ At(c, "refresh", "owned")
    /\ \/ /\ rows' = SpendOld(t)
          /\ kept' = IF t \in rows THEN kept ELSE kept \cup {call[c].session}
       \/ /\ kept' = kept \cup {call[c].session}
          /\ UNCHANGED rows
    /\ GoOn(c, "spent")
    /\ UNCHANGED <<account, expired, stored, ended, overtaken>>

RefreshInsert(c) == At(c, "refresh", "spent") /\ IssueToken(c)

-----------------------------------------------------------------------------
(* Logout, and the clock *)

\* Fault: only tokens that a login issued.
OldestOf(u) == {t \in rows : call[t].user = u /\ call[t].old = None}

RowsOf(u) == {t \in rows : call[t].user = u}

\* DELETE FROM refresh_tokens WHERE user_guid = $1.
Logout(u) ==
    LET underWay == {call[c].session : c \in {x \in Exchanging : call[x].user = u}} IN
    /\ HasRow(u)
    /\ rows' = rows \ RowsOf(u)
    /\ ended' = ended \cup SessionsOf(u) \cup underWay
    /\ overtaken' = overtaken \cup underWay
    /\ UNCHANGED <<account, expired, call, stored, kept>>

Expire(t) ==
    /\ t \in rows \ expired
    /\ expired' = expired \cup {t}
    /\ UNCHANGED <<account, rows, call, history>>

-----------------------------------------------------------------------------
(* Register, CreateUser and DeleteUser *)

SameEmail(u) == {v \in Users \ {u} : Email[v] = Email[u]}

\* ExistsByEmail: only live, committed rows count.
CheckEmail(c, op, u) ==
    /\ account[u] = "absent"
    /\ \A d \in Calls : call[d].op \in {"register", "create"} => call[d].user # u
    /\ \A v \in SameEmail(u) : account[v] # "live"
    /\ Begin(c, op, "checked", u, None, c)
    /\ UNCHANGED <<account, rows, expired, history>>

\* Fault: no UNIQUE constraint, the check before is all there is.
AnyEmail(u) == TRUE

\* UNIQUE (email), which counts soft-deleted rows too ...
UniqueEmail(u) == \A v \in SameEmail(u) : account[v] = "absent"

\* ... and waits for an open transaction that has inserted the email.
EmailInDoubt(u) == \E v \in SameEmail(u) : account[v] = "pending"

\* Fault: the insert does not go through the transaction.
InsertsAtOnce(op) == "live"

\* What others see of the inserted row.
InsertedBy(op) == IF op = "register" THEN "pending" ELSE "live"

InsertUser(c) ==
    LET u == call[c].user
        op == call[c].op
    IN
    /\ op \in {"register", "create"} /\ call[c].at = "checked"
    /\ ~EmailInDoubt(u)
    /\ \/ /\ UniqueEmail(u)
          /\ account' = [account EXCEPT ![u] = InsertedBy(op)]
          /\ \/ op = "register" /\ GoOn(c, "inserted")
             \/ op = "create" /\ (GoOn(c, "answered") \/ GoOn(c, "refused"))
       \/ /\ GoOn(c, "refused")
          /\ UNCHANGED account
    /\ UNCHANGED <<rows, expired, history>>

\* Fault: no deferred rollback, the transaction stays open.
LeftOpen(u) == account

\* defer cleanup(false)
RolledBack(u) ==
    IF account[u] = "pending" THEN [account EXCEPT ![u] = "absent"] ELSE account

\* The token row goes into the same transaction and is seen at its commit;
\* an error on the way, or at the commit, rolls everything back.
RegisterToken(c) ==
    /\ At(c, "register", "inserted")
    /\ \/ GoOn(c, "full") /\ UNCHANGED account
       \/ GoOn(c, "refused") /\ account' = RolledBack(call[c].user)
    /\ UNCHANGED <<rows, expired, history>>

RegisterCommit(c) ==
    /\ At(c, "register", "full")
    /\ \/ /\ account' = [account EXCEPT ![call[c].user] = "live"]
          /\ rows' = rows \cup {c} /\ stored' = stored \cup {c}
          /\ GoOn(c, "answered") \/ GoOn(c, "refused")   \* the answer may be lost
       \/ /\ GoOn(c, "refused")
          /\ account' = RolledBack(call[c].user)
          /\ UNCHANGED <<rows, stored>>
    /\ UNCHANGED <<expired, kept, ended, overtaken>>

\* UPDATE users SET deleted_at: the refresh tokens stay.
DeleteUser(u) ==
    /\ account[u] = "live"
    /\ account' = [account EXCEPT ![u] = "deleted"]
    /\ UNCHANGED <<rows, expired, call, history>>

-----------------------------------------------------------------------------
\* The next statement of a request that has begun.
Continue(c) ==
    \/ LoginInsert(c)
    \/ RefreshOwner(c) \/ RefreshSpend(c) \/ RefreshInsert(c)
    \/ InsertUser(c) \/ RegisterToken(c) \/ RegisterCommit(c)

Next ==
    \/ \E c \in Calls :
          \/ Continue(c)
          \/ \E u \in Users : LoginLookup(c, u)
          \/ \E t \in Calls : RefreshLookup(c, t)
          \/ \E op \in {"register", "create"}, u \in Users : CheckEmail(c, op, u)
    \/ \E u \in Users : Logout(u) \/ DeleteUser(u)
    \/ \E t \in Calls : Expire(t)

Spec == Init /\ [][Next]_vars

\* A request that has begun gets its statements answered by the database.
FairSpec == Spec /\ \A c \in Calls : WF_vars(Continue(c))

-----------------------------------------------------------------------------
(* Properties *)

CallRecords ==
    [op : {"none", "login", "refresh", "register", "create"},
     at : {"idle", "found", "owned", "spent", "checked", "inserted", "full",
           "answered", "refused"},
     user : Users \cup {None}, old : Calls \cup {None},
     session : Calls \cup {None}, goneBefore : SUBSET Users]

\* Every variable has its type; a row is one that was stored, by a call that
\* has a user; a pending row belongs to a request that holds its transaction.
TypeOK ==
    /\ account \in [Users -> {"absent", "pending", "live", "deleted"}]
    /\ \A u \in Users : account[u] = "pending" =>
           \E c \in Calls : call[c].user = u /\ call[c].at \in {"inserted", "full"}
    /\ rows \subseteq stored
    /\ expired \subseteq stored
    /\ stored \subseteq {c \in Calls : call[c].user \in Users}
    /\ call \in [Calls -> CallRecords]
    /\ kept \subseteq Calls
    /\ overtaken \subseteq ended /\ ended \subseteq Calls

\* Registering and creating users concurrently never yields two live accounts
\* for one email, although the check comes before the insert.
OneAccountPerEmail ==
    \A u \in Users : \A v \in SameEmail(u) :
        account[u] = "live" => account[v] # "live"

\* An account made by Register has had its token and the other way round,
\* whichever statement failed and whatever answer was lost.
RegisteredWhole ==
    \A c \in Calls :
        call[c].op = "register" =>
            (c \in stored <=> account[call[c].user] \in {"live", "deleted"})

\* No request is given a token for an account that had been deleted before it
\* began, though the tokens of deleted accounts stay in the table.
NoTokenAfterDeletion ==
    \A t \in Given : call[t].user \notin call[t].goneBefore

\* A session has one token at a time: where every exchange removed the token
\* it was given, two tokens of one session are never in the table together,
\* nor is one next to an exchange that is about to store another.
OneTokenPerSession ==
    \A t \in rows, x \in rows \cup {c \in Calls : At(c, "refresh", "spent")} :
        t # x /\ call[t].session = call[x].session => call[t].session \in kept

\* A logout ends every session of the user for good, but for those with an
\* exchange under way.
LogoutEndsQuietSessions ==
    \A t \in rows : call[t].session \notin ended \ overtaken

\* What PRD.md promises of a logout, without that exception.
LogoutEndsSessions == \A t \in rows : call[t].session \notin ended

\* Every request that has begun ends: in particular an insert that waits for
\* another registration's transaction gets its turn.
InProgress(c) == call[c].at \notin {"idle", "answered", "refused"}

RequestsEnd == \A c \in Calls : InProgress(c) ~> ~InProgress(c)
=============================================================================
