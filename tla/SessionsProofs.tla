--------------------------- MODULE SessionsProofs ---------------------------
(***************************************************************************)
(* The properties of Sessions for any number of users and requests.  Each  *)
(* needs the others: a logout ends whole sessions because a session has    *)
(* one user, which it has because a login is answered before its tokens    *)
(* are exchanged; a registration is whole because nobody else creates its  *)
(* row.  So one invariant, IInv, is proved, step by step.                  *)
(***************************************************************************)
EXTENDS Sessions, TLAPS

Over == {"answered", "refused"}
Creating(c) == call[c].op \in {"register", "create"}
Spent == {c \in Calls : At(c, "refresh", "spent")}

\* How far each kind of request can have come, and whose session it is in: its
\* own, or that of a login (or registration) that was answered.
CallOK(c) ==
    /\ call[c].op = "none" <=> call[c].at = "idle"
    /\ call[c].op # "none" => call[c].user \in Users /\ call[c].session \in Calls
    /\ call[c].op = "login" => call[c].at \in {"found"} \cup Over
    /\ call[c].op = "refresh" => call[c].at \in {"found", "owned", "spent"} \cup Over
    /\ call[c].op = "register" => call[c].at \in {"checked", "inserted", "full"} \cup Over
    /\ call[c].op = "create" => call[c].at \in {"checked"} \cup Over

InSession(c) ==
    /\ call[c].op \in {"login", "register", "create"} => call[c].session = c
    /\ call[c].op = "refresh" =>
          LET s == call[c].session
              t == call[c].old
          IN /\ s # c /\ call[s].at = "answered" /\ call[s].user = call[c].user
             /\ t \in Calls /\ call[t].at = "answered" /\ call[t].session = s

StoredOK == \A c \in stored : call[c].at \in Over /\ call[c].op \in {"login", "refresh", "register"}

\* Two requests never create one row; a row whose creation is under way is not
\* there, or pending.
CreatorOK(c) ==
    Creating(c) =>
        /\ \A d \in Calls : Creating(d) /\ call[d].user = call[c].user => d = c
        /\ call[c].at = "checked" => account[call[c].user] = "absent"
        /\ call[c].at \in {"inserted", "full"} => account[call[c].user] = "pending"

OneRowPerEmail ==
    \A u \in Users : \A v \in SameEmail(u) : account[u] # "absent" => account[v] = "absent"

\* What had been deleted before a request stays so, and its owner was there
\* when it was last looked up.
OwnerOK(c) ==
    /\ call[c].goneBefore \subseteq Deleted
    /\ call[c].op = "login" => call[c].user \notin call[c].goneBefore
    /\ call[c].op = "refresh" /\ call[c].at \in {"owned", "spent", "answered"} =>
           call[c].user \notin call[c].goneBefore

\* Of a session where every exchange removed the token it was given, there is
\* one token or one exchange that is about to store one.
OneHolder ==
    \A x, y \in rows \cup Spent :
        x # y /\ call[x].session = call[y].session => call[x].session \in kept

\* A session that a logout ended, with no exchange under way, has neither
\* tokens nor exchanges.
QuietOK ==
    /\ \A c \in rows \cup Exchanging : call[c].session \notin ended \ overtaken
    /\ \A s \in ended : call[s].at \in Over

IInv ==
    /\ TypeOK
    /\ \A c \in Calls : CallOK(c) /\ InSession(c) /\ CreatorOK(c) /\ OwnerOK(c)
    /\ StoredOK /\ OneRowPerEmail /\ RegisteredWhole /\ OneHolder /\ QuietOK

-----------------------------------------------------------------------------
\* Before the first request nothing is stored.
LEMMA InitInv == Init => IInv
  <1> SUFFICES ASSUME Init PROVE IInv
    OBVIOUS
  <1>1. \A c \in Calls : call[c] = Idle
    BY DEF Init
  <1>2. Idle \in CallRecords
    BY DEF Idle, CallRecords
  <1>3. TypeOK
    BY <1>2 DEF Init, TypeOK
  <1>4. \A c \in Calls : CallOK(c) /\ InSession(c) /\ CreatorOK(c) /\ OwnerOK(c)
    BY <1>1 DEF Idle, CallOK, InSession, CreatorOK, Creating, OwnerOK
  <1>5. OneRowPerEmail
    BY DEF Init, OneRowPerEmail, SameEmail
  <1>6. RegisteredWhole
    BY <1>1 DEF RegisteredWhole, Idle
  <1>7. Spent = {} /\ Exchanging = {}
    BY <1>1 DEF Spent, Exchanging, At, Idle
  <1> QED
    BY <1>3, <1>4, <1>5, <1>6, <1>7 DEF IInv, Init, StoredOK, OneHolder, QuietOK

-----------------------------------------------------------------------------
\* A call that goes on changes how far it has come and nothing else.
LEMMA GoOnFacts ==
    ASSUME IInv, NEW c \in Calls,
           NEW at \in {"owned", "spent", "inserted", "full"} \cup Over, GoOn(c, at)
    PROVE  /\ call' \in [Calls -> CallRecords]
           /\ \A d \in Calls \ {c} : call'[d] = call[d]
           /\ call'[c].at = at /\ call'[c].op = call[c].op /\ call'[c].user = call[c].user
           /\ call'[c].old = call[c].old /\ call'[c].session = call[c].session
           /\ call'[c].goneBefore = call[c].goneBefore
  <1> DEFINE r == [call[c] EXCEPT !.at = at]
  <1>1. call \in [Calls -> CallRecords] /\ call[c] \in CallRecords
    BY DEF IInv, TypeOK
  <1>2. call' = [call EXCEPT ![c] = r]
    BY DEF GoOn
  <1>3. /\ r \in CallRecords
        /\ r.at = at /\ r.op = call[c].op /\ r.user = call[c].user
        /\ r.old = call[c].old /\ r.session = call[c].session
        /\ r.goneBefore = call[c].goneBefore
    BY <1>1 DEF CallRecords, Over
  <1> HIDE DEF r
  <1> QED
    BY <1>1, <1>2, <1>3

\* A call that begins was idle, and the other calls stay as they are.
LEMMA BeginFacts ==
    ASSUME IInv, NEW c \in Calls, NEW op \in {"login", "refresh", "register", "create"},
           NEW at \in {"found", "checked"}, NEW u \in Users, NEW old \in Calls \cup {None},
           NEW s \in Calls, Begin(c, op, at, u, old, s)
    PROVE  /\ call[c].at = "idle" /\ call[c].op = "none"
           /\ call' \in [Calls -> CallRecords]
           /\ \A d \in Calls \ {c} : call'[d] = call[d]
           /\ call'[c].at = at /\ call'[c].op = op /\ call'[c].user = u
           /\ call'[c].old = old /\ call'[c].session = s
           /\ call'[c].goneBefore = Deleted
  <1>1. call \in [Calls -> CallRecords] /\ call[c].at = "idle" /\ call[c].op = "none"
    BY DEF IInv, TypeOK, Begin, CallOK
  <1>2. Deleted \in SUBSET Users
    BY DEF Deleted
  <1> QED
    BY <1>1, <1>2 DEF Begin, CallRecords

\* A call that goes on, by a step its kind allows, leaves all in their sessions.
LEMMA GoOnCalls ==
    ASSUME IInv, NEW c \in Calls,
           NEW at \in {"owned", "spent", "inserted", "full"} \cup Over, GoOn(c, at),
           call[c].op # "none", call[c].at \notin Over,
           call[c].op = "login" => at \in Over,
           call[c].op = "refresh" => at \in {"owned", "spent"} \cup Over,
           call[c].op = "register" => at \in {"inserted", "full"} \cup Over,
           call[c].op = "create" => at \in Over
    PROVE  \A d \in Calls : CallOK(d)' /\ InSession(d)'
  <1> TAKE d \in Calls
  <1>f. /\ \A e \in Calls \ {c} : call'[e] = call[e]
        /\ call'[c].at = at /\ call'[c].op = call[c].op /\ call'[c].user = call[c].user
        /\ call'[c].old = call[c].old /\ call'[c].session = call[c].session
    BY GoOnFacts
  <1>1. CallOK(d) /\ InSession(d) /\ CallOK(c)
    BY DEF IInv
  <1>2. CallOK(d)'
    <2>1. CASE d = c
      BY <2>1, <1>1, <1>f DEF CallOK, Over
    <2>2. CASE d # c
      BY <2>2, <1>1, <1>f DEF CallOK
    <2> QED
      BY <2>1, <2>2
  <1>3. InSession(d)'
    <2>1. \A e \in Calls : call[e].at = "answered" => call'[e] = call[e]
      BY <1>f DEF Over
    <2>2. call'[d].op = call[d].op /\ call'[d].session = call[d].session
          /\ call'[d].user = call[d].user /\ call'[d].old = call[d].old
      BY <1>f
    <2>3. CASE call[d].op = "refresh"
      <3> DEFINE s == call[d].session
                 t == call[d].old
      <3>1. /\ s \in Calls /\ s # d /\ call[s].at = "answered" /\ call[s].user = call[d].user
            /\ t \in Calls /\ call[t].at = "answered" /\ call[t].session = s
        BY <2>3, <1>1 DEF CallOK, InSession
      <3>2. call'[s] = call[s] /\ call'[t] = call[t]
        BY <3>1, <2>1
      <3> QED
        BY <2>2, <2>3, <3>1, <3>2 DEF InSession
    <2>4. CASE call[d].op # "refresh"
      BY <2>2, <2>4, <1>1 DEF InSession
    <2> QED
      BY <2>3, <2>4
  <1> QED
    BY <1>2, <1>3

\* Where it stores nothing and does not come to hold a token, what is stored
\* stays as it should be.
LEMMA GoOnQuiet ==
    ASSUME IInv, NEW c \in Calls, NEW at \in {"owned", "inserted", "full"} \cup Over, GoOn(c, at),
           call[c].at \notin Over, at = "owned" => call[c].at = "found",
           UNCHANGED <<rows, expired, history>>
    PROVE  StoredOK' /\ OneHolder' /\ QuietOK'
  <1>f. /\ \A e \in Calls \ {c} : call'[e] = call[e]
        /\ call'[c].at = at /\ call'[c].op = call[c].op
        /\ call'[c].session = call[c].session
    BY GoOnFacts
  <1>1. StoredOK /\ OneHolder /\ QuietOK /\ rows \subseteq stored /\ stored \subseteq Calls /\ ended \subseteq Calls
    BY DEF IInv, TypeOK
  <1>u. rows' = rows /\ stored' = stored /\ kept' = kept /\ ended' = ended /\ overtaken' = overtaken
    BY DEF history
  <1>2. c \notin stored /\ c \notin ended
    BY <1>1 DEF StoredOK, QuietOK
  <1>3. Spent' \subseteq Spent
    BY <1>f DEF Spent, At, Over
  <1>4. Exchanging' \subseteq Exchanging
    BY <1>f DEF Exchanging, Over
  <1>5. \A d \in Calls : call'[d].session = call[d].session
    BY <1>f
  <1>6. StoredOK'
    BY <1>1, <1>2, <1>f, <1>u DEF StoredOK
  <1>7. OneHolder'
    BY <1>1, <1>3, <1>5, <1>u DEF OneHolder, Spent
  <1>8. QuietOK'
    <2>1. \A d \in rows' \cup Exchanging' : call'[d].session \notin ended' \ overtaken'
      BY <1>1, <1>4, <1>5, <1>u DEF QuietOK, Exchanging
    <2>2. \A s \in ended' : call'[s].at \in Over
      BY <1>1, <1>2, <1>f, <1>u DEF QuietOK
    <2> QED
      BY <2>1, <2>2 DEF QuietOK
  <1> QED
    BY <1>6, <1>7, <1>8

\* Where the users are not touched, nothing about them changes.
LEMMA GoOnAccounts ==
    ASSUME IInv, NEW c \in Calls, NEW at \in {"owned", "spent"} \cup Over, GoOn(c, at),
           call[c].op \in {"login", "refresh"}, UNCHANGED account,
           at = "owned" => IsLive(call[c].user),
           call[c].op = "refresh" /\ at \in {"spent", "answered"} => call[c].at \in {"owned", "spent"}
    PROVE  OneRowPerEmail' /\ \A d \in Calls : CreatorOK(d)' /\ OwnerOK(d)'
  <1>f. /\ \A e \in Calls \ {c} : call'[e] = call[e]
        /\ call'[c].at = at /\ call'[c].op = call[c].op /\ call'[c].user = call[c].user
        /\ call'[c].goneBefore = call[c].goneBefore
    BY GoOnFacts
  <1>1. OneRowPerEmail'
    BY DEF IInv, OneRowPerEmail
  <1>2. ASSUME NEW d \in Calls PROVE CreatorOK(d)' /\ OwnerOK(d)'
    <2>1. CreatorOK(d) /\ OwnerOK(d) /\ OwnerOK(c)
      BY DEF IInv
    <2>2. CreatorOK(d)'
      BY <2>1, <1>f DEF CreatorOK, Creating
    <2>3. Deleted' = Deleted
      BY DEF Deleted
    <2>4. CASE d # c
      BY <2>1, <2>2, <2>3, <2>4, <1>f DEF OwnerOK
    <2>5. CASE d = c
      <3>1. IsLive(call[c].user) => call[c].user \notin Deleted
        BY DEF IsLive, Deleted
      <3> QED
        BY <2>1, <2>2, <2>3, <2>5, <3>1, <1>f DEF OwnerOK, Over
    <2> QED
      BY <2>4, <2>5
  <1> QED
    BY <1>1, <1>2

\* The types, where the users and what was stored are left alone.
LEMMA GoOnTypes ==
    ASSUME IInv, NEW c \in Calls, NEW at \in {"owned", "spent"} \cup Over, GoOn(c, at),
           call[c].op \in {"login", "refresh"}, UNCHANGED <<account, expired, ended, overtaken>>,
           stored' \subseteq stored \cup {c}, stored \subseteq stored', rows' \subseteq stored', kept' \subseteq Calls
    PROVE  TypeOK'
  <1>f. /\ call' \in [Calls -> CallRecords] /\ \A e \in Calls \ {c} : call'[e] = call[e]
        /\ call'[c].at = at /\ call'[c].op = call[c].op /\ call'[c].user = call[c].user
    BY GoOnFacts
  <1>1. TypeOK /\ CallOK(c)
    BY DEF IInv
  <1>2. stored' \subseteq {d \in Calls : call'[d].user \in Users}
    BY <1>1, <1>f DEF TypeOK, CallOK
  <1>3. \A u \in Users : account'[u] = "pending" =>
           \E d \in Calls : call'[d].user = u /\ call'[d].at \in {"inserted", "full"}
    <2> TAKE u \in Users
    <2> HAVE account'[u] = "pending"
    <2>1. PICK d \in Calls : call[d].user = u /\ call[d].at \in {"inserted", "full"}
      BY <1>1 DEF TypeOK
    <2>2. d # c
      BY <1>1, <2>1 DEF CallOK, Over
    <2> QED
      BY <2>1, <2>2, <1>f
  <1> QED
    BY <1>1, <1>2, <1>3, <1>f DEF TypeOK
-----------------------------------------------------------------------------
\* The owner is looked up: only then does the exchange go on.
LEMMA RefreshOwnerInv == ASSUME IInv, NEW c \in Calls, RefreshOwner(c) PROVE IInv'
  <1>1. PICK at \in {"owned", "refused"} : GoOn(c, at) /\ (at = "owned" => IsLive(call[c].user))
    BY DEF RefreshOwner
  <1>2. call[c].op = "refresh" /\ call[c].at = "found" /\ UNCHANGED <<account, rows, expired, history>>
    BY DEF RefreshOwner, At
  <1>3. \A d \in Calls : CallOK(d)' /\ InSession(d)'
    BY <1>1, <1>2, GoOnCalls DEF Over
  <1>4. StoredOK' /\ OneHolder' /\ QuietOK'
    BY <1>1, <1>2, GoOnQuiet DEF Over
  <1>5. OneRowPerEmail' /\ \A d \in Calls : CreatorOK(d)' /\ OwnerOK(d)'
    BY <1>1, <1>2, GoOnAccounts DEF Over
  <1>6. TypeOK'
    BY <1>1, <1>2, GoOnTypes DEF Over, history, IInv, TypeOK
  <1>7. RegisteredWhole'
    BY <1>1, <1>2, GoOnFacts DEF Over, history, IInv, RegisteredWhole
  <1> QED
    BY <1>3, <1>4, <1>5, <1>6, <1>7 DEF IInv

\* An exchange removes the token it was given, or its session is noted in kept.
LEMMA RefreshSpendInv == ASSUME IInv, NEW c \in Calls, RefreshSpend(c) PROVE IInv'
  <1> DEFINE t == call[c].old
             s == call[c].session
  <1>1. /\ GoOn(c, "spent") /\ call[c].op = "refresh" /\ call[c].at = "owned"
        /\ UNCHANGED <<account, expired, stored, ended, overtaken>>
        /\ \/ t \in rows /\ rows' = rows \ {t} /\ kept' = kept
           \/ rows' \subseteq rows /\ kept' = kept \cup {s}
    BY DEF RefreshSpend, At, SpendOld
  <1>i. TypeOK /\ StoredOK /\ OneHolder /\ QuietOK /\ RegisteredWhole /\ CallOK(c) /\ InSession(c)
    BY DEF IInv
  <1>f. /\ \A e \in Calls \ {c} : call'[e] = call[e]
        /\ call'[c].at = "spent" /\ call'[c].op = "refresh" /\ call'[c].session = s
    BY <1>1, GoOnFacts
  <1>2. c \notin stored /\ c \notin ended /\ rows \subseteq stored /\ stored \subseteq Calls /\ s \in Calls
    BY <1>1, <1>i DEF TypeOK, StoredOK, QuietOK, CallOK, Over
  <1>3. \A d \in Calls : CallOK(d)' /\ InSession(d)'
    BY <1>1, GoOnCalls DEF Over
  <1>4. StoredOK'
    BY <1>1, <1>2, <1>i, <1>f DEF StoredOK
  <1>5. OneRowPerEmail' /\ \A d \in Calls : CreatorOK(d)' /\ OwnerOK(d)'
    BY <1>1, GoOnAccounts DEF Over
  <1>6. TypeOK'
    <2>1. kept' \subseteq Calls /\ rows' \subseteq stored'
      BY <1>1, <1>2, <1>i DEF TypeOK
    <2> QED
      BY <1>1, <2>1, GoOnTypes DEF Over
  <1>7. RegisteredWhole'
    BY <1>1, GoOnFacts DEF Over, IInv, RegisteredWhole
  <1>8. \A d \in Calls : call'[d].session = call[d].session
    BY <1>f
  <1>9. Spent' = Spent \cup {c}
    BY <1>f DEF Spent, At
  <1>10. Exchanging' = Exchanging
    BY <1>f, <1>1 DEF Exchanging
  <1>11. QuietOK'
    <2>1. \A d \in rows' \cup Exchanging' : call'[d].session \notin ended' \ overtaken'
      BY <1>1, <1>2, <1>i, <1>8, <1>10 DEF QuietOK, Exchanging
    <2>2. \A e \in ended' : e \in Calls /\ call'[e].at \in Over
      BY <1>1, <1>2, <1>i, <1>f DEF QuietOK, TypeOK
    <2> QED
      BY <2>1, <2>2 DEF QuietOK
  <1>12. OneHolder'
    <2> SUFFICES ASSUME NEW x \in rows' \cup Spent', NEW y \in rows' \cup Spent',
                        x # y, call'[x].session = call'[y].session
                 PROVE  call'[x].session \in kept'
      BY DEF OneHolder
    <2>1. x \in Calls /\ y \in Calls /\ kept \subseteq kept'
      BY <1>1, <1>2, <1>9 DEF Spent
    <2>2. ASSUME NEW z \in rows' \cup Spent', z # c, call[z].session = s PROVE s \in kept'
      <3>1. CASE kept' = kept \cup {s}
        BY <3>1
      <3>2. CASE t \in rows /\ rows' = rows \ {t}
        <4>1. z \in rows \cup Spent /\ call[t].session = s /\ call[t].at = "answered"
          BY <2>2, <3>2, <1>9, <1>1, <1>i DEF InSession
        <4>2. z # t
          BY <3>2, <4>1, <1>9, <2>2 DEF Spent, At
        <4> QED
          BY <3>2, <4>1, <4>2, <2>1, <2>2, <1>i DEF OneHolder
      <3> QED
        BY <1>1, <3>1, <3>2
    <2>3. CASE x = c \/ y = c
      BY <2>1, <2>2, <2>3, <1>8
    <2>4. CASE x # c /\ y # c
      <3>1. x \in rows \cup Spent /\ y \in rows \cup Spent
        BY <2>4, <1>1, <1>9
      <3> QED
        BY <3>1, <2>1, <1>8, <1>i DEF OneHolder
    <2> QED
      BY <2>3, <2>4
  <1> QED
    BY <1>3, <1>4, <1>5, <1>6, <1>7, <1>11, <1>12 DEF IInv

\* Storing a token: nobody else holds one of this session, or this call did.
LEMMA IssueTokenInv ==
    ASSUME IInv, NEW c \in Calls, IssueToken(c),
           \/ call[c].op = "login" /\ call[c].at = "found"
           \/ call[c].op = "refresh" /\ call[c].at = "spent"
    PROVE  IInv'
  <1> DEFINE s == call[c].session
  <1>1. PICK at \in Over :
          /\ GoOn(c, at)
          /\ \/ rows' = rows \cup {c} /\ stored' = stored \cup {c}
             \/ rows' = rows /\ stored' = stored
          /\ UNCHANGED <<account, expired, kept, ended, overtaken>>
    BY DEF IssueToken, Over
  <1>i. TypeOK /\ StoredOK /\ OneHolder /\ QuietOK /\ RegisteredWhole
    BY DEF IInv
  <1>f. /\ \A e \in Calls \ {c} : call'[e] = call[e]
        /\ call'[c].at = at /\ call'[c].op = call[c].op /\ call'[c].session = s
    BY <1>1, GoOnFacts
  <1>2. /\ rows \subseteq stored /\ stored \subseteq Calls /\ ended \subseteq Calls
        /\ c \notin stored /\ c \notin ended
    BY <1>i DEF TypeOK, StoredOK, QuietOK, Over
  <1>3. \A d \in Calls : CallOK(d)' /\ InSession(d)'
    BY <1>1, GoOnCalls DEF Over
  <1>4. StoredOK'
    BY <1>1, <1>2, <1>i, <1>f DEF StoredOK
  <1>5. OneRowPerEmail' /\ \A d \in Calls : CreatorOK(d)' /\ OwnerOK(d)'
    BY <1>1, GoOnAccounts DEF Over
  <1>6. TypeOK'
    <2>1. rows' \subseteq stored' /\ stored' \subseteq stored \cup {c} /\ stored \subseteq stored' /\ kept' \subseteq Calls
      BY <1>1, <1>2, <1>i DEF TypeOK
    <2> QED
      BY <1>1, <2>1, GoOnTypes DEF Over
  <1>7. RegisteredWhole'
    BY <1>1, <1>f, GoOnFacts DEF Over, IInv, RegisteredWhole
  <1>8. \A d \in Calls : call'[d].session = call[d].session
    BY <1>f
  <1>9. Spent' = Spent \ {c}
    BY <1>f DEF Spent, At, Over
  <1>10. Exchanging' = Exchanging \ {c}
    BY <1>f DEF Exchanging, Over
  \* A login is the first of its session.
  <1>11. ASSUME call[c].op = "login", NEW d \in rows \cup Spent PROVE call[d].session # c
    <2>1. d \in Calls /\ InSession(d) /\ CallOK(d) /\ d # c /\ call[d].op \in {"login", "refresh", "register"}
      BY <1>2, <1>11, <1>i DEF IInv, Spent, At, StoredOK
    <2>2. call[c].at # "answered"
      OBVIOUS
    <2> QED
      BY <2>1, <2>2 DEF InSession
  <1>12. call[c].op = "login" => s = c
    BY DEF IInv, InSession
  <1>13. OneHolder'
    <2> SUFFICES ASSUME NEW x \in rows' \cup Spent', NEW y \in rows' \cup Spent',
                        x # y, call'[x].session = call'[y].session
                 PROVE  call'[x].session \in kept'
      BY DEF OneHolder
    <2>1. x \in Calls /\ y \in Calls /\ call[x].session = call[y].session
      BY <1>1, <1>2, <1>8, <1>9 DEF Spent
    <2>2. x \in rows \cup Spent \cup {c} /\ y \in rows \cup Spent \cup {c}
      BY <1>1, <1>9
    <2>3. CASE call[c].op = "refresh"
      <3>1. c \in Spent
        BY <2>3 DEF Spent, At
      <3> QED
        BY <3>1, <2>1, <2>2, <1>1, <1>8, <1>i DEF OneHolder
    <2>4. CASE call[c].op = "login"
      <3>1. x # c /\ y # c
        BY <2>1, <2>2, <2>4, <1>11, <1>12
      <3> QED
        BY <3>1, <2>1, <2>2, <1>1, <1>8, <1>i DEF OneHolder
    <2> QED
      BY <2>3, <2>4
  <1>14. QuietOK'
    <2>1. s \notin ended \ overtaken
      <3>1. CASE call[c].op = "refresh"
        BY <3>1, <1>i DEF QuietOK, Exchanging
      <3>2. CASE call[c].op = "login"
        BY <3>2, <1>2, <1>12
      <3> QED
        BY <3>1, <3>2
    <2>2. \A d \in rows' \cup Exchanging' : call'[d].session \notin ended' \ overtaken'
      BY <1>1, <1>2, <1>i, <1>8, <1>10, <2>1 DEF QuietOK, Exchanging
    <2>3. \A e \in ended' : call'[e].at \in Over
      BY <1>1, <1>2, <1>i, <1>f DEF QuietOK
    <2> QED
      BY <2>2, <2>3 DEF QuietOK
  <1> QED
    BY <1>3, <1>4, <1>5, <1>6, <1>7, <1>13, <1>14 DEF IInv

-----------------------------------------------------------------------------
\* A request that begins.
LEMMA BeginInv ==
    ASSUME IInv, NEW c \in Calls, NEW op \in {"login", "refresh", "register", "create"},
           NEW at \in {"found", "checked"}, NEW u \in Users, NEW old \in Calls \cup {None},
           NEW s \in Calls, Begin(c, op, at, u, old, s),
           UNCHANGED <<account, rows, expired, history>>,
           at = "found" <=> op \in {"login", "refresh"},
           op = "login" => IsLive(u),
           op # "refresh" => s = c,
           op = "refresh" =>
               /\ s # c /\ call[s].at = "answered" /\ call[s].user = u
               /\ old \in Calls /\ call[old].at = "answered" /\ call[old].session = s
               /\ s \notin ended \ overtaken,
           op \in {"register", "create"} =>
               /\ account[u] = "absent"
               /\ \A d \in Calls : Creating(d) => call[d].user # u
    PROVE  IInv'
  <1>f. /\ call[c].at = "idle" /\ call[c].op = "none"
        /\ call' \in [Calls -> CallRecords]
        /\ \A d \in Calls \ {c} : call'[d] = call[d]
        /\ call'[c].at = at /\ call'[c].op = op /\ call'[c].user = u
        /\ call'[c].old = old /\ call'[c].session = s
        /\ call'[c].goneBefore = Deleted
    BY BeginFacts
  <1>u. /\ rows' = rows /\ stored' = stored /\ kept' = kept /\ ended' = ended
        /\ overtaken' = overtaken /\ account' = account /\ expired' = expired
    BY DEF history
  <1>i. TypeOK /\ StoredOK /\ OneHolder /\ QuietOK /\ RegisteredWhole /\ OneRowPerEmail
    BY DEF IInv
  <1>2. /\ rows \subseteq stored /\ stored \subseteq Calls /\ ended \subseteq Calls
        /\ c \notin stored /\ c \notin ended
    BY <1>i, <1>f DEF TypeOK, StoredOK, QuietOK, Over
  <1>3. ASSUME NEW d \in Calls PROVE CallOK(d)' /\ InSession(d)'
    <2>1. CallOK(d) /\ InSession(d)
      BY DEF IInv
    <2>2. CASE d = c
      <3>1. CallOK(d)'
        BY <2>2, <1>f DEF CallOK
      <3>2. op = "refresh" => call'[s] = call[s] /\ call'[old] = call[old]
        BY <1>f
      <3>3. InSession(d)'
        BY <2>2, <3>2, <1>f DEF InSession
      <3> QED
        BY <3>1, <3>3
    <2>3. CASE d # c
      <3>1. call'[d] = call[d]
        BY <2>3, <1>f
      <3>2. CallOK(d)'
        BY <2>1, <3>1 DEF CallOK
      <3>3. \A e \in Calls : call[e].at = "answered" => call'[e] = call[e]
        BY <1>f
      <3>4. InSession(d)'
        <4>1. CASE call[d].op = "refresh"
          <5> DEFINE z == call[d].session
                     t == call[d].old
          <5>1. /\ z \in Calls /\ z # d /\ call[z].at = "answered" /\ call[z].user = call[d].user
                /\ t \in Calls /\ call[t].at = "answered" /\ call[t].session = z
            BY <4>1, <2>1 DEF CallOK, InSession
          <5>2. call'[z] = call[z] /\ call'[t] = call[t]
            BY <5>1, <3>3
          <5> QED
            BY <4>1, <3>1, <5>1, <5>2 DEF InSession
        <4>2. CASE call[d].op # "refresh"
          BY <4>2, <3>1, <2>1 DEF InSession
        <4> QED
          BY <4>1, <4>2
      <3> QED
        BY <3>2, <3>4
    <2> QED
      BY <2>2, <2>3
  <1>4. ASSUME NEW d \in Calls PROVE CreatorOK(d)' /\ OwnerOK(d)'
    <2>1. CreatorOK(d) /\ OwnerOK(d) /\ Deleted' = Deleted
      BY <1>u DEF IInv, Deleted
    <2>2. IsLive(u) => u \notin Deleted
      BY DEF IsLive, Deleted
    <2>3. CASE d = c
      <3>1. CreatorOK(d)'
        BY <2>3, <1>f, <1>u DEF CreatorOK, Creating
      <3>2. OwnerOK(d)'
        BY <2>1, <2>2, <2>3, <1>f DEF OwnerOK
      <3> QED
        BY <3>1, <3>2
    <2>4. CASE d # c
      <3>1. CreatorOK(d)'
        BY <2>1, <2>4, <1>f, <1>u DEF CreatorOK, Creating
      <3>2. OwnerOK(d)'
        BY <2>1, <2>4, <1>f DEF OwnerOK
      <3> QED
        BY <3>1, <3>2
    <2> QED
      BY <2>3, <2>4
  <1>5. TypeOK'
    <2>1. \A v \in Users : account'[v] = "pending" =>
             \E d \in Calls : call'[d].user = v /\ call'[d].at \in {"inserted", "full"}
      <3> TAKE v \in Users
      <3> HAVE account'[v] = "pending"
      <3>1. PICK d \in Calls : call[d].user = v /\ call[d].at \in {"inserted", "full"}
        BY <1>i, <1>u DEF TypeOK
      <3> QED
        BY <3>1, <1>f
    <2>2. stored' \subseteq {d \in Calls : call'[d].user \in Users}
      BY <1>i, <1>u, <1>f DEF TypeOK
    <2> QED
      BY <2>1, <2>2, <1>i, <1>u, <1>f DEF TypeOK
  <1>6. StoredOK'
    BY <1>i, <1>u, <1>f, <1>2 DEF StoredOK
  <1>7. OneRowPerEmail'
    BY <1>i, <1>u DEF OneRowPerEmail
  <1>8. RegisteredWhole'
    BY <1>i, <1>u, <1>f, <1>2 DEF RegisteredWhole
  <1>9. Spent' = Spent
    BY <1>f DEF Spent, At
  <1>10. OneHolder'
    BY <1>i, <1>u, <1>f, <1>2, <1>9 DEF OneHolder, Spent, At
  <1>11. Exchanging' \subseteq Exchanging \cup {c} /\ (op # "refresh" => Exchanging' = Exchanging)
    BY <1>f DEF Exchanging
  <1>12. QuietOK'
    <2>1. ASSUME NEW d \in rows' \cup Exchanging' PROVE call'[d].session \notin ended' \ overtaken'
      <3>1. CASE d = c
        BY <3>1, <1>f, <1>u, <1>2, <1>11
      <3>2. CASE d # c
        BY <3>2, <1>i, <1>f, <1>u, <1>2, <1>11 DEF QuietOK, Exchanging
      <3> QED
        BY <3>1, <3>2
    <2>2. \A e \in ended' : call'[e].at \in Over
      BY <1>i, <1>f, <1>u, <1>2 DEF QuietOK
    <2> QED
      BY <2>1, <2>2 DEF QuietOK
  <1> QED
    BY <1>3, <1>4, <1>5, <1>6, <1>7, <1>8, <1>10, <1>12 DEF IInv

\* A login begins a session of its own, for a live account.
LEMMA LoginLookupInv ==
    ASSUME IInv, NEW c \in Calls, NEW u \in Users, LoginLookup(c, u) PROVE IInv'
  <1>1. Begin(c, "login", "found", u, None, c) /\ IsLive(u) /\ UNCHANGED <<account, rows, expired, history>>
    BY DEF LoginLookup, IsLive
  <1> QED
    BY <1>1, BeginInv

\* An exchange begins in the session of the token it was given.
LEMMA RefreshLookupInv ==
    ASSUME IInv, NEW c \in Calls, NEW t \in Calls, RefreshLookup(c, t) PROVE IInv'
  <1> DEFINE s == call[t].session
  <1>1. /\ Begin(c, "refresh", "found", call[t].user, t, s)
        /\ UNCHANGED <<account, rows, expired, history>>
        /\ t \in Given /\ t \in rows
    BY DEF RefreshLookup
  <1>2. call[t].op \in {"login", "refresh"} /\ call[t].at = "answered" /\ CallOK(t) /\ InSession(t)
    BY <1>1 DEF Given, IInv
  <1>3. call[t].user \in Users /\ s \in Calls /\ call[s].at = "answered" /\ call[s].user = call[t].user
    BY <1>2 DEF CallOK, InSession
  <1>4. s \notin ended \ overtaken
    BY <1>1 DEF IInv, QuietOK
  <1>5. s # c
    BY <1>1, <1>3 DEF Begin
  <1> QED
    BY <1>1, <1>2, <1>3, <1>4, <1>5, BeginInv

\* A creation begins with a row nobody else creates.
LEMMA CheckEmailInv ==
    ASSUME IInv, NEW c \in Calls, NEW op \in {"register", "create"}, NEW u \in Users, CheckEmail(c, op, u)
    PROVE  IInv'
  <1>1. /\ Begin(c, op, "checked", u, None, c)
        /\ UNCHANGED <<account, rows, expired, history>>
        /\ account[u] = "absent" /\ \A d \in Calls : Creating(d) => call[d].user # u
    BY DEF CheckEmail, Creating
  <1> QED
    BY <1>1, BeginInv

-----------------------------------------------------------------------------
\* A session belongs to one user.
LEMMA SessionUser ==
    ASSUME IInv, NEW x \in Calls, NEW y \in Calls, call[x].op # "none", call[y].op # "none",
           call[x].session = call[y].session
    PROVE  call[x].user = call[y].user
  <1>1. \A d \in Calls : InSession(d) /\ CallOK(d)
    BY DEF IInv
  <1>2. ASSUME NEW d \in Calls, call[d].op # "none"
        PROVE  call[d].session \in Calls /\ call[d].user = call[call[d].session].user
    <2>1. CASE call[d].op = "refresh"
      BY <1>1, <1>2, <2>1 DEF InSession, CallOK
    <2>2. CASE call[d].op # "refresh"
      <3>1. call \in [Calls -> CallRecords]
        BY DEF IInv, TypeOK
      <3>2. call[d].op \in {"login", "register", "create"}
        BY <1>2, <2>2, <3>1 DEF CallRecords
      <3> QED
        BY <1>1, <3>2 DEF InSession
    <2> QED
      BY <2>1, <2>2
  <1> QED
    BY <1>2

\* A logout takes the user's rows, and the rows of its sessions are the user's.
LEMMA LogoutInv == ASSUME IInv, NEW u \in Users, Logout(u) PROVE IInv'
  <1> DEFINE underWay == {call[c].session : c \in {x \in Exchanging : call[x].user = u}}
  <1>1. /\ rows' = rows \ RowsOf(u)
        /\ ended' = ended \cup SessionsOf(u) \cup underWay
        /\ overtaken' = overtaken \cup underWay
        /\ UNCHANGED <<account, expired, call, stored, kept>>
    BY DEF Logout
  <1>i. TypeOK /\ StoredOK /\ OneHolder /\ QuietOK /\ RegisteredWhole /\ OneRowPerEmail
        /\ \A c \in Calls : CallOK(c) /\ InSession(c) /\ CreatorOK(c) /\ OwnerOK(c)
    BY DEF IInv
  <1>2. rows \subseteq stored /\ stored \subseteq Calls /\ Exchanging \subseteq Calls /\ ended \subseteq Calls
    BY <1>i DEF TypeOK, Exchanging
  <1>3. ASSUME NEW c \in rows \cup Exchanging
        PROVE  /\ c \in Calls /\ call[c].op # "none" /\ call[c].session \in Calls
               /\ call[call[c].session].at \in Over
    <2>1. c \in Calls /\ CallOK(c) /\ InSession(c)
      BY <1>2, <1>i
    <2>2. call[c].op = "refresh" \/ (call[c].op \in {"login", "register"} /\ call[c].at \in Over)
      BY <1>2, <1>i DEF Exchanging, StoredOK
    <2> QED
      BY <2>1, <2>2 DEF CallOK, InSession, Over
  <1>4. \A s \in SessionsOf(u) \cup underWay : s \in Calls /\ call[s].at \in Over
    BY <1>3 DEF SessionsOf
  <1>5. TypeOK'
    <2>1. rows' \subseteq stored' /\ overtaken' \subseteq ended' /\ ended' \subseteq Calls
      BY <1>1, <1>2, <1>4, <1>i DEF TypeOK
    <2> QED
      BY <2>1, <1>1, <1>i DEF TypeOK
  <1>6. \A c \in Calls : CallOK(c)' /\ InSession(c)' /\ CreatorOK(c)' /\ OwnerOK(c)'
    BY <1>1, <1>i DEF CallOK, InSession, CreatorOK, Creating, OwnerOK, Deleted
  <1>7. StoredOK' /\ RegisteredWhole' /\ OneRowPerEmail'
    BY <1>1, <1>i DEF StoredOK, RegisteredWhole, OneRowPerEmail
  <1>8. Spent' = Spent /\ Exchanging' = Exchanging
    BY <1>1 DEF Spent, At, Exchanging
  <1>9. OneHolder'
    BY <1>1, <1>8, <1>i DEF OneHolder
  <1>10. ASSUME NEW c \in rows' \cup Exchanging' PROVE call'[c].session \notin ended' \ overtaken'
    <2> DEFINE s == call[c].session
    <2>1. c \in rows \cup Exchanging /\ call'[c].session = s /\ s \notin ended \ overtaken
      BY <1>1, <1>8, <1>i DEF QuietOK
    <2>2. CASE call[c].user = u
      BY <2>1, <2>2, <1>1, <1>8 DEF RowsOf
    <2>3. CASE call[c].user # u
      <3>1. \A d \in rows \cup Exchanging : call[d].user = u => call[d].session # s
        BY <2>1, <2>3, <1>3, SessionUser
      <3> QED
        BY <3>1, <2>1, <1>1 DEF SessionsOf
    <2> QED
      BY <2>2, <2>3
  <1>11. QuietOK'
    <2>1. \A s \in ended' : call'[s].at \in Over
      BY <1>1, <1>4, <1>i DEF QuietOK
    <2> QED
      BY <2>1, <1>10 DEF QuietOK
  <1> QED
    BY <1>5, <1>6, <1>7, <1>9, <1>11 DEF IInv

\* Time passes for a token.
LEMMA ExpireInv == ASSUME IInv, NEW t \in Calls, Expire(t) PROVE IInv'
  <1>1. t \in rows /\ expired' = expired \cup {t} /\ UNCHANGED <<account, rows, call, stored, kept, ended, overtaken>>
    BY DEF Expire, history
  <1>i. TypeOK /\ StoredOK /\ OneHolder /\ QuietOK /\ RegisteredWhole /\ OneRowPerEmail
        /\ \A c \in Calls : CallOK(c) /\ InSession(c) /\ CreatorOK(c) /\ OwnerOK(c)
    BY DEF IInv
  <1>2. TypeOK'
    BY <1>1, <1>i DEF TypeOK
  <1>3. \A c \in Calls : CallOK(c)' /\ InSession(c)' /\ CreatorOK(c)' /\ OwnerOK(c)'
    BY <1>1, <1>i DEF CallOK, InSession, CreatorOK, Creating, OwnerOK, Deleted
  <1>4. StoredOK' /\ RegisteredWhole' /\ OneRowPerEmail' /\ OneHolder' /\ QuietOK'
    BY <1>1, <1>i DEF StoredOK, RegisteredWhole, OneRowPerEmail, OneHolder, Spent, At, QuietOK, Exchanging
  <1> QED
    BY <1>2, <1>3, <1>4 DEF IInv

\* Nothing happens.
LEMMA StutterInv == ASSUME IInv, UNCHANGED vars PROVE IInv'
  <1>1. UNCHANGED <<account, rows, expired, call, stored, kept, ended, overtaken>>
    BY DEF vars
  <1>i. TypeOK /\ StoredOK /\ OneHolder /\ QuietOK /\ RegisteredWhole /\ OneRowPerEmail
        /\ \A c \in Calls : CallOK(c) /\ InSession(c) /\ CreatorOK(c) /\ OwnerOK(c)
    BY DEF IInv
  <1>2. TypeOK'
    BY <1>1, <1>i DEF TypeOK
  <1>3. \A c \in Calls : CallOK(c)' /\ InSession(c)' /\ CreatorOK(c)' /\ OwnerOK(c)'
    BY <1>1, <1>i DEF CallOK, InSession, CreatorOK, Creating, OwnerOK, Deleted
  <1>4. StoredOK' /\ RegisteredWhole' /\ OneRowPerEmail' /\ OneHolder' /\ QuietOK'
    BY <1>1, <1>i DEF StoredOK, RegisteredWhole, OneRowPerEmail, OneHolder, Spent, At, QuietOK, Exchanging
  <1> QED
    BY <1>2, <1>3, <1>4 DEF IInv

-----------------------------------------------------------------------------
\* A deleted account stays deleted, and is not absent.
LEMMA DeleteUserInv == ASSUME IInv, NEW u \in Users, DeleteUser(u) PROVE IInv'
  <1>1. /\ account[u] = "live" /\ account' = [account EXCEPT ![u] = "deleted"]
        /\ UNCHANGED <<expired, rows, call, stored, kept, ended, overtaken>>
    BY DEF DeleteUser, history
  <1>i. TypeOK /\ StoredOK /\ OneHolder /\ QuietOK /\ RegisteredWhole /\ OneRowPerEmail
        /\ \A c \in Calls : CallOK(c) /\ InSession(c) /\ CreatorOK(c) /\ OwnerOK(c)
    BY DEF IInv
  <1>a. account \in [Users -> {"absent", "pending", "live", "deleted"}]
    BY <1>i DEF TypeOK
  <1>b. /\ account'[u] = "deleted" /\ \A v \in Users \ {u} : account'[v] = account[v]
        /\ account' \in [Users -> {"absent", "pending", "live", "deleted"}]
    BY <1>1, <1>a
  <1>2. TypeOK'
    BY <1>1, <1>i, <1>b DEF TypeOK
  <1>3. ASSUME NEW c \in Calls PROVE CallOK(c)' /\ InSession(c)' /\ CreatorOK(c)' /\ OwnerOK(c)'
    <2>1. Deleted \subseteq Deleted'
      BY <1>b DEF Deleted
    <2>2. CallOK(c)' /\ InSession(c)'
      BY <1>1, <1>i DEF CallOK, InSession
    <2>3. Creating(c) => call[c].user \in Users
      BY <1>i DEF CallOK, Creating
    <2>4. CreatorOK(c)'
      BY <1>1, <1>i, <1>b, <2>3 DEF CreatorOK, Creating
    <2>5. OwnerOK(c)'
      BY <1>1, <1>i, <2>1 DEF OwnerOK
    <2> QED
      BY <2>2, <2>4, <2>5
  <1>4. OneRowPerEmail'
    BY <1>1, <1>i, <1>b DEF OneRowPerEmail, SameEmail
  <1>5. RegisteredWhole'
    <2>1. \A c \in Calls : call[c].op = "register" => call[c].user \in Users
      BY <1>i DEF CallOK
    <2> QED
      BY <2>1, <1>1, <1>i, <1>b DEF RegisteredWhole
  <1>6. StoredOK' /\ OneHolder' /\ QuietOK'
    BY <1>1, <1>i DEF StoredOK, OneHolder, Spent, At, QuietOK, Exchanging
  <1> QED
    BY <1>2, <1>3, <1>4, <1>5, <1>6 DEF IInv

\* What a creating request does to the row it creates: nobody else creates it.
LEMMA CreateStep ==
    ASSUME IInv, NEW c \in Calls, Creating(c),
           NEW at \in {"inserted", "full"} \cup Over, GoOn(c, at), call[c].at \notin Over,
           NEW a \in {"absent", "pending", "live"},
           account' = [account EXCEPT ![call[c].user] = a],
           UNCHANGED <<expired, kept, ended, overtaken>>,
           call[c].op = "create" => at \in Over,
           a = "pending" <=> at \in {"inserted", "full"},
           a # "absent" => \A v \in SameEmail(call[c].user) : account[v] = "absent",
           call[c].op = "register" /\ a = "live" => rows' = rows \cup {c} /\ stored' = stored \cup {c},
           ~(call[c].op = "register" /\ a = "live") => rows' = rows /\ stored' = stored
    PROVE  IInv'
  <1> DEFINE u == call[c].user
  <1>f. /\ call' \in [Calls -> CallRecords] /\ \A e \in Calls \ {c} : call'[e] = call[e]
        /\ call'[c].at = at /\ call'[c].op = call[c].op /\ call'[c].user = u
        /\ call'[c].session = call[c].session /\ call'[c].goneBefore = call[c].goneBefore
    BY GoOnFacts
  <1>i. TypeOK /\ StoredOK /\ OneHolder /\ QuietOK /\ RegisteredWhole /\ OneRowPerEmail
        /\ \A d \in Calls : CallOK(d) /\ InSession(d) /\ CreatorOK(d) /\ OwnerOK(d)
    BY DEF IInv
  <1>1. /\ u \in Users /\ call[c].op \in {"register", "create"} /\ call[c].session = c
        /\ account[u] \in {"absent", "pending"}
    BY <1>i DEF CallOK, Creating, InSession, CreatorOK, Over
  <1>a. account \in [Users -> {"absent", "pending", "live", "deleted"}]
    BY <1>i DEF TypeOK
  <1>b. /\ account'[u] = a /\ \A v \in Users \ {u} : account'[v] = account[v]
        /\ account' \in [Users -> {"absent", "pending", "live", "deleted"}]
    BY <1>1, <1>a
  <1>2. /\ rows \subseteq stored /\ stored \subseteq Calls /\ ended \subseteq Calls
        /\ c \notin stored /\ c \notin ended
    BY <1>i DEF TypeOK, StoredOK, QuietOK
  <1>s. /\ rows' \subseteq rows \cup {c} /\ stored' \subseteq stored \cup {c} /\ rows' \subseteq stored'
        /\ stored \subseteq stored'
        /\ c \in stored' => call[c].op = "register" /\ a = "live"
    BY <1>2
  <1>3. \A d \in Calls : CallOK(d)' /\ InSession(d)'
    BY <1>1, GoOnCalls
  <1>4. \A d \in Calls : Creating(d) /\ call[d].user = u => d = c
    BY <1>i DEF CreatorOK
  <1>5. ASSUME NEW d \in Calls PROVE CreatorOK(d)' /\ OwnerOK(d)'
    <2>1. Deleted' = Deleted
      BY <1>1, <1>b DEF Deleted
    <2>2. CASE d = c
      <3>1. CreatorOK(d)'
        BY <2>2, <1>1, <1>4, <1>f, <1>b DEF CreatorOK, Creating, Over
      <3>2. OwnerOK(d)'
        BY <2>1, <2>2, <1>1, <1>f, <1>i DEF OwnerOK
      <3> QED
        BY <3>1, <3>2
    <2>3. CASE d # c
      <3>1. Creating(d) => call[d].user \in Users \ {u}
        BY <2>3, <1>4, <1>i DEF CallOK, Creating
      <3>2. CreatorOK(d)'
        BY <2>3, <3>1, <1>f, <1>b, <1>i DEF CreatorOK, Creating
      <3>3. OwnerOK(d)'
        BY <2>1, <2>3, <1>f, <1>i DEF OwnerOK
      <3> QED
        BY <3>2, <3>3
    <2> QED
      BY <2>2, <2>3
  <1>6. TypeOK'
    <2>1. \A v \in Users : account'[v] = "pending" =>
             \E d \in Calls : call'[d].user = v /\ call'[d].at \in {"inserted", "full"}
      <3> TAKE v \in Users
      <3> HAVE account'[v] = "pending"
      <3>1. CASE v = u
        BY <3>1, <1>b, <1>f
      <3>2. CASE v # u
        <4>1. PICK d \in Calls : call[d].user = v /\ call[d].at \in {"inserted", "full"}
          BY <3>2, <1>b, <1>i DEF TypeOK
        <4> QED
          BY <4>1, <3>2, <1>f
      <3> QED
        BY <3>1, <3>2
    <2>2. stored' \subseteq {d \in Calls : call'[d].user \in Users}
      BY <1>i, <1>s, <1>f, <1>1 DEF TypeOK
    <2>3. expired' \subseteq stored'
      BY <1>i, <1>s DEF TypeOK
    <2>4. kept' \subseteq Calls /\ overtaken' \subseteq ended' /\ ended' \subseteq Calls
      BY <1>i DEF TypeOK
    <2> QED
      BY <2>1, <2>2, <2>3, <2>4, <1>s, <1>b, <1>f DEF TypeOK
  <1>7. StoredOK'
    <2>1. \A d \in stored' : d # c => d \in stored /\ call'[d] = call[d]
      BY <1>s, <1>f, <1>2
    <2>2. c \in stored' => call'[c].at \in Over /\ call'[c].op = "register"
      BY <1>s, <1>f
    <2> QED
      BY <2>1, <2>2, <1>i DEF StoredOK
  <1>8. OneRowPerEmail'
    <2> SUFFICES ASSUME NEW v \in Users, NEW w \in SameEmail(v), account'[v] # "absent"
                 PROVE  account'[w] = "absent"
      BY DEF OneRowPerEmail
    <2>1. w \in Users /\ w # v /\ v \in SameEmail(w)
      BY DEF SameEmail
    <2>2. CASE v = u
      BY <2>1, <2>2, <1>b
    <2>3. CASE w = u
      BY <2>1, <2>3, <1>b
    <2>4. CASE v # u /\ w # u
      BY <2>1, <2>4, <1>b, <1>i DEF OneRowPerEmail
    <2> QED
      BY <2>2, <2>3, <2>4
  <1>9. RegisteredWhole'
    <2> SUFFICES ASSUME NEW d \in Calls, call'[d].op = "register"
                 PROVE  d \in stored' <=> account'[call'[d].user] \in {"live", "deleted"}
      BY DEF RegisteredWhole
    <2>1. CASE d = c
      BY <2>1, <1>f, <1>b, <1>2
    <2>2. CASE d # c
      <3>1. call'[d] = call[d] /\ call[d].op = "register" /\ call[d].user \in Users \ {u}
        BY <2>2, <1>f, <1>4, <1>i DEF CallOK, Creating
      <3> QED
        BY <3>1, <2>2, <1>b, <1>s, <1>i DEF RegisteredWhole
    <2> QED
      BY <2>1, <2>2
  <1>10. Spent' = Spent /\ Exchanging' = Exchanging /\ c \notin Spent
    BY <1>f, <1>1 DEF Spent, At, Exchanging, Over
  <1>11. \A d \in Calls : call'[d].session = call[d].session
    BY <1>f
  \* Nobody else is in the session of a request that is not over.
  <1>12. \A d \in rows \cup Exchanging \cup Spent : d \in Calls /\ call[d].session # c
    <2> TAKE d \in rows \cup Exchanging \cup Spent
    <2>1. d \in Calls /\ d # c
      BY <1>1, <1>2 DEF Exchanging, Spent, At
    <2>2. call[d].op \in {"login", "refresh", "register"}
      BY <1>2, <1>i DEF StoredOK, Exchanging, Spent, At
    <2> QED
      BY <2>1, <2>2, <1>i DEF InSession, Over
  <1>13. OneHolder'
    BY <1>1, <1>10, <1>11, <1>12, <1>s, <1>i DEF OneHolder
  <1>14. QuietOK'
    <2>1. \A d \in rows' \cup Exchanging' : call'[d].session \notin ended' \ overtaken'
      BY <1>1, <1>2, <1>10, <1>11, <1>12, <1>s, <1>i DEF QuietOK
    <2>2. \A s \in ended' : call'[s].at \in Over
      BY <1>2, <1>f, <1>i DEF QuietOK
    <2> QED
      BY <2>1, <2>2 DEF QuietOK
  <1> QED
    BY <1>3, <1>5, <1>6, <1>7, <1>8, <1>9, <1>13, <1>14 DEF IInv

\* The row is inserted where no row with its email is there.
LEMMA InsertUserInv == ASSUME IInv, NEW c \in Calls, InsertUser(c) PROVE IInv'
  <1> DEFINE u == call[c].user
             op == call[c].op
  <1>1. /\ op \in {"register", "create"} /\ call[c].at = "checked"
        /\ UNCHANGED <<rows, expired, stored, kept, ended, overtaken>>
    BY DEF InsertUser, history
  <1>2. Creating(c) /\ u \in Users /\ account[u] = "absent"
        /\ account \in [Users -> {"absent", "pending", "live", "deleted"}]
    BY <1>1 DEF Creating, IInv, CallOK, CreatorOK, TypeOK
  <1>3. CASE GoOn(c, "refused") /\ UNCHANGED account
    <2>1. account' = [account EXCEPT ![u] = "absent"]
      BY <1>2, <1>3
    <2> QED
      BY <1>1, <1>2, <1>3, <2>1, CreateStep DEF Over
  <1>4. CASE op = "register" /\ UniqueEmail(u) /\ GoOn(c, "inserted")
             /\ account' = [account EXCEPT ![u] = "pending"]
    BY <1>1, <1>2, <1>4, CreateStep DEF Over, UniqueEmail
  <1>5. CASE op = "create" /\ UniqueEmail(u) /\ (GoOn(c, "answered") \/ GoOn(c, "refused"))
             /\ account' = [account EXCEPT ![u] = "live"]
    <2>1. PICK at \in Over : GoOn(c, at)
      BY <1>5 DEF Over
    <2> QED
      BY <1>1, <1>2, <1>5, <2>1, CreateStep DEF Over, UniqueEmail
  <1> QED
    BY <1>1, <1>3, <1>4, <1>5 DEF InsertUser, InsertedBy

\* A request that holds its transaction: its row is pending, the only one with
\* its email.
LEMMA HoldsRow ==
    ASSUME IInv, NEW c \in Calls, call[c].op = "register", call[c].at \in {"inserted", "full"}
    PROVE  /\ Creating(c) /\ call[c].user \in Users /\ account[call[c].user] = "pending"
           /\ account \in [Users -> {"absent", "pending", "live", "deleted"}]
           /\ \A v \in SameEmail(call[c].user) : account[v] = "absent"
  <1>1. Creating(c) /\ call[c].user \in Users /\ account[call[c].user] = "pending"
    BY DEF IInv, CallOK, CreatorOK, Creating
  <1> QED
    BY <1>1 DEF IInv, TypeOK, OneRowPerEmail

\* A registration that fails after its insert takes the row back.
LEMMA FailedRegistration ==
    ASSUME IInv, NEW c \in Calls, call[c].op = "register", call[c].at \in {"inserted", "full"},
           GoOn(c, "refused"), account' = RolledBack(call[c].user),
           UNCHANGED <<rows, expired, stored, kept, ended, overtaken>>
    PROVE  IInv'
  <1> DEFINE u == call[c].user
  <1>1. /\ Creating(c) /\ u \in Users /\ account[u] = "pending"
        /\ account \in [Users -> {"absent", "pending", "live", "deleted"}]
        /\ \A v \in SameEmail(u) : account[v] = "absent"
    BY HoldsRow
  <1>2. PICK a \in {"absent", "pending", "live"} : a = "absent" /\ account' = [account EXCEPT ![u] = a]
    BY <1>1 DEF RolledBack
  <1>3. PICK at \in {"inserted", "full"} \cup Over : at = "refused" /\ GoOn(c, at)
    BY DEF Over
  <1>4. at \in Over /\ call[c].at \notin Over
    BY <1>3 DEF Over
  <1>5. a = "pending" <=> at \in {"inserted", "full"}
    BY <1>2, <1>3
  <1> QED
    BY <1>1, <1>2, <1>3, <1>4, <1>5, CreateStep

\* The token is added to the transaction, or all is rolled back.
LEMMA RegisterTokenInv == ASSUME IInv, NEW c \in Calls, RegisterToken(c) PROVE IInv'
  <1> DEFINE u == call[c].user
  <1>1. /\ call[c].op = "register" /\ call[c].at = "inserted"
        /\ UNCHANGED <<rows, expired, stored, kept, ended, overtaken>>
    BY DEF RegisterToken, At, history
  <1>2. /\ Creating(c) /\ u \in Users /\ account[u] = "pending"
        /\ account \in [Users -> {"absent", "pending", "live", "deleted"}]
        /\ \A v \in SameEmail(u) : account[v] = "absent"
    BY <1>1, HoldsRow
  <1>3. CASE GoOn(c, "full") /\ UNCHANGED account
    <2>1. account' = [account EXCEPT ![u] = "pending"]
      BY <1>2, <1>3
    <2> QED
      BY <1>1, <1>2, <1>3, <2>1, CreateStep DEF Over
  <1>4. CASE GoOn(c, "refused") /\ account' = RolledBack(u)
    BY <1>1, <1>4, FailedRegistration
  <1> QED
    BY <1>3, <1>4 DEF RegisterToken

\* The account and its token become visible in one step.
LEMMA RegisterCommitInv == ASSUME IInv, NEW c \in Calls, RegisterCommit(c) PROVE IInv'
  <1> DEFINE u == call[c].user
  <1>1. /\ call[c].op = "register" /\ call[c].at = "full"
        /\ UNCHANGED <<expired, kept, ended, overtaken>>
    BY DEF RegisterCommit, At
  <1>2. /\ Creating(c) /\ u \in Users /\ account[u] = "pending"
        /\ account \in [Users -> {"absent", "pending", "live", "deleted"}]
        /\ \A v \in SameEmail(u) : account[v] = "absent"
    BY <1>1, HoldsRow
  <1>3. CASE /\ account' = [account EXCEPT ![u] = "live"]
             /\ rows' = rows \cup {c} /\ stored' = stored \cup {c}
             /\ GoOn(c, "answered") \/ GoOn(c, "refused")
    <2>1. PICK at \in Over : GoOn(c, at)
      BY <1>3 DEF Over
    <2> QED
      BY <1>1, <1>2, <1>3, <2>1, CreateStep DEF Over
  <1>4. CASE GoOn(c, "refused") /\ account' = RolledBack(u) /\ UNCHANGED <<rows, stored>>
    BY <1>1, <1>4, FailedRegistration
  <1> QED
    BY <1>3, <1>4 DEF RegisterCommit

-----------------------------------------------------------------------------
\* Every step keeps the invariant.
LEMMA NextInv == IInv /\ [Next]_vars => IInv'
  <1> SUFFICES ASSUME IInv, [Next]_vars PROVE IInv'
    OBVIOUS
  <1>1. CASE UNCHANGED vars
    BY <1>1, StutterInv
  <1>2. ASSUME NEW c \in Calls, Continue(c) PROVE IInv'
    <2>1. CASE LoginInsert(c)
      BY <2>1, IssueTokenInv DEF LoginInsert, At
    <2>2. CASE RefreshOwner(c)
      BY <2>2, RefreshOwnerInv
    <2>3. CASE RefreshSpend(c)
      BY <2>3, RefreshSpendInv
    <2>4. CASE RefreshInsert(c)
      BY <2>4, IssueTokenInv DEF RefreshInsert, At
    <2>5. CASE InsertUser(c)
      BY <2>5, InsertUserInv
    <2>6. CASE RegisterToken(c)
      BY <2>6, RegisterTokenInv
    <2>7. CASE RegisterCommit(c)
      BY <2>7, RegisterCommitInv
    <2> QED
      BY <1>2, <2>1, <2>2, <2>3, <2>4, <2>5, <2>6, <2>7 DEF Continue
  <1>3. ASSUME NEW c \in Calls, NEW u \in Users, LoginLookup(c, u) PROVE IInv'
    BY <1>3, LoginLookupInv
  <1>4. ASSUME NEW c \in Calls, NEW t \in Calls, RefreshLookup(c, t) PROVE IInv'
    BY <1>4, RefreshLookupInv
  <1>5. ASSUME NEW c \in Calls, NEW op \in {"register", "create"}, NEW u \in Users, CheckEmail(c, op, u)
        PROVE  IInv'
    BY <1>5, CheckEmailInv
  <1>6. ASSUME NEW u \in Users, Logout(u) PROVE IInv'
    BY <1>6, LogoutInv
  <1>7. ASSUME NEW u \in Users, DeleteUser(u) PROVE IInv'
    BY <1>7, DeleteUserInv
  <1>8. ASSUME NEW t \in Calls, Expire(t) PROVE IInv'
    BY <1>8, ExpireInv
  <1> QED
    BY <1>1, <1>2, <1>3, <1>4, <1>5, <1>6, <1>7, <1>8 DEF Next

\* What is checked of the accounts follows from the invariant.
LEMMA AccountsFollow == IInv => TypeOK /\ OneAccountPerEmail /\ RegisteredWhole
  BY DEF IInv, OneRowPerEmail, OneAccountPerEmail, SameEmail

\* What is checked of the sessions follows from the invariant.
LEMMA SessionsFollow == IInv => NoTokenAfterDeletion /\ OneTokenPerSession /\ LogoutEndsQuietSessions
  <1> SUFFICES ASSUME IInv PROVE NoTokenAfterDeletion /\ OneTokenPerSession /\ LogoutEndsQuietSessions
    OBVIOUS
  <1>1. NoTokenAfterDeletion
    BY DEF IInv, OwnerOK, NoTokenAfterDeletion, Given
  <1>2. OneTokenPerSession
    BY DEF IInv, OneHolder, Spent, OneTokenPerSession
  <1>3. LogoutEndsQuietSessions
    BY DEF IInv, QuietOK, LogoutEndsQuietSessions
  <1> QED
    BY <1>1, <1>2, <1>3

\* The invariant always holds.
LEMMA AlwaysInv == Spec => []IInv
  BY InitInv, NextInv, PTL DEF Spec

\* Every variable has its type, a row is one that was stored, and a pending
\* account belongs to a request that holds its transaction (the tables and the
\* steps of Login, RefreshToken and Register).
THEOREM SessionsTypeCorrect == Spec => []TypeOK
  BY AlwaysInv, AccountsFollow, PTL

\* The check for the email comes before the insert, and yet no two accounts
\* with one email are ever live: the UNIQUE constraint of users decides.
THEOREM EmailsStayUnique == Spec => []OneAccountPerEmail
  BY AlwaysInv, AccountsFollow, PTL

\* Register's transaction: the account is there exactly if its token was
\* stored, whichever statement failed and whatever answer was lost.
THEOREM RegistrationsAreWhole == Spec => []RegisteredWhole
  BY AlwaysInv, AccountsFollow, PTL

\* RefreshToken looks its owner up: no request gets a token for an account
\* that had been deleted before it began.
THEOREM DeletedUsersGetNoTokens == Spec => []NoTokenAfterDeletion
  BY AlwaysInv, SessionsFollow, PTL

\* Where every exchange removed the token it was given, a session has one
\* token, or one exchange that is about to store it (the order of RefreshToken).
THEOREM SessionsHaveOneToken == Spec => []OneTokenPerSession
  BY AlwaysInv, SessionsFollow, PTL

\* Logout deletes every row of the user: a session without an exchange under
\* way never has a token again.
THEOREM LogoutsEndQuietSessions == Spec => []LogoutEndsQuietSessions
  BY AlwaysInv, SessionsFollow, PTL
=============================================================================
