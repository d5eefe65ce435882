--------------------------- MODULE CatalogueProofs ---------------------------
(***************************************************************************)
(* For any rows, names, contents, tables and number of requests: types and *)
(* references, uniqueness, soft deletion and lost updates.                 *)
(***************************************************************************)
EXTENDS Catalogue, TLAPS

Keys == Names \cup Rows \cup {None}

\* The rows and what is known of them.
TableOK ==
    /\ kind \in Mixes
    /\ table \in [Rows -> [state : {"absent", "live", "deleted"},
                           key : Keys, note : Notes \cup {None}]]
    /\ \A r \in Rows : Present(r) =>
          table[r].key \in KeysOf(r) /\ table[r].note \in Notes
    /\ asked \in [Rows -> Columns]
    /\ raced \subseteq Rows

\* Points refer to rows of the right tables that are or were there.
ReferencesOK ==
    \A p \in Rows : kind[p] = "point" /\ Present(p) =>
        kind[table[p].key] \in {"device", "location"} /\ Present(table[p].key)

RequestRecords ==
    [op : Ops \cup {"none"},
     at : {"idle", "begun", "read", "checked", "answered"},
     row : Rows \cup {None}, want : Columns, read : Columns,
     saw : {"none", "row", "nothing", "taken", "error"},
     answer : {0, 200, 201, 409, 500}]

\* What a request under way may rely on: the row it is to create is not there
\* yet and its contents are complete; any other request names a row that is or
\* was there, and what it has read and wants fits the columns.
Fits(q) ==
    q.at # "idle" =>
        /\ q.row \in Rows
        /\ q.op = "create" /\ q.at # "answered" =>
              ~Present(q.row) /\ q.want.key \in KeysOf(q.row) /\ q.want.note \in Notes
        /\ q.op # "create" => Present(q.row) /\ q.want.key \in KeysOf(q.row) \cup {None}
        /\ q.op = "update" /\ q.at \in {"read", "checked"} =>
              q.read.key \in KeysOf(q.row) /\ q.read.note \in Notes

\* No two requests create one row.
OneCreator ==
    \A c, d \in Requests :
        c # d /\ req[c].op = "create" /\ req[d].op = "create" => req[c].row # req[d].row

RequestsOK ==
    /\ req \in [Requests -> RequestRecords]
    /\ \A c \in Requests : Fits(req[c])
    /\ OneCreator

Typed == TableOK /\ ReferencesOK /\ RequestsOK

-----------------------------------------------------------------------------
\* The five services boil down to five kinds of statements, each at its place
\* in a request.
LEMMA StatementKinds ==
    ASSUME NEW c \in Requests, Statement(c)
    PROVE  \/ LookUpKey(c)
           \/ req[c].op = "create" /\ req[c].at \in {"begun", "checked"} /\ Insert(c)
           \/ req[c].op \in {"get", "update"} /\ req[c].at = "begun" /\ Read(c)
           \/ req[c].op = "update" /\ req[c].at \in {"read", "checked"} /\ Write(c)
           \/ req[c].op = "delete" /\ req[c].at = "begun" /\ Remove(c)
  BY DEF Statement, At,
         CreateDevice, CreateUser, CreateLocation, CreateInstallationPoint, CreateAPIKey,
         GetDevice, GetUser, GetLocation, GetInstallationPoint, GetAPIKey,
         UpdateDevice, UpdateUser, UpdateLocation, UpdateInstallationPoint, UpdateAPIKey,
         DeleteDevice, DeleteUser, DeleteLocation, DeleteInstallationPoint, DeleteAPIKey,
         Created, Got, Updated, Removed

\* Columns that hold nothing are columns like any others.
LEMMA NothingFacts == Nothing \in Columns /\ Nothing.key = None /\ Nothing.note = None
  BY DEF Nothing, Columns

\* An answered request makes no demands any more.
LEMMA AnswerFacts ==
    ASSUME RequestsOK, NEW c \in Requests, req[c].at # "idle",
           NEW saw \in {"row", "nothing", "taken", "error"},
           NEW code \in {200, 201, 409, 500}, Answer(c, saw, code)
    PROVE  /\ req' \in [Requests -> RequestRecords]
           /\ OneCreator'
           /\ \A d \in Requests \ {c} : req'[d] = req[d]
           /\ req'[c].op = req[c].op /\ req'[c].row = req[c].row
           /\ req'[c].at = "answered" /\ req'[c].want.key = None
           /\ req'[c].saw = saw /\ req'[c].answer = code
  <1>1. /\ req' \in [Requests -> RequestRecords]
        /\ \A d \in Requests \ {c} : req'[d] = req[d]
        /\ req'[c].op = req[c].op /\ req'[c].row = req[c].row
        /\ req'[c].at = "answered" /\ req'[c].want.key = None
        /\ req'[c].saw = saw /\ req'[c].answer = code
    BY NothingFacts DEF RequestsOK, RequestRecords, Answer
  <1>2. OneCreator'
    BY <1>1 DEF RequestsOK, OneCreator
  <1> QED
    BY <1>1, <1>2

\* What one request does fits the others, if rows stay where they are and the
\* only row that appears is the one it creates.
LEMMA OthersFit ==
    ASSUME RequestsOK, NEW c \in Requests,
           req' \in [Requests -> RequestRecords], OneCreator', Fits(req[c])',
           \A d \in Requests \ {c} : req'[d] = req[d],
           kind' = kind,
           \A r \in Rows : Present(r) => Present(r)',
           \A r \in Rows : ~Present(r) /\ Present(r)' => req[c].op = "create" /\ r = req[c].row
    PROVE  RequestsOK'
  <1>1. ASSUME NEW d \in Requests \ {c} PROVE Fits(req[d])'
    <2>1. Fits(req[d]) /\ req'[d] = req[d]
      BY DEF RequestsOK
    <2>2. req[d].op = "create" /\ req[c].op = "create" => req[d].row # req[c].row
      BY DEF RequestsOK, OneCreator
    <2> QED
      BY <2>1, <2>2 DEF Fits, KeysOf
  <1> QED
    BY <1>1 DEF RequestsOK

-----------------------------------------------------------------------------
(* Types and references *)

\* At first no request holds a row, and rows refer to nothing.
LEMMA TypeInit == Init => Typed
  <1> SUFFICES ASSUME Init PROVE Typed
    OBVIOUS
  <1>1. TableOK
    BY NothingFacts DEF Init, TableOK, Keys, Present
  <1>2. ReferencesOK
    BY DEF Init, ReferencesOK, Present
  <1>3. RequestsOK
    <2>1. \A c \in Requests : req[c] = Idle
      BY DEF Init
    <2>2. Idle \in RequestRecords
      BY NothingFacts DEF Idle, RequestRecords
    <2> QED
      BY <2>1, <2>2 DEF Init, RequestsOK, Fits, OneCreator, Idle
  <1> QED
    BY <1>1, <1>2, <1>3 DEF Typed

\* A request arrives: it names a row that is there, or makes one up that no
\* other request creates.
LEMMA RequestTyped ==
    ASSUME Typed, NEW c \in Requests, NEW op \in Ops, NEW r \in Rows,
           NEW key \in KeysOf(r) \cup {None}, NEW note \in Notes \cup {None},
           Request(c, op, r, [key |-> key, note |-> note])
    PROVE  Typed'
  <1> DEFINE want == [key |-> key, note |-> note]
  <1>1. want \in Columns /\ want.key = key /\ want.note = note
    BY DEF Columns, KeysOf
  <1>2. /\ req' \in [Requests -> RequestRecords]
        /\ \A d \in Requests \ {c} : req'[d] = req[d]
        /\ req'[c].op = op /\ req'[c].at = "begun" /\ req'[c].row = r /\ req'[c].want = want
    BY <1>1, NothingFacts DEF Request, Typed, RequestsOK, RequestRecords
  <1>3. OneCreator'
    BY <1>2 DEF Request, Typed, RequestsOK, OneCreator
  <1>4. Fits(req[c])'
    <2>1. op = "create" => ~Present(r) /\ key # None /\ note # None
      BY DEF Request
    <2>2. op # "create" => Present(r)
      BY DEF Request
    <2> QED
      BY <1>1, <1>2, <2>1, <2>2 DEF Request, Fits, Present, KeysOf
  <1>5. RequestsOK'
    BY <1>2, <1>3, <1>4, OthersFit DEF Request, Typed, Present
  <1> QED
    BY <1>5 DEF Request, Typed, TableOK, ReferencesOK, Present, KeysOf

\* An answered request is free to serve anything.
LEMMA FinishTyped == ASSUME Typed, NEW c \in Requests, Finish(c) PROVE Typed'
  <1>1. Idle \in RequestRecords /\ Idle.op = "none" /\ Idle.at = "idle"
    BY NothingFacts DEF Idle, RequestRecords
  <1>2. /\ req' \in [Requests -> RequestRecords]
        /\ \A d \in Requests \ {c} : req'[d] = req[d]
        /\ req'[c] = Idle
    BY <1>1 DEF Finish, Typed, RequestsOK
  <1>3. OneCreator' /\ Fits(req[c])'
    BY <1>1, <1>2 DEF Typed, RequestsOK, OneCreator, Fits
  <1>4. RequestsOK'
    BY <1>2, <1>3, OthersFit DEF Finish, Typed, Present
  <1> QED
    BY <1>4 DEF Finish, Typed, TableOK, ReferencesOK, Present, KeysOf

\* An answer without a change of the tables.
LEMMA AnsweredTyped ==
    ASSUME Typed, NEW c \in Requests, req[c].at # "idle",
           NEW saw \in {"row", "nothing", "taken", "error"},
           NEW code \in {200, 201, 409, 500}, Answer(c, saw, code),
           UNCHANGED <<kind, table, asked, raced>>
    PROVE  Typed'
  <1>1. RequestsOK
    BY DEF Typed
  <1>2. /\ req' \in [Requests -> RequestRecords] /\ OneCreator'
        /\ \A d \in Requests \ {c} : req'[d] = req[d]
        /\ req'[c].op = req[c].op /\ req'[c].row = req[c].row
        /\ req'[c].at = "answered" /\ req'[c].want.key = None
    BY <1>1, AnswerFacts
  <1>3. Fits(req[c])'
    BY <1>1, <1>2 DEF RequestsOK, Fits, Present
  <1>4. RequestsOK'
    BY <1>1, <1>2, <1>3, OthersFit DEF Present
  <1> QED
    BY <1>4 DEF Typed, TableOK, ReferencesOK, Present, KeysOf

\* A look-up by key moves its request on, and keeps the tables.
LEMMA LookUpKeyTyped == ASSUME Typed, NEW c \in Requests, LookUpKey(c) PROVE Typed'
  <1>0. req[c].at # "idle" /\ RequestsOK
    <2>1. NewKey(c)
      BY DEF LookUpKey
    <2> QED
      BY <2>1 DEF NewKey, At, Typed
  <1>1. CASE GoOn(c, "checked")
    <2>1. /\ req' \in [Requests -> RequestRecords]
          /\ \A d \in Requests \ {c} : req'[d] = req[d]
          /\ req'[c].op = req[c].op /\ req'[c].at = "checked" /\ req'[c].row = req[c].row
          /\ req'[c].want = req[c].want /\ req'[c].read = req[c].read
      BY <1>0, <1>1 DEF GoOn, RequestsOK, RequestRecords
    <2>2. OneCreator'
      BY <1>0, <2>1 DEF RequestsOK, OneCreator
    <2>3. /\ req[c].op = "create" => req[c].at # "answered"
          /\ req[c].op = "update" => req[c].at = "read"
      <3>1. NewKey(c)
        BY DEF LookUpKey
      <3> QED
        BY <3>1 DEF NewKey, At
    <2>4. Fits(req[c])'
      BY <1>0, <2>1, <2>3 DEF LookUpKey, RequestsOK, Fits, Present, KeysOf
    <2>5. RequestsOK'
      BY <1>0, <2>1, <2>2, <2>4, OthersFit DEF LookUpKey, Present
    <2> QED
      BY <2>5 DEF LookUpKey, Typed, TableOK, ReferencesOK, Present, KeysOf
  <1>2. CASE Answer(c, "taken", 409)
    BY <1>0, <1>2, AnsweredTyped DEF LookUpKey
  <1>3. CASE Fail(c)
    BY <1>0, <1>3, AnsweredTyped DEF LookUpKey, Fail
  <1> QED
    BY <1>1, <1>2, <1>3 DEF LookUpKey

\* What a PATCH has read is kept in its record.
LEMMA ReadRecord ==
    ASSUME NEW q \in RequestRecords, NEW old \in Columns
    PROVE  LET new == [q EXCEPT !.at = "read", !.read = old] IN
           /\ new \in RequestRecords
           /\ new.op = q.op /\ new.at = "read" /\ new.row = q.row
           /\ new.want = q.want /\ new.read = old
  <1> DEFINE at == [q EXCEPT !.at = "read"]
  <1>1. at \in RequestRecords /\ at.op = q.op /\ at.row = q.row /\ at.want = q.want
        /\ at.at = "read"
    BY DEF RequestRecords
  <1> HIDE DEF at
  <1> DEFINE new == [at EXCEPT !.read = old]
  <1>2. /\ new \in RequestRecords
        /\ new.op = q.op /\ new.at = "read" /\ new.row = q.row
        /\ new.want = q.want /\ new.read = old
    BY <1>1 DEF RequestRecords
  <1> QED
    BY <1>2 DEF at

\* What a request has read is what the row, which is there, held.
LEMMA ReadTyped ==
    ASSUME Typed, NEW c \in Requests, req[c].op \in {"get", "update"}, req[c].at = "begun",
           Read(c)
    PROVE  Typed'
  <1>0. RequestsOK /\ req[c].row \in Rows /\ Fits(req[c])
    BY DEF Typed, RequestsOK, Fits
  <1>1. CASE req[c].op = "update" /\ Live(req[c].row)
             /\ req' = [req EXCEPT ![c].at = "read", ![c].read = Contents(req[c].row)]
    <2>1. /\ Contents(req[c].row) \in Columns
          /\ Contents(req[c].row).key = table[req[c].row].key
          /\ Contents(req[c].row).note = table[req[c].row].note
      BY <1>0 DEF Contents, Columns, Typed, TableOK, Keys
    <2>2. /\ req' \in [Requests -> RequestRecords]
          /\ \A d \in Requests \ {c} : req'[d] = req[d]
          /\ req'[c].op = req[c].op /\ req'[c].at = "read" /\ req'[c].row = req[c].row
          /\ req'[c].want = req[c].want /\ req'[c].read = Contents(req[c].row)
      <3> DEFINE old == Contents(req[c].row)
      <3>1. old \in Columns /\ req[c] \in RequestRecords
        BY <1>0, <2>1 DEF RequestsOK
      <3> HIDE DEF old
      <3>2. req' = [req EXCEPT ![c].at = "read", ![c].read = old]
        BY <1>1 DEF old
      <3>3. req' = [req EXCEPT ![c] = [req[c] EXCEPT !.at = "read", !.read = old]]
        BY <3>2, Zenon
      <3> DEFINE new == [req[c] EXCEPT !.at = "read", !.read = old]
      <3>4. /\ new \in RequestRecords
            /\ new.op = req[c].op /\ new.at = "read" /\ new.row = req[c].row
            /\ new.want = req[c].want /\ new.read = old
        BY <3>1, ReadRecord
      <3> HIDE DEF new
      <3>5. req' = [req EXCEPT ![c] = new]
        BY <3>3 DEF new
      <3>6. req' \in [Requests -> RequestRecords] /\ req'[c] = new
            /\ \A d \in Requests \ {c} : req'[d] = req[d]
        BY <1>0, <3>4, <3>5 DEF RequestsOK
      <3> QED
        BY <3>4, <3>6 DEF old
    <2>3. OneCreator'
      BY <1>0, <2>2 DEF RequestsOK, OneCreator
    <2>4. Present(req[c].row)
      BY <1>1 DEF Live, Present
    <2>5. table[req[c].row].key \in KeysOf(req[c].row) /\ table[req[c].row].note \in Notes
      BY <1>0, <2>4 DEF Typed, TableOK
    <2>6. Fits(req[c])'
      BY <1>0, <1>1, <2>1, <2>2, <2>4, <2>5 DEF Read, Fits, Present, KeysOf
    <2>7. RequestsOK'
      BY <1>0, <2>2, <2>3, <2>6, OthersFit DEF Read, Present
    <2> QED
      BY <2>7 DEF Read, Typed, TableOK, ReferencesOK, Present, KeysOf
  <1>2. CASE \E saw \in {"row", "nothing", "error"}, code \in {200, 500} : Answer(c, saw, code)
    BY <1>2, AnsweredTyped DEF Read
  <1> QED
    BY <1>1, <1>2 DEF Read, Fail

\* The row that an INSERT makes is complete and refers to one that is there.
LEMMA InsertTyped ==
    ASSUME Typed, NEW c \in Requests, req[c].op = "create",
           req[c].at \in {"begun", "checked"}, Insert(c)
    PROVE  Typed'
  <1> DEFINE r == req[c].row
             new == req[c].want
  <1>0. /\ RequestsOK /\ r \in Rows /\ ~Present(r) /\ new \in Columns
        /\ new.key \in KeysOf(r) /\ new.note \in Notes
    BY DEF Typed, RequestsOK, RequestRecords, Fits
  <1>1. CASE Fail(c) /\ UNCHANGED <<table, asked>>
    BY <1>1, AnsweredTyped DEF Insert, Fail
  <1>2. CASE /\ UniqueKey(r, new.key) /\ ForeignKey(r, new.key)
             /\ table' = [table EXCEPT ![r] =
                   [state |-> "live", key |-> new.key, note |-> new.note]]
             /\ asked' = [asked EXCEPT ![r] = new]
             /\ Answer(c, "row", 201) \/ Fail(c)
    <2>1. \E saw \in {"row", "error"}, code \in {201, 500} : Answer(c, saw, code)
      BY <1>2 DEF Fail
    <2>2. /\ req' \in [Requests -> RequestRecords] /\ OneCreator'
          /\ \A d \in Requests \ {c} : req'[d] = req[d]
          /\ req'[c].op = req[c].op /\ req'[c].row = req[c].row
          /\ req'[c].at = "answered" /\ req'[c].want.key = None
      BY <1>0, <2>1, AnswerFacts
    <2>3. kind' = kind /\ raced' = raced
      BY DEF Insert
    <2>4. /\ table' \in [Rows -> [state : {"absent", "live", "deleted"},
                                  key : Keys, note : Notes \cup {None}]]
          /\ table'[r].state = "live" /\ table'[r].key = new.key /\ table'[r].note = new.note
          /\ \A x \in Rows \ {r} : table'[x] = table[x]
      BY <1>0, <1>2 DEF Typed, TableOK, Keys, KeysOf
    <2>5. \A x \in Rows : Present(x)' <=> (x = r \/ Present(x))
      BY <1>0, <2>4 DEF Present
    <2>6. Fits(req[c])'
      BY <1>0, <2>2 DEF Fits
    <2>7. RequestsOK'
      BY <1>0, <2>2, <2>3, <2>5, <2>6, OthersFit
    <2>8. TableOK'
      BY <1>0, <1>2, <2>3, <2>4, <2>5 DEF Typed, TableOK, KeysOf
    <2>9. ReferencesOK'
      <3> SUFFICES ASSUME NEW p \in Rows, kind[p] = "point", Present(p)'
                   PROVE  /\ kind[table'[p].key] \in {"device", "location"}
                          /\ Present(table[p].key)'
        BY <2>3 DEF ReferencesOK
      <3>1. CASE p = r
        <4>1. new.key \in Rows
          BY <1>0, <3>1 DEF KeysOf
        <4> QED
          BY <1>2, <2>4, <2>5, <3>1, <4>1 DEF ForeignKey
      <3>2. CASE p # r
        <4>1. Present(p) /\ table'[p] = table[p]
          BY <2>4, <2>5, <3>2
        <4>2. table[p].key \in Rows
          BY <4>1 DEF Typed, TableOK, KeysOf
        <4> QED
          BY <2>5, <4>1, <4>2 DEF Typed, ReferencesOK
      <3> QED
        BY <3>1, <3>2
    <2> QED
      BY <2>7, <2>8, <2>9 DEF Typed
  <1> QED
    BY <1>1, <1>2 DEF Insert

\* What a PATCH writes is made of what it read and what it asks for.
LEMMA MergedFacts ==
    ASSUME Typed, NEW c \in Requests, req[c].op = "update", req[c].at \in {"read", "checked"}
    PROVE  /\ req[c].row \in Rows /\ Present(req[c].row)
           /\ Merged(req[c].read, req[c].want).key \in KeysOf(req[c].row)
           /\ Merged(req[c].read, req[c].want).note \in Notes
  <1>1. Fits(req[c]) /\ req[c].want \in Columns
    BY DEF Typed, RequestsOK, RequestRecords
  <1>2. req[c].want.note \in Notes \cup {None}
    BY <1>1 DEF Columns
  <1> QED
    BY <1>1, <1>2 DEF Fits, Merged

\* An UPDATE puts columns in place of a live row's, and they fit its table.
LEMMA WriteTyped ==
    ASSUME Typed, NEW c \in Requests, req[c].op = "update",
           req[c].at \in {"read", "checked"}, Write(c)
    PROVE  Typed'
  <1> DEFINE r == req[c].row
             new == Merged(req[c].read, req[c].want)
             wanted == [key |-> IF req[c].want.key = None THEN asked[r].key ELSE req[c].want.key,
                        note |-> IF req[c].want.note = None THEN asked[r].note ELSE req[c].want.note]
  <1>0. /\ RequestsOK /\ r \in Rows /\ Present(r)
        /\ new.key \in KeysOf(r) /\ new.note \in Notes
    BY MergedFacts DEF Typed
  <1>1. CASE Fail(c) /\ UNCHANGED <<table, asked, raced>>
    BY <1>1, AnsweredTyped DEF Write, Fail
  <1>2. CASE Answer(c, "nothing", 200) /\ UNCHANGED <<table, asked, raced>>
    BY <1>2, AnsweredTyped DEF Write
  <1>3. CASE /\ ForeignKey(r, new.key)
             /\ table' = [table EXCEPT ![r].key = new.key, ![r].note = new.note]
             /\ asked' = [asked EXCEPT ![r] = wanted]
             /\ raced' \in {raced, raced \cup {r}}
             /\ Answer(c, "row", 200) \/ Fail(c)
    <2>1. \E saw \in {"row", "error"}, code \in {200, 500} : Answer(c, saw, code)
      BY <1>3 DEF Fail
    <2>2. /\ req' \in [Requests -> RequestRecords] /\ OneCreator'
          /\ \A d \in Requests \ {c} : req'[d] = req[d]
          /\ req'[c].op = req[c].op /\ req'[c].row = req[c].row
          /\ req'[c].at = "answered" /\ req'[c].want.key = None
      BY <1>0, <2>1, AnswerFacts
    <2>3. kind' = kind
      BY DEF Write
    <2>4. /\ table' \in [Rows -> [state : {"absent", "live", "deleted"},
                                  key : Keys, note : Notes \cup {None}]]
          /\ table'[r].state = table[r].state
          /\ table'[r].key = new.key /\ table'[r].note = new.note
          /\ \A x \in Rows \ {r} : table'[x] = table[x]
      <3> HIDE DEF new
      <3> QED
        BY <1>0, <1>3 DEF Typed, TableOK, Keys, KeysOf
    <2>5. \A x \in Rows : Present(x)' <=> Present(x)
      BY <2>4 DEF Present
    <2>6. Fits(req[c])'
      BY <1>0, <2>2, <2>5 DEF Fits
    <2>7. RequestsOK'
      BY <1>0, <2>2, <2>3, <2>5, <2>6, OthersFit
    <2>8. TableOK'
      <3>1. asked[r] \in Columns /\ req[c].want \in Columns
        BY <1>0 DEF Typed, TableOK, RequestsOK, RequestRecords
      <3>2. wanted \in Columns
        BY <3>1 DEF Columns
      <3>3. asked' \in [Rows -> Columns]
        BY <1>0, <1>3, <3>2 DEF Typed, TableOK
      <3>4. raced' \subseteq Rows
        BY <1>0, <1>3 DEF Typed, TableOK
      <3>5. \A x \in Rows : Present(x)' =>
               table'[x].key \in KeysOf(x)' /\ table'[x].note \in Notes
        <4> HIDE DEF new
        <4> QED
          BY <1>0, <2>3, <2>4, <2>5 DEF Typed, TableOK, KeysOf
      <3> QED
        BY <2>3, <2>4, <3>3, <3>4, <3>5 DEF Typed, TableOK
    <2>9. ReferencesOK'
      <3> HIDE DEF new
      <3> SUFFICES ASSUME NEW p \in Rows, kind[p] = "point", Present(p)'
                   PROVE  /\ kind[table'[p].key] \in {"device", "location"}
                          /\ Present(table[p].key)'
        BY <2>3 DEF ReferencesOK
      <3>1. CASE p = r
        <4>1. new.key \in Rows
          BY <1>0, <3>1 DEF KeysOf
        <4> QED
          BY <1>3, <2>4, <2>5, <3>1, <4>1 DEF ForeignKey
      <3>2. CASE p # r
        <4>1. Present(p) /\ table'[p] = table[p]
          BY <2>4, <2>5, <3>2
        <4>2. table[p].key \in Rows
          BY <4>1 DEF Typed, TableOK, KeysOf
        <4> QED
          BY <2>5, <4>1, <4>2 DEF Typed, ReferencesOK
      <3> QED
        BY <3>1, <3>2
    <2> QED
      BY <2>7, <2>8, <2>9 DEF Typed
  <1> QED
    BY <1>1, <1>2, <1>3 DEF Write

\* A DELETE marks or takes away one row, which its request names.
LEMMA RemoveTyped ==
    ASSUME Typed, NEW c \in Requests, req[c].op = "delete", req[c].at = "begun", Remove(c)
    PROVE  Typed'
  <1> DEFINE r == req[c].row
  <1>0. RequestsOK /\ r \in Rows /\ Present(r)
    BY DEF Typed, RequestsOK, Fits
  <1>1. CASE Fail(c) /\ UNCHANGED table
    BY <1>1, AnsweredTyped DEF Remove, Fail
  <1>2. CASE Answer(c, "nothing", 200) /\ UNCHANGED table
    BY <1>2, AnsweredTyped DEF Remove
  <1>3. CASE /\ table' = [table EXCEPT ![r].state = "deleted"]
             /\ Answer(c, "row", 200) \/ Fail(c)
    <2>1. \E saw \in {"row", "error"}, code \in {200, 500} : Answer(c, saw, code)
      BY <1>3 DEF Fail
    <2>2. /\ req' \in [Requests -> RequestRecords] /\ OneCreator'
          /\ \A d \in Requests \ {c} : req'[d] = req[d]
          /\ req'[c].op = req[c].op /\ req'[c].row = req[c].row
          /\ req'[c].at = "answered" /\ req'[c].want.key = None
      BY <1>0, <2>1, AnswerFacts
    <2>3. kind' = kind /\ asked' = asked /\ raced' = raced
      BY DEF Remove
    <2>4. /\ table' \in [Rows -> [state : {"absent", "live", "deleted"},
                                  key : Keys, note : Notes \cup {None}]]
          /\ \A x \in Rows : /\ table'[x].key = table[x].key
                             /\ table'[x].note = table[x].note
                             /\ x # r => table'[x] = table[x]
          /\ table'[r].state = "deleted"
      BY <1>0, <1>3 DEF Typed, TableOK
    <2>5. \A x \in Rows : Present(x)' <=> Present(x)
      BY <1>0, <2>4 DEF Present
    <2>6. Fits(req[c])'
      BY <1>0, <2>2, <2>5 DEF Fits
    <2>7. RequestsOK'
      BY <1>0, <2>2, <2>3, <2>5, <2>6, OthersFit
    <2>8. TableOK'
      BY <2>3, <2>4, <2>5 DEF Typed, TableOK, KeysOf
    <2>9. ReferencesOK'
      <3>1. \A p \in Rows : kind[p] = "point" /\ Present(p) => table[p].key \in Rows
        BY DEF Typed, TableOK, KeysOf
      <3> QED
        BY <2>3, <2>4, <2>5, <3>1 DEF Typed, ReferencesOK
    <2> QED
      BY <2>7, <2>8, <2>9 DEF Typed
  <1> QED
    BY <1>1, <1>2, <1>3 DEF Remove

\* Every step keeps the types, and what each request holds of its row.
LEMMA TypeStep == Typed /\ [Next]_vars => Typed'
  <1> SUFFICES ASSUME Typed, [Next]_vars PROVE Typed'
    OBVIOUS
  <1>1. ASSUME NEW c \in Requests, NEW op \in Ops, NEW r \in Rows,
               NEW key \in KeysOf(r) \cup {None}, NEW note \in Notes \cup {None},
               Request(c, op, r, [key |-> key, note |-> note])
        PROVE  Typed'
    BY <1>1, RequestTyped
  <1>2. ASSUME NEW c \in Requests, Statement(c) PROVE Typed'
    BY <1>2, StatementKinds, LookUpKeyTyped, InsertTyped, ReadTyped, WriteTyped, RemoveTyped
  <1>3. ASSUME NEW c \in Requests, Finish(c) PROVE Typed'
    BY <1>3, FinishTyped
  <1>4. CASE UNCHANGED vars
    BY <1>4 DEF vars, Typed, TableOK, ReferencesOK, RequestsOK, OneCreator, Fits, Present, KeysOf
  <1> QED
    BY <1>1, <1>2, <1>3, <1>4 DEF Next

\* So they hold always, ...
LEMMA AlwaysTyped == Spec => []Typed
  BY TypeInit, TypeStep, PTL DEF Spec

\* ... and with them the type invariant that the run checks.
LEMMA TypedIsTypeOK == Typed => TypeOK
  BY DEF Typed, TableOK, ReferencesOK, RequestsOK, RequestRecords, TypeOK, Keys

\* Every variable has its type and every point refers to a device or location
\* that is or was there, whatever requests race.
THEOREM CatalogueTypeCorrect == Spec => []TypeOK
  BY AlwaysTyped, TypedIsTypeOK, PTL

-----------------------------------------------------------------------------
(* What a step can do to the rows *)

Same == UNCHANGED <<table, asked, raced>>

Inserted(r, new) ==
    /\ ~Present(r)
    /\ UniqueKey(r, new.key)
    /\ table' = [table EXCEPT ![r] = [state |-> "live", key |-> new.key, note |-> new.note]]
    /\ asked' = [asked EXCEPT ![r] = new]
    /\ raced' = raced

Written(r, old, want) ==
    /\ Live(r)
    /\ UniqueKey(r, Merged(old, want).key)
    /\ table' = [table EXCEPT ![r].key = Merged(old, want).key,
                              ![r].note = Merged(old, want).note]
    /\ asked' = [asked EXCEPT ![r] =
          [key |-> IF want.key = None THEN @.key ELSE want.key,
           note |-> IF want.note = None THEN @.note ELSE want.note]]
    /\ raced' = IF Contents(r) = old THEN raced ELSE raced \cup {r}

Deleted(r) ==
    /\ Live(r)
    /\ table' = [table EXCEPT ![r].state = "deleted"]
    /\ UNCHANGED <<asked, raced>>

RowStep ==
    \/ Same
    \/ \E r \in Rows, new \in Columns : Inserted(r, new)
    \/ \E r \in Rows, old \in Columns, want \in Columns : Written(r, old, want)
    \/ \E r \in Rows : Deleted(r)

\* Every step is one of: nothing, an INSERT, an UPDATE, a DELETE of one row.
LEMMA RowSteps == Typed /\ [Next]_vars => RowStep /\ kind' = kind
  <1> SUFFICES ASSUME Typed, [Next]_vars PROVE RowStep /\ kind' = kind
    OBVIOUS
  <1>1. CASE UNCHANGED vars
    BY <1>1 DEF vars, RowStep, Same
  <1>2. ASSUME NEW c \in Requests, NEW op, NEW r, NEW want, Request(c, op, r, want)
        PROVE  RowStep /\ kind' = kind
    BY <1>2 DEF Request, RowStep, Same
  <1>3. ASSUME NEW c \in Requests, Finish(c) PROVE RowStep /\ kind' = kind
    BY <1>3 DEF Finish, RowStep, Same
  <1>4. ASSUME NEW c \in Requests, Statement(c) PROVE RowStep /\ kind' = kind
    <2>0. Fits(req[c]) /\ req[c].want \in Columns /\ req[c].read \in Columns
      BY DEF Typed, RequestsOK, RequestRecords
    <2>1. CASE LookUpKey(c)
      BY <2>1 DEF LookUpKey, RowStep, Same
    <2>2. CASE req[c].op = "create" /\ req[c].at \in {"begun", "checked"} /\ Insert(c)
      <3>1. ~Present(req[c].row) /\ req[c].row \in Rows
        BY <2>0, <2>2 DEF Fits
      <3>2. (Same \/ Inserted(req[c].row, req[c].want)) /\ kind' = kind
        BY <2>2, <3>1 DEF Insert, Inserted, Same
      <3> QED
        BY <2>0, <3>1, <3>2 DEF RowStep
    <2>3. CASE Read(c)
      BY <2>3 DEF Read, RowStep, Same
    <2>4. CASE req[c].op = "update" /\ req[c].at \in {"read", "checked"} /\ Write(c)
      <3>1. req[c].row \in Rows
        BY <2>0, <2>4 DEF Fits
      <3>2. (Same \/ Written(req[c].row, req[c].read, req[c].want)) /\ kind' = kind
        BY <2>4 DEF Write, Written, Writable, Same
      <3> QED
        BY <2>0, <3>1, <3>2 DEF RowStep
    <2>5. CASE req[c].op = "delete" /\ req[c].at = "begun" /\ Remove(c)
      <3>1. req[c].row \in Rows
        BY <2>0, <2>5 DEF Fits
      <3>2. (Same \/ Deleted(req[c].row)) /\ kind' = kind
        BY <2>5 DEF Remove, Deleted, Deletable, Same
      <3> QED
        BY <3>1, <3>2 DEF RowStep
    <2> QED
      BY <1>4, StatementKinds, <2>1, <2>2, <2>3, <2>4, <2>5
  <1> QED
    BY <1>1, <1>2, <1>3, <1>4 DEF Next

-----------------------------------------------------------------------------
(* Uniqueness *)

\* At first no two live rows of a table have one key.
LEMMA UniqueInit == Init => KeysStayUnique
  BY DEF Init, KeysStayUnique, Present, SameTable

\* Each statement keeps keys apart by itself, whatever the look-up before said.
LEMMA UniqueStep ==
    ASSUME Typed, KeysStayUnique, RowStep, kind' = kind
    PROVE  KeysStayUnique'
  <1> SUFFICES ASSUME NEW r \in Rows, NEW x \in Rows, x # r, kind[x] = kind[r],
                      kind[r] \in {"device", "user"}, Present(r)', Present(x)'
               PROVE  table'[r].key # table'[x].key
    BY DEF KeysStayUnique, SameTable, HasUniqueKey
  <1>0. table \in [Rows -> [state : {"absent", "live", "deleted"},
                            key : Keys, note : Notes \cup {None}]]
    BY DEF Typed, TableOK
  <1>1. Present(r) /\ Present(x) => table[r].key # table[x].key
    BY DEF KeysStayUnique, SameTable, HasUniqueKey
  <1>2. ASSUME NEW y \in Rows, NEW key, UniqueKey(y, key),
               table'[y].key = key,
               \A z \in Rows \ {y} : table'[z] = table[z]
        PROVE  table'[r].key # table'[x].key
    <2>1. \A z \in Rows \ {y} : Present(z)' <=> Present(z)
      BY <1>2 DEF Present
    <2>2. CASE y = r
      BY <1>2, <2>1, <2>2 DEF UniqueKey, SameTable, HasUniqueKey
    <2>3. CASE y = x
      BY <1>2, <2>1, <2>3 DEF UniqueKey, SameTable, HasUniqueKey
    <2>4. CASE y # r /\ y # x
      BY <1>1, <1>2, <2>1, <2>4
    <2> QED
      BY <2>2, <2>3, <2>4
  <1>3. CASE Same
    BY <1>1, <1>3 DEF Same, Present
  <1>4. ASSUME NEW y \in Rows, NEW new \in Columns, Inserted(y, new)
        PROVE  table'[r].key # table'[x].key
    <2>1. table'[y].key = new.key /\ \A z \in Rows \ {y} : table'[z] = table[z]
      BY <1>0, <1>4 DEF Inserted
    <2> QED
      BY <1>2, <1>4, <2>1 DEF Inserted
  <1>5. ASSUME NEW y \in Rows, NEW old \in Columns, NEW want \in Columns, Written(y, old, want)
        PROVE  table'[r].key # table'[x].key
    <2> DEFINE new == Merged(old, want)
    <2>1. table' = [table EXCEPT ![y].key = new.key, ![y].note = new.note]
      BY <1>5 DEF Written
    <2>2. UniqueKey(y, new.key)
      BY <1>5 DEF Written
    <2> HIDE DEF new
    <2>3. table'[y].key = new.key /\ \A z \in Rows \ {y} : table'[z] = table[z]
      BY <1>0, <2>1
    <2> QED
      BY <1>2, <2>2, <2>3
  <1>6. ASSUME NEW y \in Rows, Deleted(y) PROVE table'[r].key # table'[x].key
    <2>1. \A z \in Rows : table'[z].key = table[z].key
      BY <1>0, <1>6 DEF Deleted
    <2>2. \A z \in Rows : Present(z)' => Present(z)
      BY <1>0, <1>6 DEF Deleted, Present, Live
    <2> QED
      BY <1>1, <2>1, <2>2
  <1> QED
    BY <1>3, <1>4, <1>5, <1>6 DEF RowStep

\* For any number of requests that all found a serial number or an email
\* free, only one gets it, and nobody gets one of a deleted row.
THEOREM CatalogueKeysStayUnique == Spec => []KeysStayUnique
  <1>1. Typed /\ KeysStayUnique /\ [Next]_vars => KeysStayUnique'
    BY RowSteps, UniqueStep
  <1> QED
    BY UniqueInit, AlwaysTyped, <1>1, PTL DEF Spec

-----------------------------------------------------------------------------
(* Soft deletion *)

\* However late the write of a PATCH comes, it does not touch a deleted row,
\* and no request makes the row again.
THEOREM CatalogueDeletedStaysAsItWas == Spec => DeletedStaysAsItWas
  <1>1. Typed /\ [Next]_vars =>
            [\A r \in Rows : table[r].state = "deleted" => table'[r] = table[r]]_vars
    <2> SUFFICES ASSUME Typed, [Next]_vars, NEW r \in Rows, table[r].state = "deleted"
                 PROVE  table'[r] = table[r]
      OBVIOUS
    <2>1. RowStep /\ table \in [Rows -> [state : {"absent", "live", "deleted"},
                                         key : Keys, note : Notes \cup {None}]]
      BY RowSteps DEF Typed, TableOK
    <2> QED
      BY <2>1 DEF RowStep, Same, Inserted, Written, Deleted, Live, Present
  <1> QED
    BY <1>1, AlwaysTyped, PTL DEF Spec, DeletedStaysAsItWas

-----------------------------------------------------------------------------
(* Lost updates *)

\* At first nothing has been asked of a row, so nothing is undone.
LEMMA UndoneInit == Init => UndoneOnlyByRaces
  BY DEF Init, UndoneOnlyByRaces, Present

\* A write that read what is still there turns the row into what was asked;
\* one that did not is counted as a race.
LEMMA UndoneStep ==
    ASSUME Typed, UndoneOnlyByRaces, RowStep
    PROVE  UndoneOnlyByRaces'
  <1> SUFFICES ASSUME NEW r \in Rows, r \notin raced', Present(r)'
               PROVE  Contents(r)' = asked'[r]
    BY DEF UndoneOnlyByRaces
  <1>0. /\ table \in [Rows -> [state : {"absent", "live", "deleted"},
                               key : Keys, note : Notes \cup {None}]]
        /\ asked \in [Rows -> Columns]
    BY DEF Typed, TableOK
  <1>1. r \notin raced /\ Present(r) => Contents(r) = asked[r]
    BY DEF UndoneOnlyByRaces
  <1>2. CASE Same
    BY <1>1, <1>2 DEF Same, Present, Contents
  <1>3. ASSUME NEW y \in Rows, NEW new \in Columns, Inserted(y, new)
        PROVE  Contents(r)' = asked'[r]
    <2>1. CASE y = r
      <3>1. Contents(r)' = [key |-> new.key, note |-> new.note] /\ asked'[r] = new
        BY <1>0, <1>3, <2>1 DEF Inserted, Contents
      <3> QED
        BY <3>1 DEF Columns
    <2>2. CASE y # r
      BY <1>0, <1>1, <1>3, <2>2 DEF Inserted, Contents, Present
    <2> QED
      BY <2>1, <2>2
  <1>4. ASSUME NEW y \in Rows, NEW old \in Columns, NEW want \in Columns, Written(y, old, want)
        PROVE  Contents(r)' = asked'[r]
    <2>1. CASE y = r
      <3> DEFINE new == Merged(old, want)
      <3>1. Contents(r) = old /\ r \notin raced
        BY <1>4, <2>1 DEF Written
      <3>2. old = asked[r]
        BY <1>1, <1>4, <2>1, <3>1 DEF Written, Live, Present
      <3>3. asked'[r] = new
        BY <1>0, <1>4, <2>1, <3>2 DEF Written, Merged
      <3>4. table' = [table EXCEPT ![r].key = new.key, ![r].note = new.note]
        BY <1>4, <2>1 DEF Written
      <3>5. new = [key |-> new.key, note |-> new.note]
        BY DEF Merged
      <3> HIDE DEF new
      <3>6. Contents(r)' = [key |-> new.key, note |-> new.note]
        BY <1>0, <3>4 DEF Contents
      <3> QED
        BY <3>3, <3>5, <3>6
    <2>2. CASE y # r
      <3>1. table'[r] = table[r] /\ asked'[r] = asked[r] /\ r \notin raced
        BY <1>0, <1>4, <2>2 DEF Written
      <3> QED
        BY <1>1, <3>1 DEF Contents, Present
    <2> QED
      BY <2>1, <2>2
  <1>5. ASSUME NEW y \in Rows, Deleted(y) PROVE Contents(r)' = asked'[r]
    <2>1. table'[r].key = table[r].key /\ table'[r].note = table[r].note /\ asked' = asked
          /\ raced' = raced
      BY <1>0, <1>5 DEF Deleted
    <2>2. Present(r)
      BY <1>0, <1>5 DEF Deleted, Live, Present
    <2> QED
      BY <1>1, <2>1, <2>2 DEF Contents
  <1> QED
    BY <1>2, <1>3, <1>4, <1>5 DEF RowStep

\* Whatever requests race, the contents of a row are what was asked for last,
\* field by field, unless a PATCH wrote back what it had read too early.
THEOREM CatalogueUndoneOnlyByRaces == Spec => []UndoneOnlyByRaces
  <1>1. Typed /\ UndoneOnlyByRaces /\ [Next]_vars => UndoneOnlyByRaces'
    BY RowSteps, UndoneStep
  <1> QED
    BY UndoneInit, AlwaysTyped, <1>1, PTL DEF Spec

=============================================================================
