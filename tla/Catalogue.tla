------------------------------- MODULE Catalogue ------------------------------
(***************************************************************************)
(* Create, get, update and delete of the master data: devices, users,      *)
(* locations, installation points and API keys.  The handlers, services    *)
(* and repositories of the five are alike; they differ in whether a column *)
(* is UNIQUE and looked up before a write (serial number, email) and in    *)
(* whether it refers to another table (installation points).  Requests run *)
(* concurrently, each statement is a step of its own, may fail, and may    *)
(* take effect although its answer is lost.  There are no transactions.    *)
(***************************************************************************)
EXTENDS FiniteSets

CONSTANTS Rows,      \* guids
          Names,     \* serial numbers, emails, names
          Notes,     \* contents of all other columns
          Requests,
          Mixes,     \* which row belongs to which table, to choose from
          None

Kinds == {"device", "user", "location", "apikey", "point"}

ASSUME CatalogueAssumption ==
    /\ Mixes \subseteq [Rows -> Kinds]
    /\ None \notin Rows \cup Names \cup Notes

VARIABLES
    kind,    \* the table each row belongs to
    table,   \* the rows: [state, key, note]
    req,     \* the requests under way
    asked,   \* history: the contents each row was last asked to have
    raced    \* history: rows written by a PATCH that had read other contents

vars == <<kind, table, req, asked, raced>>

Nothing == [key |-> None, note |-> None]

Idle == [op |-> "none", at |-> "idle", row |-> None, want |-> Nothing,
         read |-> Nothing, saw |-> "none", answer |-> 0]

\* What the key column can hold: an installation point has the guid of its
\* device or location there.
KeysOf(r) == IF kind[r] = "point" THEN Rows ELSE Names

Live(r) == table[r].state = "live"
Present(r) == table[r].state # "absent"
Contents(r) == [key |-> table[r].key, note |-> table[r].note]

-----------------------------------------------------------------------------
(* Constraints and WHERE clauses of the schema and the queries *)

SameTable(r) == {x \in Rows \ {r} : kind[x] = kind[r]}

HasUniqueKey(r) == kind[r] \in {"device", "user"}

\* Fault: no UNIQUE constraint.
AnyKey(r, key) == TRUE

\* UNIQUE (serial_number), UNIQUE (email): soft-deleted rows count, too.
UniqueKey(r, key) ==
    HasUniqueKey(r) => \A x \in SameTable(r) : Present(x) => table[x].key # key

\* Fault: no foreign key.
AnyReference(r, key) == TRUE

\* REFERENCES devices(guid), locations(guid): a soft-deleted row will do.
ForeignKey(r, key) ==
    kind[r] = "point" => kind[key] \in {"device", "location"} /\ Present(key)

\* ExistsDeviceBySerialNumber, ExistsUserByEmail: only live rows count.
KeyTaken(r, key) == \E x \in SameTable(r) \cup {r} : Live(x) /\ table[x].key = key

\* Fault: rows are written whether or not they are deleted.
WritableIfPresent(r) == Present(r)

\* WHERE guid = $1 AND deleted_at IS NULL
Writable(r) == Live(r)
Deletable(r) == Live(r)

-----------------------------------------------------------------------------
Init ==
    /\ kind \in Mixes
    /\ table = [r \in Rows |-> [state |-> "absent", key |-> None, note |-> None]]
    /\ req = [c \in Requests |-> Idle]
    /\ asked = [r \in Rows |-> Nothing]
    /\ raced = {}

At(c, op, at) == req[c].op = op /\ req[c].at = at

GoOn(c, at) == req' = [req EXCEPT ![c].at = at]

\* The handler's answer: 201 or 200, 409 for the services' own errors, and 500
\* for everything else.  The repositories return not-found errors of their
\* own, which the handlers do not recognise.
Answer(c, saw, code) ==
    req' = [req EXCEPT ![c] =
        [op |-> @.op, at |-> "answered", row |-> @.row, want |-> Nothing,
         read |-> Nothing, saw |-> saw, answer |-> code]]

Fail(c) == Answer(c, "error", 500)

\* A request arrives.  The guid of a new row is made for it; other requests
\* name a guid that was made (to the statements an unknown one is like that of
\* a deleted row); a PATCH may leave any field out.
Request(c, op, r, want) ==
    /\ req[c].at = "idle"
    /\ op = "create" =>
          /\ ~Present(r)
          /\ \A d \in Requests : ~(req[d].op = "create" /\ req[d].row = r)
          /\ None \notin {want.key, want.note}
    /\ op # "create" => Present(r)
    /\ op \in {"get", "delete"} => want = Nothing
    /\ req' = [req EXCEPT ![c] =
          [op |-> op, at |-> "begun", row |-> r, want |-> want,
           read |-> Nothing, saw |-> "none", answer |-> 0]]
    /\ UNCHANGED <<kind, table, asked, raced>>

\* The worker is free for another request.
Finish(c) ==
    /\ req[c].at = "answered"
    /\ req' = [req EXCEPT ![c] = Idle]
    /\ UNCHANGED <<kind, table, asked, raced>>

-----------------------------------------------------------------------------
(* Statements *)

\* ExistsBySerialNumber, ExistsByEmail.  An update heeds the answer only for a
\* key that differs from the one it read.  (UpdateUser asks for an unchanged
\* email, too, and then makes nothing of the answer.)
NewKey(c) ==
    \/ At(c, "create", "begun")
    \/ At(c, "update", "read") /\ req[c].want.key \notin {None, req[c].read.key}

LookUpKey(c) ==
    LET r == req[c].row IN
    /\ NewKey(c)
    /\ HasUniqueKey(r)
    /\ \/ ~KeyTaken(r, req[c].want.key) /\ GoOn(c, "checked")
       \/ KeyTaken(r, req[c].want.key) /\ Answer(c, "taken", 409)
       \/ Fail(c)
    /\ UNCHANGED <<kind, table, asked, raced>>

Insert(c) ==
    LET r == req[c].row
        new == req[c].want
    IN
    /\ \/ /\ UniqueKey(r, new.key) /\ ForeignKey(r, new.key)
          /\ table' = [table EXCEPT ![r] =
                [state |-> "live", key |-> new.key, note |-> new.note]]
          /\ asked' = [asked EXCEPT ![r] = new]
          /\ Answer(c, "row", 201) \/ Fail(c)
       \/ Fail(c) /\ UNCHANGED <<table, asked>>
    /\ UNCHANGED <<kind, raced>>

\* GetByGUID, the whole of a GET and the first step of a PATCH.
Read(c) ==
    LET r == req[c].row IN
    /\ \/ /\ Live(r)
          /\ IF req[c].op = "get"
             THEN Answer(c, "row", 200)
             ELSE req' = [req EXCEPT ![c].at = "read", ![c].read = Contents(r)]
       \/ ~Live(r) /\ Answer(c, "nothing", 500)
       \/ Fail(c)
    /\ UNCHANGED <<kind, table, asked, raced>>

\* Fault: a field the PATCH leaves out is written as it came.
MergedBlindly(old, want) == want

\* Fields the PATCH names replace those that were read.
Merged(old, want) ==
    [key |-> IF want.key = None THEN old.key ELSE want.key,
     note |-> IF want.note = None THEN old.note ELSE want.note]

\* UPDATE writes every column.  That it finds no row is no error to an :exec
\* query, and the answer is 200.
Write(c) ==
    LET r == req[c].row
        new == Merged(req[c].read, req[c].want)
    IN
    /\ \/ /\ Writable(r)
          /\ UniqueKey(r, new.key) /\ ForeignKey(r, new.key)
          /\ table' = [table EXCEPT ![r].key = new.key, ![r].note = new.note]
          /\ asked' = [asked EXCEPT ![r] =
                [key |-> IF req[c].want.key = None THEN @.key ELSE req[c].want.key,
                 note |-> IF req[c].want.note = None THEN @.note ELSE req[c].want.note]]
          /\ raced' = IF Contents(r) = req[c].read THEN raced ELSE raced \cup {r}
          /\ Answer(c, "row", 200) \/ Fail(c)
       \/ /\ ~Writable(r)
          /\ Answer(c, "nothing", 200)
          /\ UNCHANGED <<table, asked, raced>>
       \/ Fail(c) /\ UNCHANGED <<table, asked, raced>>
    /\ UNCHANGED kind

\* UPDATE ... SET deleted_at; here, too, no row is no error.
Remove(c) ==
    LET r == req[c].row IN
    /\ \/ /\ Deletable(r)
          /\ table' = [table EXCEPT ![r].state = "deleted"]
          /\ Answer(c, "row", 200) \/ Fail(c)
       \/ ~Deletable(r) /\ Answer(c, "nothing", 200) /\ UNCHANGED table
       \/ Fail(c) /\ UNCHANGED table
    /\ UNCHANGED <<kind, asked, raced>>

-----------------------------------------------------------------------------
(* The statements of each service.  Those for devices and users look a new   *)
(* serial number or email up first; those for the others write at once.      *)

InTable(c, k) == req[c].at # "idle" /\ kind[req[c].row] = k

Created(c, k, at) == InTable(c, k) /\ At(c, "create", at) /\ Insert(c)

CreateDevice(c) == Created(c, "device", "checked")
CreateUser(c) == Created(c, "user", "checked")
CreateLocation(c) == Created(c, "location", "begun")
CreateInstallationPoint(c) == Created(c, "point", "begun")
CreateAPIKey(c) == Created(c, "apikey", "begun")

Got(c, k) == InTable(c, k) /\ (At(c, "get", "begun") \/ At(c, "update", "begun")) /\ Read(c)

GetDevice(c) == Got(c, "device")
GetUser(c) == Got(c, "user")
GetLocation(c) == Got(c, "location")
GetInstallationPoint(c) == Got(c, "point")
GetAPIKey(c) == Got(c, "apikey")

Updated(c, k, needsCheck) ==
    /\ InTable(c, k)
    /\ At(c, "update", "checked") \/ (At(c, "update", "read") /\ ~needsCheck)
    /\ Write(c)

UpdateDevice(c) == Updated(c, "device", NewKey(c))
UpdateUser(c) == Updated(c, "user", NewKey(c))
UpdateLocation(c) == Updated(c, "location", FALSE)
UpdateInstallationPoint(c) == Updated(c, "point", FALSE)
UpdateAPIKey(c) == Updated(c, "apikey", FALSE)

Removed(c, k) == InTable(c, k) /\ At(c, "delete", "begun") /\ Remove(c)

DeleteDevice(c) == Removed(c, "device")
DeleteUser(c) == Removed(c, "user")
DeleteLocation(c) == Removed(c, "location")
DeleteInstallationPoint(c) == Removed(c, "point")
DeleteAPIKey(c) == Removed(c, "apikey")

Statement(c) ==
    \/ LookUpKey(c)
    \/ CreateDevice(c) \/ GetDevice(c) \/ UpdateDevice(c) \/ DeleteDevice(c)
    \/ CreateUser(c) \/ GetUser(c) \/ UpdateUser(c) \/ DeleteUser(c)
    \/ CreateLocation(c) \/ GetLocation(c) \/ UpdateLocation(c) \/ DeleteLocation(c)
    \/ CreateInstallationPoint(c) \/ GetInstallationPoint(c)
    \/ UpdateInstallationPoint(c) \/ DeleteInstallationPoint(c)
    \/ CreateAPIKey(c) \/ GetAPIKey(c) \/ UpdateAPIKey(c) \/ DeleteAPIKey(c)

Ops == {"create", "get", "update", "delete"}

Next ==
    \E c \in Requests :
       \/ \E op \in Ops, r \in Rows :
             \E key \in KeysOf(r) \cup {None}, note \in Notes \cup {None} :
                Request(c, op, r, [key |-> key, note |-> note])
       \/ Statement(c)
       \/ Finish(c)

Spec == Init /\ [][Next]_vars

-----------------------------------------------------------------------------
(* Properties *)

Columns == [key : Names \cup Rows \cup {None}, note : Notes \cup {None}]

\* Every variable has its type; a row that is there has all its columns, and
\* a point refers to a device or location that is or was there.
TypeOK ==
    /\ kind \in Mixes
    /\ table \in [Rows -> [state : {"absent", "live", "deleted"},
                           key : Names \cup Rows \cup {None}, note : Notes \cup {None}]]
    /\ \A r \in Rows : Present(r) =>
          table[r].key \in KeysOf(r) /\ table[r].note \in Notes
    /\ \A p \in Rows : kind[p] = "point" /\ Present(p) =>
          kind[table[p].key] \in {"device", "location"} /\ Present(table[p].key)
    /\ req \in [Requests ->
          [op : Ops \cup {"none"},
           at : {"idle", "begun", "read", "checked", "answered"},
           row : Rows \cup {None}, want : Columns, read : Columns,
           saw : {"none", "row", "nothing", "taken", "error"},
           answer : {0, 200, 201, 409, 500}]]
    /\ asked \in [Rows -> Columns]
    /\ raced \subseteq Rows

\* Two devices never have one serial number, nor two users one email: not
\* even when two requests have both found it free, and not after a deletion.
KeysStayUnique ==
    \A r \in Rows : \A x \in SameTable(r) :
        HasUniqueKey(r) /\ Present(r) /\ Present(x) => table[r].key # table[x].key

\* A deleted row keeps its contents and never comes back, although a PATCH may
\* have read it before the deletion and write it afterwards.
DeletedStaysAsItWas ==
    [][\A r \in Rows : table[r].state = "deleted" => table'[r] = table[r]]_vars

\* What a PATCH asks for stays until another one asks for something else; it
\* is undone only by a PATCH that read the row before that and writes back
\* all its columns.
UndoneOnlyByRaces ==
    \A r \in Rows \ raced : Present(r) => Contents(r) = asked[r]

-----------------------------------------------------------------------------
(* What the SRS and the repositories say, and the code does not do *)

\* A PATCH or DELETE of a row that is not there, or has been soft-deleted, is
\* answered with 404, RESOURCE_NOT_FOUND or RESOURCE_DELETED, also when the row
\* goes between the look-up and the statement: the answer is good only if the
\* statement found a row.
MissingIsNotFound ==
    \A c \in Requests :
        req[c].op \in {"update", "delete"} /\ req[c].answer = 200 => req[c].saw = "row"
=============================================================================
