----------------------------- MODULE Thresholds -----------------------------
(***************************************************************************)
(* Thresholds and the message on "aether.threshold.updated" that follows   *)
(* each change, so that whoever evaluates telemetry can read the           *)
(* thresholds of the device again.  The statement commits first, then the  *)
(* message is handed to the NATS client, whose flusher sends it: the       *)
(* server may die in between, the answer of the database may be lost, the  *)
(* client may be missing, refuse, lose its connection with what it had     *)
(* written, or give up reconnecting; none of these is tried again.         *)
(*                                                                         *)
(* A message names only the device, so messages about one device are       *)
(* alike.  Contents of thresholds are left out: what concurrent PATCHes do *)
(* to the columns of a row is the subject of Catalogue.                    *)
(***************************************************************************)
EXTENDS FiniteSets

CONSTANTS Rows,       \* guids of thresholds
          Devices,
          DeviceOf,   \* the device of each threshold; no request changes it
          Requests,
          None

ASSUME ThresholdAssumption == DeviceOf \in [Rows -> Devices] /\ None \notin Rows

VARIABLES
    state,    \* state of each row: "absent", "live" or "deleted"
    req,      \* the requests under way
    nats,     \* connection of the NATS client: "up", "down" (it reconnects) or
              \* "closed": it gave up, or nats.Connect failed and nc is nil
    outbox,   \* devices with a message in the buffer of the NATS client
    owed,     \* history: devices changed since the last message about them
    missed    \* history: those of them whose message a failure has taken

vars == <<state, req, nats, outbox, owed, missed>>

AfterConnect == {"up", "closed"}

Idle == [op |-> "none", at |-> "idle", row |-> None, answer |-> 0]

Init ==
    /\ state = [r \in Rows |-> "absent"]
    /\ req = [c \in Requests |-> Idle]
    /\ nats \in AfterConnect
    /\ outbox = {}
    /\ owed = {}
    /\ missed = {}

At(c, op, at) == req[c].op = op /\ req[c].at = at
DeviceIn(c) == DeviceOf[req[c].row]

GoOn(c, at) == req' = [req EXCEPT ![c].at = at]

Answer(c, code) == req' = [req EXCEPT ![c].at = "answered", ![c].answer = code]

\* The guid of a new row is made for it; other requests name one that was made.
Request(c, op, r) ==
    /\ req[c].at = "idle"
    /\ IF op = "create"
       THEN state[r] = "absent" /\ \A d \in Requests : ~(req[d].op = op /\ req[d].row = r)
       ELSE state[r] # "absent"
    /\ req' = [req EXCEPT ![c] = [op |-> op, at |-> "begun", row |-> r, answer |-> 0]]
    /\ UNCHANGED <<state, nats, outbox, owed, missed>>

Finish(c) ==
    /\ req[c].at = "answered"
    /\ req' = [req EXCEPT ![c] = Idle]
    /\ UNCHANGED <<state, nats, outbox, owed, missed>>

-----------------------------------------------------------------------------
(* Statements *)

\* Fault: a deletion is answered without a message.
NextAfterUnlessDeleted(op) == IF op = "delete" THEN "answered" ELSE "stored"

\* The service publishes after every statement that succeeded.
NextAfter(op) == "stored"

\* The statement finds its row and commits.  The message that is to follow
\* makes up for earlier ones; when the answer of the database is lost the
\* service returns the error and publishes nothing.
Commit(c, new) ==
    /\ state' = [state EXCEPT ![req[c].row] = new]
    /\ owed' = owed \cup {DeviceIn(c)}
    /\ \/ GoOn(c, NextAfter(req[c].op)) /\ missed' = missed \ {DeviceIn(c)}
       \/ Answer(c, 500) /\ missed' = missed \cup {DeviceIn(c)}
    /\ UNCHANGED <<nats, outbox>>

Rejected(c) == Answer(c, 500) /\ UNCHANGED <<state, nats, outbox, owed, missed>>

CreateThreshold(c) ==
    /\ At(c, "create", "begun")
    /\ Commit(c, "live") \/ Rejected(c)

\* GetByGUID: the whole of a GET, and the first step of a PATCH and a DELETE.
\* Its not-found error is the one the handler knows.
GetThreshold(c) ==
    /\ req[c].at = "begun" /\ req[c].op # "create"
    /\ \/ /\ state[req[c].row] = "live"
          /\ IF req[c].op = "get" THEN Answer(c, 200) ELSE GoOn(c, "found")
       \/ state[req[c].row] # "live" /\ Answer(c, 404)
       \/ Answer(c, 500)
    /\ UNCHANGED <<state, nats, outbox, owed, missed>>

\* Fault: the row is written as it was looked up, deleted_at included.
UpdateWholeRow(c) ==
    /\ At(c, "update", "found")
    /\ Commit(c, "live") \/ Rejected(c)

\* UPDATE ... RETURNING: without a row it is an error, but not the handler's.
UpdateThreshold(c) ==
    /\ At(c, "update", "found")
    /\ (state[req[c].row] = "live" /\ Commit(c, "live")) \/ Rejected(c)

\* This UPDATE does not ask for deleted_at IS NULL: a row deleted since the
\* look-up is deleted once more.
DeleteThreshold(c) ==
    /\ At(c, "delete", "found")
    /\ Commit(c, "deleted") \/ Rejected(c)

-----------------------------------------------------------------------------
(* Messages *)

\* Fault: the message names the threshold.
AboutThreshold(c) == req[c].row

About(c) == DeviceIn(c)

\* The messages about the devices of a set will never be delivered.
Lose(devices) == missed' = missed \cup (owed \cap devices)

\* publishUpdate: without a client, or when Publish returns an error, the message
\* is dropped and the request is answered all the same.  While the connection is
\* down, Publish fills the buffer, until that is full.
PublishUpdate(c) ==
    /\ req[c].at = "stored"
    /\ \/ nats # "closed" /\ outbox' = outbox \cup {About(c)} /\ UNCHANGED missed
       \/ Lose({DeviceIn(c)}) /\ UNCHANGED outbox
    /\ Answer(c, IF req[c].op = "create" THEN 201 ELSE 200)
    /\ UNCHANGED <<state, nats, owed>>

\* The flusher of the NATS client: whoever reads the thresholds now, sees all
\* changes committed so far.
Deliver(d) ==
    /\ nats = "up"
    /\ d \in outbox
    /\ outbox' = outbox \ {d}
    /\ owed' = owed \ {d}
    /\ missed' = missed \ {d}
    /\ UNCHANGED <<state, req, nats>>

\* The connection breaks: what was written to it may not have arrived, what is
\* still in the buffer waits for the next one.
Disconnect ==
    /\ nats = "up"
    /\ nats' = "down"
    /\ \E kept \in SUBSET outbox : outbox' = kept /\ Lose(outbox \ kept)
    /\ UNCHANGED <<state, req, owed>>

Reconnect ==
    /\ nats = "down"
    /\ nats' = "up"
    /\ UNCHANGED <<state, req, outbox, owed, missed>>

\* main passes no options to nats.Connect: after a number of attempts the client
\* closes for good, and its buffer is gone.
GiveUp ==
    /\ nats = "down"
    /\ nats' = "closed"
    /\ outbox' = {}
    /\ Lose(outbox)
    /\ UNCHANGED <<state, req, owed>>

\* What a crash takes with it: messages in the buffer, and those of requests
\* that have not made theirs yet.
Lost == outbox \cup {DeviceIn(c) : c \in {x \in Requests : req[x].at = "stored"}}

\* The server dies and is started again.
Crash ==
    /\ req' = [c \in Requests |-> Idle]
    /\ outbox' = {}
    /\ nats' \in AfterConnect
    /\ Lose(Lost)
    /\ UNCHANGED <<state, owed>>

-----------------------------------------------------------------------------
Continue(c) ==
    \/ CreateThreshold(c) \/ GetThreshold(c) \/ UpdateThreshold(c)
    \/ DeleteThreshold(c) \/ PublishUpdate(c)

Next ==
    \/ \E c \in Requests :
          \/ \E op \in {"create", "get", "update", "delete"}, r \in Rows : Request(c, op, r)
          \/ Continue(c)
          \/ Finish(c)
    \/ \E d \in Devices : Deliver(d)
    \/ Disconnect \/ Reconnect \/ GiveUp
    \/ Crash

Spec == Init /\ [][Next]_vars

\* Handlers run to their end.  The NATS client counts its attempts, so it ends
\* up connected or closed, and each connection begins with the flush of what is
\* pending: a message does not stay in the buffer through connection after
\* connection.  Nothing is assumed of clients, of the NATS server and of crashes.
FairSpec ==
    /\ Spec
    /\ \A c \in Requests : WF_vars(Continue(c))
    /\ \A d \in Devices : SF_vars(Deliver(d))
    /\ WF_vars(Reconnect \/ GiveUp)

-----------------------------------------------------------------------------
(* Properties *)

\* Devices of which a threshold was made.
Concerned == {DeviceOf[r] : r \in {x \in Rows : state[x] # "absent"}}

\* Every variable has its type; there are messages only about devices of which
\* a threshold was made, and only such devices are owed one.
TypeOK ==
    /\ state \in [Rows -> {"absent", "live", "deleted"}]
    /\ req \in [Requests ->
          [op : {"none", "create", "get", "update", "delete"},
           at : {"idle", "begun", "found", "stored", "answered"},
           row : Rows \cup {None}, answer : {0, 200, 201, 404, 500}]]
    /\ nats \in {"up", "down", "closed"}
    /\ outbox \cup owed \subseteq Concerned
    /\ missed \subseteq owed

\* At any moment a committed change has been followed by a message about its
\* device, or one is in the client's buffer or about to be made, or a failure
\* has taken the message: a crash, a lost answer of the database, or the NATS
\* client that is missing, refuses, breaks or gives up.  No path through the
\* service itself forgets it, and no message of another request about the
\* device that went out before the change counts for it.
ChangesAnnounced ==
    \A d \in owed :
        \/ d \in outbox \cup missed
        \/ \E c \in Requests : req[c].at = "stored" /\ DeviceIn(c) = d

\* A deleted threshold stays deleted: a PATCH that has looked it up before does
\* not bring it back, nor does a second DELETE.
DeletedForGood ==
    [][\A r \in Rows : state[r] = "deleted" => state'[r] = "deleted"]_vars

\* Each committed change is told to the outside in the end, unless one of those
\* failures has taken its message: handlers publish before they answer, nothing
\* another request does on the way can make them skip it, and no message waits
\* in the buffer for a client that will not send it.
AnnouncedInTheEnd ==
    \A d \in Devices : d \in owed ~> (d \notin owed \/ d \in missed)
=============================================================================
