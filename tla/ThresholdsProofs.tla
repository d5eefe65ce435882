-------------------------- MODULE ThresholdsProofs --------------------------
(***************************************************************************)
(* For any thresholds, devices and requests: types, that messages are only *)
(* about devices of which a threshold was made, that a deleted threshold   *)
(* stays deleted, and that no committed change is forgotten by the service *)
(* itself.                                                                 *)
(***************************************************************************)
EXTENDS Thresholds, TLAPS

\* A request under way names a row.
RequestsNameRows == \A c \in Requests : req[c].at # "idle" => req[c].row \in Rows

\* A request that has found or changed its row works on one that was made.
RowsMade ==
    \A c \in Requests : req[c].at \in {"found", "stored"} => state[req[c].row] # "absent"

Typed == TypeOK /\ RequestsNameRows /\ RowsMade

IInv == Typed /\ ChangesAnnounced

Steps == {"begun", "found", "stored", "answered"}

-----------------------------------------------------------------------------
\* A request that has begun belongs to a device.
LEMMA DeviceFacts ==
    ASSUME Typed, NEW c \in Requests, req[c].at # "idle"
    PROVE  req[c].row \in Rows /\ DeviceIn(c) \in Devices
  BY ThresholdAssumption DEF Typed, RequestsNameRows, DeviceIn

\* Going on with a request or answering it keeps what is known of requests.
LEMMA AdvanceFacts ==
    ASSUME Typed, NEW c \in Requests, req[c].at # "idle",
           \/ \E at \in Steps : GoOn(c, at)
           \/ \E code \in {200, 201, 404, 500} : Answer(c, code)
    PROVE  /\ req' \in [Requests ->
                  [op : {"none", "create", "get", "update", "delete"},
                   at : {"idle"} \cup Steps,
                   row : Rows \cup {None}, answer : {0, 200, 201, 404, 500}]]
           /\ RequestsNameRows'
  BY DEF Typed, TypeOK, RequestsNameRows, GoOn, Answer, Steps

\* A request that is answered, or has found its row, leaves the rows made.
LEMMA MadeFacts ==
    ASSUME Typed, NEW c \in Requests, req[c].at # "idle", UNCHANGED state,
           \/ GoOn(c, "found") /\ state[req[c].row] # "absent"
           \/ \E code \in {200, 201, 404, 500} : Answer(c, code)
    PROVE  RowsMade'
  BY DEF Typed, TypeOK, RowsMade, GoOn, Answer

\* The devices with thresholds follow from the states of the rows.
LEMMA ConcernedFacts ==
    /\ UNCHANGED state => Concerned' = Concerned
    /\ \A r \in Rows : state[r] # "absent" => DeviceOf[r] \in Concerned
  BY DEF Concerned

\* At first there are no thresholds, requests or messages.
LEMMA TypeInit == Init => Typed
  BY DEF Init, AfterConnect, Typed, TypeOK, RequestsNameRows, RowsMade, Idle

\* A commit takes a request on, marks its device as owed, and stores a state.
LEMMA CommitTypeOK ==
    ASSUME Typed, NEW c \in Requests, req[c].at # "idle",
           NEW new \in {"live", "deleted"}, Commit(c, new)
    PROVE  Typed'
  <1>1. req[c].row \in Rows /\ DeviceIn(c) \in Devices
    BY DeviceFacts
  <1>2. GoOn(c, "stored") \/ Answer(c, 500)
    BY DEF Commit, NextAfter
  <1>3. /\ req' \in [Requests ->
              [op : {"none", "create", "get", "update", "delete"},
               at : {"idle"} \cup Steps,
               row : Rows \cup {None}, answer : {0, 200, 201, 404, 500}]]
        /\ RequestsNameRows'
    BY <1>2, AdvanceFacts DEF Steps
  <1>4. /\ state' \in [Rows -> {"absent", "live", "deleted"}]
        /\ state'[req[c].row] # "absent"
        /\ \A r \in Rows : state[r] # "absent" => state'[r] # "absent"
    BY <1>1 DEF Commit, Typed, TypeOK
  <1>5. Concerned \cup {DeviceIn(c)} \subseteq Concerned'
    BY <1>1, <1>4 DEF Concerned, DeviceIn
  <1>6. outbox' \cup owed' \subseteq Concerned' /\ missed' \subseteq owed' /\ nats' = nats
    BY <1>5 DEF Commit, Typed, TypeOK
  <1>7. RowsMade'
    <2> SUFFICES ASSUME NEW e \in Requests, req'[e].at \in {"found", "stored"}
                 PROVE  state'[req'[e].row] # "absent"
      BY DEF RowsMade
    <2>1. CASE e = c
      BY <1>2, <1>4, <2>1 DEF GoOn, Answer, Typed, TypeOK
    <2>2. CASE e # c
      <3>1. req'[e] = req[e]
        BY <1>2, <2>2 DEF GoOn, Answer, Typed, TypeOK
      <3>2. state[req[e].row] # "absent" /\ req[e].row \in Rows
        BY <3>1 DEF Typed, RowsMade, RequestsNameRows
      <3> QED
        BY <1>4, <3>1, <3>2
    <2> QED
      BY <2>1, <2>2
  <1> QED
    BY <1>3, <1>4, <1>6, <1>7 DEF Typed, TypeOK, Steps

\* A statement that fails changes nothing but its request.
LEMMA RejectedTypeOK ==
    ASSUME Typed, NEW c \in Requests, req[c].at # "idle", Rejected(c)
    PROVE  Typed'
  <1>1. Answer(c, 500)
    BY DEF Rejected
  <1>2. /\ req' \in [Requests ->
              [op : {"none", "create", "get", "update", "delete"},
               at : {"idle"} \cup Steps,
               row : Rows \cup {None}, answer : {0, 200, 201, 404, 500}]]
        /\ RequestsNameRows'
    BY <1>1, AdvanceFacts
  <1>3. RowsMade'
    BY <1>1, MadeFacts DEF Rejected
  <1> QED
    BY <1>2, <1>3, ConcernedFacts DEF Rejected, Typed, TypeOK, Steps

\* A step of a request under way keeps the types.
LEMMA ContinueTypeOK ==
    ASSUME Typed, NEW c \in Requests, Continue(c)
    PROVE  Typed'
  <1>1. CASE CreateThreshold(c)
    <2>1. req[c].at # "idle"
      BY <1>1 DEF CreateThreshold, At
    <2> QED
      BY <1>1, <2>1, CommitTypeOK, RejectedTypeOK DEF CreateThreshold
  <1>2. CASE GetThreshold(c)
    <2>1. req[c].at # "idle"
      BY <1>2 DEF GetThreshold
    <2>2. GoOn(c, "found") \/ \E code \in {200, 404, 500} : Answer(c, code)
      BY <1>2 DEF GetThreshold
    <2>3. /\ req' \in [Requests ->
                [op : {"none", "create", "get", "update", "delete"},
                 at : {"idle"} \cup Steps,
                 row : Rows \cup {None}, answer : {0, 200, 201, 404, 500}]]
          /\ RequestsNameRows'
      BY <2>1, <2>2, AdvanceFacts DEF Steps
    <2>4. UNCHANGED <<state, nats, outbox, owed, missed>>
      BY <1>2 DEF GetThreshold
    <2>5. RowsMade'
      <3>1. GoOn(c, "found") => state[req[c].row] # "absent"
        BY <1>2 DEF GetThreshold, GoOn, Answer, Typed, TypeOK
      <3> QED
        BY <2>1, <2>2, <2>4, <3>1, MadeFacts
    <2> QED
      BY <2>3, <2>4, <2>5, ConcernedFacts DEF Typed, TypeOK, Steps
  <1>3. CASE UpdateThreshold(c)
    <2>1. req[c].at # "idle"
      BY <1>3 DEF UpdateThreshold, At
    <2> QED
      BY <1>3, <2>1, CommitTypeOK, RejectedTypeOK DEF UpdateThreshold
  <1>4. CASE DeleteThreshold(c)
    <2>1. req[c].at # "idle"
      BY <1>4 DEF DeleteThreshold, At
    <2> QED
      BY <1>4, <2>1, CommitTypeOK, RejectedTypeOK DEF DeleteThreshold
  <1>5. CASE PublishUpdate(c)
    <2>1. req[c].at # "idle"
      BY <1>5 DEF PublishUpdate
    <2>2. DeviceIn(c) \in Concerned
      BY <1>5, <2>1, DeviceFacts, ConcernedFacts DEF PublishUpdate, Typed, RowsMade, DeviceIn
    <2>3. \E code \in {200, 201} : Answer(c, code)
      BY <1>5 DEF PublishUpdate
    <2>4. /\ req' \in [Requests ->
                [op : {"none", "create", "get", "update", "delete"},
                 at : {"idle"} \cup Steps,
                 row : Rows \cup {None}, answer : {0, 200, 201, 404, 500}]]
          /\ RequestsNameRows'
      BY <2>1, <2>3, AdvanceFacts
    <2>5. outbox' \cup owed' \subseteq Concerned /\ missed' \subseteq owed'
      BY <1>5, <2>2 DEF PublishUpdate, About, Lose, Typed, TypeOK
    <2>6. UNCHANGED <<state, nats>>
      BY <1>5 DEF PublishUpdate
    <2>7. RowsMade'
      BY <2>1, <2>3, <2>6, MadeFacts
    <2> QED
      BY <2>4, <2>5, <2>6, <2>7, ConcernedFacts DEF Typed, TypeOK, Steps
  <1> QED
    BY <1>1, <1>2, <1>3, <1>4, <1>5 DEF Continue

\* Every step keeps the types.
LEMMA TypeStep == Typed /\ [Next]_vars => Typed'
  <1> SUFFICES ASSUME Typed, [Next]_vars PROVE Typed'
    OBVIOUS
  <1>1. ASSUME NEW c \in Requests, NEW op \in {"create", "get", "update", "delete"},
               NEW r \in Rows, Request(c, op, r)
        PROVE  Typed'
    <2>1. /\ req' \in [Requests ->
                [op : {"none", "create", "get", "update", "delete"},
                 at : {"idle", "begun", "found", "stored", "answered"},
                 row : Rows \cup {None}, answer : {0, 200, 201, 404, 500}]]
          /\ RequestsNameRows'
      BY <1>1 DEF Request, Typed, TypeOK, RequestsNameRows
    <2>2. UNCHANGED <<state, nats, outbox, owed, missed>>
      BY <1>1 DEF Request
    <2>3. RowsMade'
      BY <1>1, <2>2 DEF Request, Typed, TypeOK, RowsMade
    <2> QED
      BY <2>1, <2>2, <2>3, ConcernedFacts DEF Typed, TypeOK
  <1>2. ASSUME NEW c \in Requests, Continue(c) PROVE Typed'
    BY <1>2, ContinueTypeOK
  <1>3. ASSUME NEW c \in Requests, Finish(c) PROVE Typed'
    BY <1>3, ConcernedFacts DEF Finish, Typed, TypeOK, RequestsNameRows, RowsMade, Idle
  <1>4. ASSUME UNCHANGED <<state, req>>, nats' \in {"up", "down", "closed"},
               outbox' \subseteq outbox, owed' \subseteq owed, missed' \subseteq owed'
        PROVE  Typed'
    BY <1>4, ConcernedFacts DEF Typed, TypeOK, RequestsNameRows, RowsMade
  <1>5. ASSUME NEW d \in Devices, Deliver(d) PROVE Typed'
    <2>1. nats' \in {"up", "down", "closed"} /\ missed' \subseteq owed'
      BY <1>5 DEF Deliver, Typed, TypeOK
    <2> QED
      BY <1>4, <1>5, <2>1 DEF Deliver
  <1>6. CASE Disconnect
    <2>1. missed' \subseteq owed'
      BY <1>6 DEF Disconnect, Lose, Typed, TypeOK
    <2> QED
      BY <1>4, <1>6, <2>1 DEF Disconnect
  <1>7. CASE Reconnect
    BY <1>4, <1>7 DEF Reconnect, Typed, TypeOK
  <1>8. CASE GiveUp
    <2>1. missed' \subseteq owed'
      BY <1>8 DEF GiveUp, Lose, Typed, TypeOK
    <2> QED
      BY <1>4, <1>8, <2>1 DEF GiveUp
  <1>9. CASE Crash
    <2>1. req' \in [Requests ->
              [op : {"none", "create", "get", "update", "delete"},
               at : {"idle", "begun", "found", "stored", "answered"},
               row : Rows \cup {None}, answer : {0, 200, 201, 404, 500}]]
      BY <1>9 DEF Crash, Idle
    <2>2. RequestsNameRows' /\ RowsMade'
      BY <1>9 DEF Crash, Idle, RequestsNameRows, RowsMade
    <2>3. missed' \subseteq owed'
      BY <1>9 DEF Crash, Lose, Typed, TypeOK
    <2> QED
      BY <1>9, <2>1, <2>2, <2>3, ConcernedFacts DEF Crash, AfterConnect, Typed, TypeOK
  <1>10. CASE UNCHANGED vars
    BY <1>10, ConcernedFacts DEF vars, Typed, TypeOK, RequestsNameRows, RowsMade
  <1> QED
    BY <1>1, <1>2, <1>3, <1>5, <1>6, <1>7, <1>8, <1>9, <1>10 DEF Next

\* Types and what is known of requests always hold.
LEMMA AlwaysTyped == Spec => []Typed
  BY TypeInit, TypeStep, PTL DEF Spec

\* Every variable has its type, and messages are only about devices of which a
\* threshold was made, whatever requests, failures and crashes come.
THEOREM ThresholdsTypeCorrect == Spec => []TypeOK
  <1>1. Typed => TypeOK
    BY DEF Typed
  <1> QED
    BY <1>1, AlwaysTyped, PTL

-----------------------------------------------------------------------------
(* Deleted for good *)

\* A POST that has not stored its row yet is the only one for it.
Fresh ==
    \A c \in Requests : req[c].op = "create" =>
        /\ req[c].at = "begun" => state[req[c].row] = "absent"
        /\ \A d \in Requests \ {c} : ~(req[d].op = "create" /\ req[d].row = req[c].row)

\* A step of a request under way changes what the request is at and answers,
\* and no row but, in a commit, its own.
LEMMA ContinueFacts ==
    ASSUME Typed, NEW c \in Requests, Continue(c)
    PROVE  /\ \A e \in Requests : req'[e].op = req[e].op /\ req'[e].row = req[e].row
           /\ \A e \in Requests \ {c} : req'[e] = req[e]
           /\ req'[c].at # "begun"
           /\ \/ UNCHANGED state
              \/ At(c, "create", "begun") /\ Commit(c, "live")
              \/ At(c, "update", "found") /\ state[req[c].row] = "live" /\ Commit(c, "live")
              \/ At(c, "delete", "found") /\ Commit(c, "deleted")
  <1>1. (\E at \in {"found", "stored"} : GoOn(c, at)) \/ \E code \in {200, 201, 404, 500} : Answer(c, code)
    <2>1. \A new : Commit(c, new) => GoOn(c, "stored") \/ Answer(c, 500)
      BY DEF Commit, NextAfter
    <2> QED
      BY <2>1 DEF Continue, CreateThreshold, GetThreshold, UpdateThreshold, DeleteThreshold,
                  PublishUpdate, Rejected
  <1>2. /\ \A e \in Requests : req'[e].op = req[e].op /\ req'[e].row = req[e].row
        /\ \A e \in Requests \ {c} : req'[e] = req[e]
        /\ req'[c].at # "begun"
    BY <1>1 DEF GoOn, Answer, Typed, TypeOK
  <1>3. \/ UNCHANGED state
        \/ At(c, "create", "begun") /\ Commit(c, "live")
        \/ At(c, "update", "found") /\ state[req[c].row] = "live" /\ Commit(c, "live")
        \/ At(c, "delete", "found") /\ Commit(c, "deleted")
    BY DEF Continue, CreateThreshold, GetThreshold, UpdateThreshold, DeleteThreshold,
           PublishUpdate, Rejected
  <1> QED
    BY <1>2, <1>3

\* A guid that a POST brings is new, and stays so until it is stored.
LEMMA FreshStep == Typed /\ Fresh /\ [Next]_vars => Fresh'
  <1> SUFFICES ASSUME Typed, Fresh, [Next]_vars PROVE Fresh'
    OBVIOUS
  <1>1. ASSUME NEW c \in Requests, NEW op \in {"create", "get", "update", "delete"},
               NEW r \in Rows, Request(c, op, r)
        PROVE  Fresh'
    <2>1. /\ req'[c].op = op /\ req'[c].row = r /\ UNCHANGED state
          /\ \A e \in Requests \ {c} : req'[e] = req[e]
      BY <1>1 DEF Request, Typed, TypeOK
    <2>2. op = "create" =>
            state[r] = "absent" /\ \A d \in Requests : ~(req[d].op = "create" /\ req[d].row = r)
      BY <1>1 DEF Request
    <2> QED
      BY <2>1, <2>2 DEF Fresh
  <1>2. ASSUME NEW c \in Requests, Continue(c) PROVE Fresh'
    <2>1. /\ \A e \in Requests : req'[e].op = req[e].op /\ req'[e].row = req[e].row
          /\ \A e \in Requests \ {c} : req'[e] = req[e]
          /\ req'[c].at # "begun"
      BY <1>2, ContinueFacts
    <2>2. ASSUME NEW e \in Requests, req'[e].op = "create", req'[e].at = "begun"
          PROVE  state'[req'[e].row] = "absent"
      <3>1. e # c /\ req[e].op = "create" /\ req[e].at = "begun" /\ req'[e].row = req[e].row
        BY <2>1, <2>2
      <3>2. state[req[e].row] = "absent" /\ req[e].row \in Rows
        BY <3>1 DEF Fresh, Typed, RequestsNameRows
      <3>3. ASSUME NEW new, Commit(c, new), req[c].row # req[e].row
            PROVE  state'[req[e].row] = "absent"
        BY <3>2, <3>3 DEF Commit, Typed, TypeOK
      <3>4. At(c, "create", "begun") => req[c].row # req[e].row
        BY <3>1 DEF Fresh, At
      <3>5. req[c].at = "found" => req[c].row # req[e].row
        BY <3>2 DEF Typed, RowsMade
      <3> QED
        BY <1>2, <3>1, <3>2, <3>3, <3>4, <3>5, ContinueFacts DEF At
    <2> QED
      BY <2>1, <2>2 DEF Fresh
  <1>3. ASSUME NEW c \in Requests, Finish(c) PROVE Fresh'
    BY <1>3 DEF Finish, Idle, Fresh, Typed, TypeOK
  <1>4. ASSUME UNCHANGED <<state, req>> PROVE Fresh'
    BY <1>4 DEF Fresh
  <1>5. CASE Crash
    BY <1>5 DEF Crash, Idle, Fresh
  <1> QED
    BY <1>1, <1>2, <1>3, <1>4, <1>5 DEF Next, Deliver, Disconnect, Reconnect, GiveUp, vars

\* No step takes a row out of "deleted": a POST has a row of its own, and a
\* PATCH commits on a live row only.
LEMMA DeletedStays ==
    Typed /\ Fresh /\ [Next]_vars => \A r \in Rows : state[r] = "deleted" => state'[r] = "deleted"
  <1> SUFFICES ASSUME Typed, Fresh, [Next]_vars, NEW r \in Rows, state[r] = "deleted"
               PROVE  state'[r] = "deleted"
    OBVIOUS
  <1>1. ASSUME NEW c \in Requests, NEW new, Commit(c, new),
               req[c].row # r \/ new = "deleted"
        PROVE  state'[r] = "deleted"
    BY <1>1 DEF Commit, Typed, TypeOK
  <1>2. ASSUME NEW c \in Requests, Continue(c) PROVE state'[r] = "deleted"
    <2>1. At(c, "create", "begun") => req[c].row # r
      BY DEF At, Fresh
    <2>2. state[req[c].row] = "live" => req[c].row # r
      OBVIOUS
    <2> QED
      BY <1>1, <1>2, <2>1, <2>2, ContinueFacts
  <1> QED
    BY <1>2 DEF Next, Request, Finish, Deliver, Disconnect, Reconnect, GiveUp, Crash, vars

\* A deleted threshold stays deleted, whichever PATCHes and DELETEs had looked
\* it up before (UPDATE ... WHERE deleted_at IS NULL).
THEOREM ThresholdsDeletedForGood == Spec => DeletedForGood
  <1>1. Init => Fresh
    BY DEF Init, Idle, Fresh
  <1>2. Typed /\ Fresh /\ [Next]_vars =>
          [\A r \in Rows : state[r] = "deleted" => state'[r] = "deleted"]_vars
    BY DeletedStays
  <1> QED
    BY <1>1, <1>2, FreshStep, AlwaysTyped, PTL DEF Spec, DeletedForGood

-----------------------------------------------------------------------------
(* No change is forgotten *)

\* A step of one request that had no message to make leaves the messages that
\* others will make, and so everything that was announced.
LEMMA OthersStillAnnounce ==
    ASSUME Typed, ChangesAnnounced, NEW c \in Requests, req[c].at # "stored",
           \A e \in Requests \ {c} : req'[e] = req[e],
           UNCHANGED <<outbox, owed, missed>>
    PROVE  ChangesAnnounced'
  <1> SUFFICES ASSUME NEW d \in owed', d \notin (outbox \cup missed)'
               PROVE  \E e \in Requests : req'[e].at = "stored" /\ DeviceIn(e)' = d
    BY DEF ChangesAnnounced
  <1>1. PICK e \in Requests : req[e].at = "stored" /\ DeviceIn(e) = d
    BY DEF ChangesAnnounced
  <1>2. req'[e] = req[e]
    BY <1>1
  <1> QED
    BY <1>1, <1>2 DEF DeviceIn

\* A commit leaves its own message to be made, or counts it as missed.
LEMMA CommitAnnounces ==
    ASSUME Typed, ChangesAnnounced, NEW c \in Requests, req[c].at \notin {"idle", "stored"},
           NEW new, Commit(c, new)
    PROVE  ChangesAnnounced'
  <1> SUFFICES ASSUME NEW d \in owed', d \notin (outbox \cup missed)'
               PROVE  \E e \in Requests : req'[e].at = "stored" /\ DeviceIn(e)' = d
    BY DEF ChangesAnnounced
  <1>1. CASE d = DeviceIn(c)
    <2>1. GoOn(c, "stored")
      BY <1>1 DEF Commit, NextAfter
    <2>2. req'[c].at = "stored" /\ req'[c].row = req[c].row
      BY <2>1 DEF GoOn, Typed, TypeOK
    <2> QED
      BY <1>1, <2>2 DEF DeviceIn
  <1>2. CASE d # DeviceIn(c)
    <2>1. d \in owed /\ d \notin outbox /\ d \notin missed
      BY <1>2 DEF Commit
    <2>2. PICK e \in Requests : req[e].at = "stored" /\ DeviceIn(e) = d
      BY <2>1 DEF ChangesAnnounced
    <2>3. req'[e] = req[e]
      BY <2>2 DEF Commit, GoOn, Answer, Typed, TypeOK
    <2> QED
      BY <2>2, <2>3 DEF DeviceIn
  <1> QED
    BY <1>1, <1>2

\* A step of a request under way forgets no message.
LEMMA ContinueAnnounces ==
    ASSUME Typed, ChangesAnnounced, NEW c \in Requests, Continue(c)
    PROVE  ChangesAnnounced'
  <1>0. ASSUME Rejected(c), req[c].at # "stored" PROVE ChangesAnnounced'
    <2>1. \A e \in Requests \ {c} : req'[e] = req[e]
      BY <1>0 DEF Rejected, Answer, Typed, TypeOK
    <2> QED
      BY <1>0, <2>1, OthersStillAnnounce DEF Rejected
  <1>1. CASE CreateThreshold(c)
    <2>1. req[c].at \notin {"idle", "stored"}
      BY <1>1 DEF CreateThreshold, At
    <2> QED
      BY <1>0, <1>1, <2>1, CommitAnnounces DEF CreateThreshold
  <1>2. CASE GetThreshold(c)
    <2>1. req[c].at # "stored" /\ UNCHANGED <<outbox, owed, missed>>
      BY <1>2 DEF GetThreshold
    <2>2. \A e \in Requests \ {c} : req'[e] = req[e]
      BY <1>2 DEF GetThreshold, GoOn, Answer, Typed, TypeOK
    <2> QED
      BY <2>1, <2>2, OthersStillAnnounce
  <1>3. CASE UpdateThreshold(c)
    <2>1. req[c].at \notin {"idle", "stored"}
      BY <1>3 DEF UpdateThreshold, At
    <2> QED
      BY <1>0, <1>3, <2>1, CommitAnnounces DEF UpdateThreshold
  <1>4. CASE DeleteThreshold(c)
    <2>1. req[c].at \notin {"idle", "stored"}
      BY <1>4 DEF DeleteThreshold, At
    <2> QED
      BY <1>0, <1>4, <2>1, CommitAnnounces DEF DeleteThreshold
  <1>5. CASE PublishUpdate(c)
    <2> SUFFICES ASSUME NEW d \in owed', d \notin (outbox \cup missed)'
                 PROVE  \E e \in Requests : req'[e].at = "stored" /\ DeviceIn(e)' = d
      BY DEF ChangesAnnounced
    <2>1. d \in owed /\ d \notin outbox /\ d \notin missed /\ d # DeviceIn(c)
      BY <1>5 DEF PublishUpdate, About, Lose
    <2>2. PICK e \in Requests : req[e].at = "stored" /\ DeviceIn(e) = d
      BY <2>1 DEF ChangesAnnounced
    <2>3. req'[e] = req[e]
      BY <1>5, <2>1, <2>2 DEF PublishUpdate, Answer, Typed, TypeOK
    <2> QED
      BY <2>2, <2>3 DEF DeviceIn
  <1> QED
    BY <1>1, <1>2, <1>3, <1>4, <1>5 DEF Continue

\* At first nothing has changed.
LEMMA AnnouncedInit == Init => ChangesAnnounced
  BY DEF Init, ChangesAnnounced

\* Every step keeps every promise of a message.
LEMMA AnnouncedStep == Typed /\ ChangesAnnounced /\ [Next]_vars => ChangesAnnounced'
  <1> SUFFICES ASSUME Typed, ChangesAnnounced, [Next]_vars PROVE ChangesAnnounced'
    OBVIOUS
  <1>1. ASSUME NEW c \in Requests, NEW op \in {"create", "get", "update", "delete"},
               NEW r \in Rows, Request(c, op, r)
        PROVE  ChangesAnnounced'
    <2>1. \A e \in Requests \ {c} : req'[e] = req[e]
      BY <1>1 DEF Request, Typed, TypeOK
    <2> QED
      BY <1>1, <2>1, OthersStillAnnounce DEF Request
  <1>2. ASSUME NEW c \in Requests, Continue(c) PROVE ChangesAnnounced'
    BY <1>2, ContinueAnnounces
  <1>3. ASSUME NEW c \in Requests, Finish(c) PROVE ChangesAnnounced'
    <2>1. \A e \in Requests \ {c} : req'[e] = req[e]
      BY <1>3 DEF Finish, Typed, TypeOK
    <2> QED
      BY <1>3, <2>1, OthersStillAnnounce DEF Finish
  <1>4. ASSUME NEW d \in Devices, Deliver(d) PROVE ChangesAnnounced'
    BY <1>4 DEF Deliver, ChangesAnnounced, DeviceIn
  <1>5. ASSUME UNCHANGED <<req, owed>>, missed \subseteq missed',
               owed \cap (outbox \ outbox') \subseteq missed'
        PROVE  ChangesAnnounced'
    BY <1>5 DEF ChangesAnnounced, DeviceIn
  <1>6. CASE Disconnect
    BY <1>5, <1>6 DEF Disconnect, Lose
  <1>7. CASE Reconnect
    BY <1>5, <1>7 DEF Reconnect
  <1>8. CASE GiveUp
    BY <1>5, <1>8 DEF GiveUp, Lose
  <1>9. CASE Crash
    <2>1. owed \cap Lost \subseteq missed'
      BY <1>9 DEF Crash, Lose
    <2>2. \A d \in owed : d \in missed \/ d \in Lost
      BY DEF ChangesAnnounced, Lost
    <2>3. owed' = owed /\ missed \subseteq missed'
      BY <1>9 DEF Crash, Lose
    <2> QED
      BY <2>1, <2>2, <2>3 DEF ChangesAnnounced
  <1>10. CASE UNCHANGED vars
    BY <1>10 DEF vars, ChangesAnnounced, DeviceIn
  <1> QED
    BY <1>1, <1>2, <1>3, <1>4, <1>6, <1>7, <1>8, <1>9, <1>10 DEF Next

\* However many requests change thresholds of however many devices, the
\* service itself loses no message about a committed change: only a crash, a
\* lost answer of the database or the NATS client (missing, refusing, broken or
\* given up) can.
THEOREM ThresholdsChangesAnnounced == Spec => []ChangesAnnounced
  <1>1. Init => IInv
    BY TypeInit, AnnouncedInit DEF IInv
  <1>2. IInv /\ [Next]_vars => IInv'
    BY TypeStep, AnnouncedStep DEF IInv
  <1>3. IInv => ChangesAnnounced
    BY DEF IInv
  <1> QED
    BY <1>1, <1>2, <1>3, PTL DEF Spec
=============================================================================
