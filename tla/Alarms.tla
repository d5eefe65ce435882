-------------------------------- MODULE Alarms -------------------------------
(***************************************************************************)
(* The alarms table: what its statements do to it and read from it.  The   *)
(* rows come from a worker outside this program (CreateAlarm has no caller *)
(* in it); operators acknowledge and resolve them, in any order and again, *)
(* because no statement looks at the status it replaces.                   *)
(*                                                                         *)
(* An alarm is the number of its triggered_at: larger is newer.            *)
(***************************************************************************)
EXTENDS Integers, FiniteSets

CONSTANTS AlarmIds,  \* alarms that may be raised
          Shown      \* alarms on a dashboard: 50 in the code

ASSUME AlarmsAssumption ==
    /\ AlarmIds \subseteq Nat /\ IsFiniteSet(AlarmIds)
    /\ Shown \in Nat \ {0}

VARIABLE alarms   \* the status of each; "absent": no row

\* handled: acknowledged or resolved, which nothing here tells apart.
Statuses == {"absent", "active", "handled"}

NoAlarms == [a \in AlarmIds |-> "absent"]

\* INSERT INTO alarms; an alarm is raised active.
CreateAlarm(a) ==
    /\ alarms[a] = "absent"
    /\ alarms' = [alarms EXCEPT ![a] = "active"]

\* UpdateAlarmStatus, for AcknowledgeAlarm and ResolveAlarm.  No row, no
\* change: RETURNING has nothing to return.
UpdateStatus(a) ==
    alarms' = [alarms EXCEPT ![a] = IF @ = "absent" THEN @ ELSE "handled"]

\* WHERE a.status = 'active'
Active == {a \in AlarmIds : alarms[a] = "active"}

\* ORDER BY triggered_at DESC LIMIT n: page 1.
FirstPage(n) == {a \in Active : Cardinality({x \in Active : x > a}) < n}

\* Fault: whatever its status, an alarm is sent.
AllAlarms ==
    LET rows == {a \in AlarmIds : alarms[a] # "absent"}
    IN {a \in rows : Cardinality({x \in rows : x > a}) < Shown}

\* What a round of the stream of alarms sends.
ActiveAlarms == FirstPage(Shown)
=============================================================================
