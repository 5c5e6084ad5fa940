------------------------------ MODULE AlarmManager ------------------------------
(***************************************************************************)
(* The SCADA alarm manager (scada/src/alarm_manager.cpp): the evaluation   *)
(* thread that turns measurements into alarms, the notification            *)
(* dispatcher, the operators who acknowledge, reset and suppress alarms,   *)
(* the rules, the SQLite table of the alarms, and initialize and shutdown. *)
(*                                                                         *)
(* Each stretch under one mutex is an action.  An alarm's id is its place  *)
(* in the order of creation: only the evaluation thread draws ids, and the *)
(* map's order is theirs while they have the same number of digits.  The   *)
(* times of an alarm are told apart only by whether they are set.          *)
(***************************************************************************)
EXTENDS Integers, Sequences, FiniteSets

CONSTANTS
    RuleIds,          \* the ids of rules, in the order of the map
    RuleVersions,     \* what addRule and updateRule are called with
    Points,           \* measurement points
    Values,           \* measured values
    MaxQueue,         \* bound on the measurements waiting
    MaxAbnormal,      \* bound on the measurements that meet some condition
    SqlResults,       \* whether a statement takes effect: TRUE, FALSE or either
    CallbackTypes,    \* the notifications the application has a callback for
    MaxRuleChanges,   \* bound on the changes of the rules
    MaxOperations,    \* bound on the operators' calls
    MaxDays           \* bound on the days that go by

\* "over": OVERVOLTAGE, OVERCURRENT, OVERLOAD and FREQUENCY_HIGH; "under":
\* UNDERVOLTAGE; "low": FREQUENCY_LOW and POWER_FACTOR_LOW; "other": the
\* kinds the switch leaves to its default.
Kinds == {"over", "under", "low", "other"}

RuleType == [kind : Kinds, point : Points, high : Nat, low : Nat,
             deadband : Nat, enabled : BOOLEAN, loud : BOOLEAN]

ASSUME AlarmManagerAssumption ==
    /\ RuleIds \subseteq Nat /\ Values \subseteq Nat
    /\ MaxQueue \in Nat /\ MaxAbnormal \in Nat
    /\ SqlResults \subseteq BOOLEAN /\ CallbackTypes \subseteq {"VISUAL", "SOUND"}
    /\ MaxRuleChanges \in Nat /\ MaxOperations \in Nat /\ MaxDays \in Nat
    /\ RuleVersions \subseteq RuleType

VARIABLES
    rules,            \* m_rules
    silent,           \* the rules outside their hours or under a schedule
    evalQueue,        \* m_evalQueue
    alarms,           \* m_activeAlarms, in the order of their ids
    rows,             \* the table "alarms"
    dbOpen,           \* m_sqliteDb is not null
    running,          \* m_running
    notifRunning,     \* m_notifRunning
    initialized,      \* m_initialized
    epc,              \* where the evaluation thread is
    measured,         \* the measurement it handles
    snapshot,         \* its copies of the rules that apply
    todo,             \* the ids of those it has not evaluated
    npc,              \* where the dispatcher is
    notifications,    \* m_notifications
    pending,          \* the dispatcher's copies
    callbacks,        \* the types m_notificationCallbacks holds
    shown,            \* what a callback was called with
    \* Bookkeeping of the model:
    abnormal, ruleChanges, operations, days,  \* how often each bounded thing was
    behind,           \* the alarms whose last statement did not take effect
    reset             \* the alarms an operator reset since the last Pop

ruleVars == <<rules, silent>>
storeVars == <<alarms, rows, dbOpen>>
lifeVars == <<running, notifRunning, initialized>>
evalVars == <<epc, measured, snapshot, todo>>
notifVars == <<npc, notifications, pending, callbacks, shown>>
countVars == <<abnormal, ruleChanges, operations, days>>
ghostVars == <<behind, reset>>
vars == <<ruleVars, evalQueue, storeVars, lifeVars, evalVars, notifVars,
          countVars, ghostVars>>

AlarmIds == DOMAIN alarms

Init ==
    /\ rules = <<>> /\ silent = {}
    /\ evalQueue = <<>>
    /\ alarms = <<>> /\ rows = <<>> /\ dbOpen = FALSE
    /\ running = FALSE /\ notifRunning = FALSE /\ initialized = FALSE
    /\ epc = "off" /\ measured = <<>> /\ snapshot = <<>> /\ todo = {}
    /\ npc = "off" /\ notifications = {} /\ pending = {}
    /\ callbacks = {} /\ shown = {}
    /\ abnormal = 0 /\ ruleChanges = 0 /\ operations = 0 /\ days = 0
    /\ behind = {} /\ reset = {}

\* The states getActiveAlarms takes for active.
ActiveStates == {"ACTIVE_UNACK", "ACTIVE_ACK", "SUPPRESSED"}

-----------------------------------------------------------------------------
(***************************************************************************)
(* The conditions of a rule.                                               *)
(***************************************************************************)

Met(r, v) ==
    \/ r.kind = "over" /\ r.high > 0 /\ v > r.high
    \/ r.kind \in {"under", "low"} /\ r.low > 0 /\ v < r.low

Clears(r, v) ==
    \/ r.kind = "under" /\ r.low > 0 /\ v > r.low + r.deadband
    \/ r.kind \notin {"under", "low"} /\ r.high > 0 /\ v < r.high - r.deadband

Distance(v, w) == IF v < w THEN w - v ELSE v - w

\* The first alarm of a rule in one of some states, as a set of at most one.
FirstOf(id, states) ==
    {a \in AlarmIds :
        /\ alarms[a].rule = id /\ alarms[a].state \in states
        /\ \A b \in 1 .. a - 1 : alarms[b].rule # id \/ alarms[b].state \notin states}

-----------------------------------------------------------------------------
(***************************************************************************)
(* The table.  An UPDATE of a row that is not there does nothing, and so   *)
(* does a call while no database is open.  A statement may fail, because   *)
(* the database is busy or full, or because a text in it has a quote, and  *)
(* what sqlite3_exec returns is not looked at.                             *)
(***************************************************************************)

\* updateAlarmInDb of alarm a as "alarm", under m_alarmsMutex.
UpdateAlarmInDb(a, alarm) ==
    \/ /\ TRUE \in SqlResults /\ dbOpen /\ a \in DOMAIN rows
       /\ rows' = [rows EXCEPT ![a] = alarm]
       /\ behind' = behind \ {a}
    \/ /\ FALSE \in SqlResults \/ ~dbOpen \/ a \notin DOMAIN rows
       /\ behind' = behind \cup {a}
       /\ UNCHANGED rows

\* Changes alarm a in the map and in the table.
Change(a, alarm) ==
    /\ alarms' = [alarms EXCEPT ![a] = alarm]
    /\ UpdateAlarmInDb(a, alarm)
    /\ UNCHANGED dbOpen

-----------------------------------------------------------------------------
(***************************************************************************)
(* Rules and suppression schedules.                                        *)
(***************************************************************************)

RuleChange ==
    /\ ruleChanges < MaxRuleChanges
    /\ ruleChanges' = ruleChanges + 1
    /\ UNCHANGED <<evalQueue, storeVars, lifeVars, evalVars, notifVars, abnormal,
                   operations, days, ghostVars>>

\* addRule, and updateRule, which only calls it.
AddRule(id, r) ==
    /\ rules' = [i \in DOMAIN rules \cup {id} |-> IF i = id THEN r ELSE rules[i]]
    /\ UNCHANGED silent
    /\ RuleChange

DeleteRule(id) ==
    /\ rules' = [i \in DOMAIN rules \ {id} |-> rules[i]]
    /\ UNCHANGED silent
    /\ RuleChange

EnableRule(id, enable) ==
    /\ id \in DOMAIN rules
    /\ rules' = [rules EXCEPT ![id].enabled = enable]
    /\ UNCHANGED silent
    /\ RuleChange

\* A schedule is added or removed, or the time enters or leaves its interval
\* or the rule's hours.
Silence(id, quiet) ==
    /\ silent' = IF quiet THEN silent \cup {id} ELSE silent \ {id}
    /\ UNCHANGED rules
    /\ RuleChange

-----------------------------------------------------------------------------
(***************************************************************************)
(* Measurements.                                                           *)
(***************************************************************************)

Abnormal(v) == \E r \in RuleVersions : Met(r, v)

EvaluateMeasurement(p, v) ==
    /\ initialized
    /\ Len(evalQueue) < MaxQueue
    /\ Abnormal(v) => abnormal < MaxAbnormal
    /\ abnormal' = IF Abnormal(v) THEN abnormal + 1 ELSE abnormal
    /\ evalQueue' = Append(evalQueue, [point |-> p, value |-> v])
    /\ UNCHANGED <<ruleVars, storeVars, lifeVars, evalVars, notifVars,
                   ruleChanges, operations, days, ghostVars>>

-----------------------------------------------------------------------------
(***************************************************************************)
(* The evaluation thread.  Its condition variable is waited on for 100 ms  *)
(* at most, so that no notification matters.                               *)
(***************************************************************************)

\* The outer loop reads m_running, the inner one only the queue.
Pop ==
    /\ (epc = "wait" /\ running) \/ epc = "more"
    /\ evalQueue # <<>>
    /\ measured' = Head(evalQueue)
    /\ evalQueue' = Tail(evalQueue)
    /\ epc' = "fetch"
    /\ reset' = {}
    /\ UNCHANGED <<ruleVars, storeVars, lifeVars, snapshot, todo, notifVars,
                   countVars, behind>>

QueueEmpty ==
    /\ epc = "more" /\ evalQueue = <<>>
    /\ epc' = "wait"
    /\ UNCHANGED <<ruleVars, evalQueue, storeVars, lifeVars, measured, snapshot,
                   todo, notifVars, countVars, ghostVars>>

\* Mutation: the wait ends only for a measurement.
QuitWithMeasurement ==
    /\ epc = "wait" /\ ~running /\ evalQueue # <<>>
    /\ epc' = "off"
    /\ UNCHANGED <<ruleVars, evalQueue, storeVars, lifeVars, measured, snapshot,
                   todo, notifVars, countVars, ghostVars>>

Quit ==
    /\ epc = "wait" /\ ~running
    /\ epc' = "off"
    /\ UNCHANGED <<ruleVars, evalQueue, storeVars, lifeVars, measured, snapshot,
                   todo, notifVars, countVars, ghostVars>>

Applies(id) ==
    /\ rules[id].point = measured.point /\ rules[id].enabled
    /\ id \notin silent

\* The rules are copied under m_rulesMutex.
FetchRules ==
    /\ epc = "fetch"
    /\ todo' = {id \in DOMAIN rules : Applies(id)}
    /\ snapshot' = [id \in todo' |-> rules[id]]
    /\ epc' = "evaluate"
    /\ UNCHANGED <<ruleVars, evalQueue, storeVars, lifeVars, measured, notifVars,
                   countVars, ghostVars>>

\* The rule of this round of the loop.
Rule == CHOOSE id \in todo : \A other \in todo : id <= other

\* On to the next rule.
NextRule ==
    /\ todo' = todo \ {Rule}
    /\ epc' = IF todo' = {} THEN "more" ELSE "evaluate"

NoRule ==
    /\ epc = "evaluate" /\ todo = {}
    /\ epc' = "more"
    /\ UNCHANGED <<ruleVars, evalQueue, storeVars, lifeVars, measured, snapshot,
                   todo, notifVars, countVars, ghostVars>>

\* Mutation: an alarm of the rule counts whatever its state.
RepeatedAny ==
    FirstOf(Rule, ActiveStates \cup {"INACTIVE_UNACK", "INACTIVE_ACK"})

\* The first unacknowledged alarm of the rule, if it has one.
Repeated == FirstOf(Rule, {"ACTIVE_UNACK"})

InDeadband(a) == Distance(measured.value, alarms[a].value) < snapshot[Rule].deadband

\* The condition is met and the alarm is there, with about this value.
Hold ==
    /\ epc = "evaluate" /\ todo # {} /\ Met(snapshot[Rule], measured.value)
    /\ \E a \in Repeated : InDeadband(a)
    /\ NextRule
    /\ UNCHANGED <<ruleVars, evalQueue, storeVars, lifeVars, measured, snapshot,
                   notifVars, countVars, ghostVars>>

\* The condition is met and there is no such alarm, or it gets the new value;
\* in both cases another alarm is made.
Trigger ==
    /\ epc = "evaluate" /\ todo # {} /\ Met(snapshot[Rule], measured.value)
    /\ \A a \in Repeated : ~InDeadband(a)
    /\ \/ /\ Repeated = {}
          /\ UNCHANGED <<storeVars, behind>>
       \/ \E a \in Repeated :
             Change(a, [alarms[a] EXCEPT !.value = measured.value, !.count = @ + 1])
    /\ epc' = "insert"
    /\ UNCHANGED <<ruleVars, evalQueue, lifeVars, measured, snapshot, todo,
                   notifVars, countVars, reset>>

\* Mutation: the rule's first alarm is looked at, whatever its state.
ActiveFirst ==
    {a \in AlarmIds :
        alarms[a].rule = Rule /\ \A b \in 1 .. a - 1 : alarms[b].rule # Rule}

\* The first active alarm of the rule, the only one that is looked at.
Active == FirstOf(Rule, {"ACTIVE_UNACK", "ACTIVE_ACK"})

Cleared(alarm) ==
    [alarm EXCEPT
        !.state = IF @ = "ACTIVE_ACK" THEN "INACTIVE_ACK" ELSE "INACTIVE_UNACK",
        !.cleared = TRUE]

\* Mutation: the alarm is cleared in the map only.
ClearInMemory ==
    /\ epc = "evaluate" /\ todo # {} /\ ~Met(snapshot[Rule], measured.value)
    /\ \/ \E a \in Active :
             /\ Clears(snapshot[Rule], measured.value)
             /\ alarms' = [alarms EXCEPT ![a] = Cleared(alarms[a])]
             /\ UNCHANGED <<rows, dbOpen, behind>>
       \/ /\ ~Clears(snapshot[Rule], measured.value) \/ Active = {}
          /\ UNCHANGED <<storeVars, behind>>
    /\ NextRule
    /\ UNCHANGED <<ruleVars, evalQueue, lifeVars, measured, snapshot, notifVars,
                   countVars, reset>>

Clear ==
    /\ epc = "evaluate" /\ todo # {} /\ ~Met(snapshot[Rule], measured.value)
    /\ \/ \E a \in Active :
             /\ Clears(snapshot[Rule], measured.value)
             /\ Change(a, Cleared(alarms[a]))
       \/ /\ ~Clears(snapshot[Rule], measured.value) \/ Active = {}
          /\ UNCHANGED <<storeVars, behind>>
    /\ NextRule
    /\ UNCHANGED <<ruleVars, evalQueue, lifeVars, measured, snapshot, notifVars,
                   countVars, reset>>

\* Mutation: the first occurrence is not counted.
NewAlarmUncounted ==
    [rule |-> Rule, state |-> "ACTIVE_UNACK", value |-> measured.value,
     count |-> 0, acknowledged |-> FALSE, cleared |-> FALSE]

\* The alarm the evaluation thread makes.
NewAlarm ==
    [rule |-> Rule, state |-> "ACTIVE_UNACK", value |-> measured.value,
     count |-> 1, acknowledged |-> FALSE, cleared |-> FALSE]

Insert ==
    /\ epc = "insert"
    /\ alarms' = Append(alarms, NewAlarm)
    /\ epc' = "persist"
    /\ UNCHANGED <<ruleVars, evalQueue, rows, dbOpen, lifeVars, measured,
                   snapshot, todo, notifVars, countVars, ghostVars>>

\* The alarm of this round, once it is inserted.
Latest == Len(alarms)

\* persistAlarm inserts the thread's own copy, without a mutex.
PersistAlarm ==
    /\ epc = "persist"
    /\ \/ /\ TRUE \in SqlResults /\ dbOpen
          /\ rows' = [a \in DOMAIN rows \cup {Latest} |->
                         IF a = Latest THEN NewAlarm ELSE rows[a]]
          /\ UNCHANGED behind
       \/ /\ FALSE \in SqlResults \/ ~dbOpen
          /\ behind' = behind \cup {Latest}
          /\ UNCHANGED rows
    /\ epc' = "notify"
    /\ UNCHANGED <<ruleVars, evalQueue, alarms, dbOpen, lifeVars, measured,
                   snapshot, todo, notifVars, countVars, reset>>

Notification(type, delivered) ==
    [alarm |-> Latest, type |-> type, delivered |-> delivered, old |-> FALSE]

\* Mutation: the visual one is made as if it were delivered.
NotifiesSilently ==
    {Notification("LOG_ONLY", TRUE), Notification("VISUAL", TRUE)}
        \cup {n \in {Notification("SOUND", FALSE)} : snapshot[Rule].loud}

Notifies ==
    {Notification("LOG_ONLY", TRUE), Notification("VISUAL", FALSE)}
        \cup {n \in {Notification("SOUND", FALSE)} : snapshot[Rule].loud}

CheckAndTriggerNotification ==
    /\ epc = "notify"
    /\ notifications' = notifications \cup Notifies
    /\ NextRule
    /\ UNCHANGED <<ruleVars, evalQueue, storeVars, lifeVars, measured, snapshot,
                   npc, pending, callbacks, shown, countVars, ghostVars>>

EvalThread ==
    \/ Pop \/ QueueEmpty \/ Quit \/ FetchRules \/ NoRule \/ Hold \/ Trigger
    \/ Clear \/ Insert \/ PersistAlarm \/ CheckAndTriggerNotification

-----------------------------------------------------------------------------
(***************************************************************************)
(* The operators.                                                          *)
(***************************************************************************)

Operation ==
    /\ operations < MaxOperations
    /\ operations' = operations + 1
    /\ UNCHANGED <<ruleVars, evalQueue, lifeVars, evalVars, notifVars, abnormal,
                   ruleChanges, days>>

AcknowledgeAlarm(a) ==
    /\ Change(a, [alarms[a] EXCEPT !.state = "ACTIVE_ACK", !.acknowledged = TRUE])
    /\ UNCHANGED reset
    /\ Operation

ResetAlarm(a) ==
    /\ Change(a, [alarms[a] EXCEPT !.state = "INACTIVE_ACK", !.cleared = TRUE])
    /\ reset' = reset \cup {a}
    /\ Operation

SuppressAlarm(a) ==
    /\ Change(a, [alarms[a] EXCEPT !.state = "SUPPRESSED"])
    /\ UNCHANGED reset
    /\ Operation

UnSuppressAlarm(a) ==
    /\ alarms[a].state = "SUPPRESSED"
    /\ Change(a, [alarms[a] EXCEPT !.state = "ACTIVE_UNACK"])
    /\ UNCHANGED reset
    /\ Operation

\* The notes are left out, but the row is written.
AddNotes(a) ==
    /\ Change(a, alarms[a])
    /\ UNCHANGED reset
    /\ Operation

-----------------------------------------------------------------------------
(***************************************************************************)
(* The notification dispatcher.                                            *)
(***************************************************************************)

Collect ==
    /\ npc = "top" /\ notifRunning
    /\ pending' = {n \in notifications : ~n.delivered}
    /\ npc' = "deliver"
    /\ UNCHANGED <<ruleVars, evalQueue, storeVars, lifeVars, evalVars,
                   notifications, callbacks, shown, countVars, ghostVars>>

\* The alarm is looked up, and the callback called if it is there; the copy is
\* marked delivered.
Deliver ==
    /\ npc = "deliver"
    /\ \E n \in pending :
          /\ pending' = pending \ {n}
          /\ shown' = IF n.type \in callbacks /\ n.alarm \in AlarmIds
                        THEN shown \cup {<<n.alarm, n.type>>} ELSE shown
    /\ UNCHANGED <<ruleVars, evalQueue, storeVars, lifeVars, evalVars, npc,
                   notifications, callbacks, countVars, ghostVars>>

CleanUp ==
    /\ npc = "deliver" /\ pending = {}
    /\ notifications' = {n \in notifications : ~(n.delivered /\ n.old)}
    /\ npc' = "top"
    /\ UNCHANGED <<ruleVars, evalQueue, storeVars, lifeVars, evalVars, pending,
                   callbacks, shown, countVars, ghostVars>>

QuitDispatcher ==
    /\ npc = "top" /\ ~notifRunning
    /\ npc' = "off"
    /\ UNCHANGED <<ruleVars, evalQueue, storeVars, lifeVars, evalVars,
                   notifications, pending, callbacks, shown, countVars, ghostVars>>

Dispatcher == Collect \/ Deliver \/ CleanUp \/ QuitDispatcher

SetNotificationCallback(type) ==
    /\ callbacks' = callbacks \cup {type}
    /\ UNCHANGED <<ruleVars, evalQueue, storeVars, lifeVars, evalVars, npc,
                   notifications, pending, shown, countVars, ghostVars>>

\* A day goes by.
GrowOld ==
    /\ days < MaxDays
    /\ days' = days + 1
    /\ notifications' = {[n EXCEPT !.old = TRUE] : n \in notifications}
    /\ UNCHANGED <<ruleVars, evalQueue, storeVars, lifeVars, evalVars, npc,
                   pending, callbacks, shown, abnormal, ruleChanges, operations,
                   ghostVars>>

-----------------------------------------------------------------------------
(***************************************************************************)
(* initialize and shutdown, which one thread calls.                        *)
(***************************************************************************)

Initialize ==
    /\ ~initialized
    /\ dbOpen' = TRUE
    /\ running' = TRUE /\ notifRunning' = TRUE /\ initialized' = TRUE
    /\ epc' = "wait" /\ npc' = "top"
    /\ UNCHANGED <<ruleVars, evalQueue, alarms, rows, measured, snapshot, todo,
                   notifications, pending, callbacks, shown, countVars, ghostVars>>

Shutdown ==
    /\ running
    /\ running' = FALSE /\ notifRunning' = FALSE
    /\ UNCHANGED <<ruleVars, evalQueue, storeVars, initialized, evalVars,
                   notifVars, countVars, ghostVars>>

\* Both threads have been joined.
ShutdownEnd ==
    /\ ~running /\ initialized
    /\ epc = "off" /\ npc = "off"
    /\ dbOpen' = FALSE
    /\ initialized' = FALSE
    /\ UNCHANGED <<ruleVars, evalQueue, alarms, rows, running, notifRunning,
                   evalVars, notifVars, countVars, ghostVars>>

Lifecycle == Initialize \/ Shutdown \/ ShutdownEnd

-----------------------------------------------------------------------------
RuleChanges ==
    \E id \in RuleIds :
        \/ \E r \in RuleVersions : AddRule(id, r)
        \/ DeleteRule(id)
        \/ \E enable \in BOOLEAN : EnableRule(id, enable)
        \/ \E quiet \in BOOLEAN : Silence(id, quiet)

Operator ==
    \E a \in AlarmIds :
        \/ AcknowledgeAlarm(a) \/ ResetAlarm(a) \/ SuppressAlarm(a)
        \/ UnSuppressAlarm(a) \/ AddNotes(a)

Measurement == \E p \in Points, v \in Values : EvaluateMeasurement(p, v)

Next ==
    \/ RuleChanges \/ Operator \/ Measurement
    \/ EvalThread \/ Dispatcher
    \/ (\E type \in CallbackTypes : SetNotificationCallback(type))
    \/ GrowOld \/ Lifecycle

Spec == Init /\ [][Next]_vars

\* The two threads poll and hold their mutexes for bounded times, and
\* shutdown goes on once both have ended.
FairSpec ==
    Spec /\ WF_vars(EvalThread) /\ WF_vars(Dispatcher) /\ WF_vars(ShutdownEnd)

-----------------------------------------------------------------------------
(***************************************************************************)
(* Properties.                                                             *)
(***************************************************************************)

AlarmType ==
    [rule : RuleIds,
     state : {"ACTIVE_UNACK", "ACTIVE_ACK", "INACTIVE_UNACK", "INACTIVE_ACK",
              "SUPPRESSED"},
     value : Nat, count : Nat \ {0}, acknowledged : BOOLEAN, cleared : BOOLEAN]
MeasurementType == [point : Points, value : Nat]
NotificationType == [alarm : AlarmIds, type : {"LOG_ONLY", "VISUAL", "SOUND"},
                     delivered : BOOLEAN, old : BOOLEAN]

\* Every variable has its type: the rows and the notifications are those of
\* alarms of the map, and what the evaluation thread has yet to evaluate are
\* rules of its snapshot.
TypeOK ==
    /\ DOMAIN rules \subseteq RuleIds /\ silent \subseteq RuleIds
    /\ \A id \in DOMAIN rules : rules[id] \in RuleType
    /\ evalQueue \in Seq(MeasurementType)
    /\ alarms \in Seq(AlarmType)
    /\ DOMAIN rows \subseteq AlarmIds
    /\ \A a \in DOMAIN rows : rows[a] \in AlarmType
    /\ dbOpen \in BOOLEAN /\ running \in BOOLEAN
    /\ notifRunning \in BOOLEAN /\ initialized \in BOOLEAN
    /\ epc \in {"off", "wait", "more", "fetch", "evaluate", "insert", "persist",
               "notify"}
    /\ epc \notin {"off", "wait", "more"} => measured \in MeasurementType
    /\ todo \subseteq DOMAIN snapshot /\ DOMAIN snapshot \subseteq RuleIds
    /\ \A id \in DOMAIN snapshot : snapshot[id] \in RuleType
    /\ epc \in {"insert", "persist", "notify"} => todo # {}
    /\ epc \in {"persist", "notify"} => alarms # <<>>
    /\ npc \in {"off", "top", "deliver"}
    /\ notifications \subseteq NotificationType /\ pending \subseteq NotificationType
    /\ callbacks \subseteq {"VISUAL", "SOUND"}
    /\ shown \subseteq AlarmIds \X {"VISUAL", "SOUND"}
    /\ abnormal \in Nat /\ ruleChanges \in Nat /\ operations \in Nat /\ days \in Nat
    /\ behind \subseteq AlarmIds /\ reset \subseteq AlarmIds

\* Whatever is changed in the map is written to the table: every alarm but the
\* one that is being made has a row, which is what the map holds, unless the
\* alarm's last statement did not take effect.  That is so when it failed, when
\* the database was closed, when an operator's UPDATE came between the insertion
\* in the map and in the table, and after an INSERT that failed; the row is out
\* of date or missing until a later statement for the alarm takes effect.
RowsFollow ==
    \A a \in AlarmIds :
        \/ a = Latest /\ epc = "persist"
        \/ a \in behind
        \/ a \in DOMAIN rows /\ rows[a] = alarms[a]

\* When the evaluation of a measurement ends, every rule that applied when it
\* began and whose condition is met has an active alarm with about the measured
\* value, or had one that an operator reset meanwhile: whatever else operators
\* did to the alarms, and whatever became of the rules, between the steps.
RaisedWhenMet ==
    epc = "more" =>
        \A id \in DOMAIN snapshot : Met(snapshot[id], measured.value) =>
            \E a \in AlarmIds :
                /\ alarms[a].rule = id
                /\ alarms[a].state \in ActiveStates \/ a \in reset
                /\ \/ alarms[a].value = measured.value
                   \/ Distance(alarms[a].value, measured.value) < snapshot[id].deadband

\* Once measurements stop coming, shutdown() returns.
ShutdownReturns ==
    <>[](evalQueue = <<>>) => (~running ~> ~initialized)

\* Every alarm is shown to the operators, if the manager keeps running and
\* there is a callback for it.
AlarmsShown ==
    <>[](running /\ "VISUAL" \in callbacks) =>
        \A a \in 1 .. MaxAbnormal * Cardinality(RuleIds) :
            a \in AlarmIds ~> <<a, "VISUAL">> \in shown

\* A rule applies, and every measurement that waits is one of its point for
\* which P holds.
Applying(id, P(_, _)) ==
    /\ id \in DOMAIN rules /\ id \notin silent /\ rules[id].enabled
    /\ \A n \in DOMAIN evalQueue :
          evalQueue[n].point = rules[id].point /\ P(rules[id], evalQueue[n].value)

NoneActive(id) ==
    \A a \in AlarmIds :
        alarms[a].rule = id => alarms[a].state \notin {"ACTIVE_UNACK", "ACTIVE_ACK"}

\* An evaluation clears one alarm of a rule at most, but a rule that has made
\* several, and whose operators bring cleared ones back, ends with none that is
\* active once its point is measured again and again at values that clear it.
ClearsEventually ==
    \A id \in RuleIds :
        <>[]Applying(id, Clears) /\ []<>(epc = "fetch") => <>[]NoneActive(id)
=============================================================================
