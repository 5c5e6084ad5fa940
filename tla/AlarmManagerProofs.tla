-------------------------- MODULE AlarmManagerProofs --------------------------
(***************************************************************************)
(* What holds of AlarmManager for any rules, points and values, and any    *)
(* bounds.                                                                 *)
(*                                                                         *)
(* RowsFollow needs to know of the alarm that is being made that it has no *)
(* row yet and that the thread's own copy, which persistAlarm will insert, *)
(* is the map's unless the alarm was changed since (Persisting).           *)
(* RaisedWhenMet needs the rules that are already evaluated, round after   *)
(* round (Evaluating).                                                     *)
(***************************************************************************)
EXTENDS AlarmManager, SetLemmas

\* shutdown joins the evaluation thread before it closes the database.
OpenWhileEvaluating == epc # "off" => dbOpen /\ initialized

Persisting ==
    epc = "persist" =>
        /\ Latest \notin DOMAIN rows
        /\ Latest \in behind \/ alarms[Latest] = NewAlarm

RowsInv == TypeOK /\ OpenWhileEvaluating /\ Persisting /\ RowsFollow

\* The rule has an active alarm with about the measured value, or had one that
\* was reset since the evaluation began.
Raised(id) ==
    \E a \in AlarmIds :
        /\ alarms[a].rule = id
        /\ alarms[a].state \in ActiveStates \/ a \in reset
        /\ \/ alarms[a].value = measured.value
           \/ Distance(alarms[a].value, measured.value) < snapshot[id].deadband

Evaluating ==
    /\ epc = "more" => todo = {}
    /\ epc \in {"evaluate", "insert", "persist", "notify", "more"} =>
          \A id \in DOMAIN snapshot \ todo :
              Met(snapshot[id], measured.value) => Raised(id)
    /\ epc \in {"persist", "notify"} =>
          /\ alarms[Latest].rule = Rule /\ alarms[Latest].value = measured.value
          /\ alarms[Latest].state \in ActiveStates \/ Latest \in reset

RaisedInv == TypeOK /\ Evaluating

-----------------------------------------------------------------------------
(***************************************************************************)
(* Operators.                                                              *)
(***************************************************************************)

\* While rules are left, there is a rule of this round, and it is the first.
LEMMA RuleIsFirst ==
    ASSUME TypeOK, todo # {}
    PROVE  /\ Rule \in todo /\ Rule \in DOMAIN snapshot /\ Rule \in RuleIds
           /\ snapshot[Rule] \in RuleType
<1>1. todo \in SUBSET Nat
    BY AlarmManagerAssumption DEF TypeOK
<1>2. \E id \in todo : \A other \in todo : id <= other
    BY <1>1, NatMinimum
<1>3. Rule \in todo
    BY <1>2 DEF Rule
<1> QED BY <1>3 DEF TypeOK

\* What is made for a rule of this round is an alarm.
LEMMA NewAlarmType ==
    ASSUME TypeOK, todo # {}, epc \in {"insert", "persist", "notify"}
    PROVE  NewAlarm \in AlarmType
<1>1. Rule \in RuleIds
    BY RuleIsFirst
<1>2. measured.value \in Nat
    BY DEF TypeOK, MeasurementType
<1> QED BY <1>1, <1>2 DEF NewAlarm, AlarmType

\* An id names an alarm.
LEMMA AlarmAt ==
    ASSUME TypeOK
    PROVE  /\ Len(alarms) \in Nat
           /\ AlarmIds = 1 .. Len(alarms)
           /\ \A a \in AlarmIds : a \in Nat \ {0} /\ alarms[a] \in AlarmType
<1>1. alarms \in Seq(AlarmType)
    BY DEF TypeOK
<1> HIDE DEF AlarmType
<1> QED BY <1>1 DEF AlarmIds

\* FirstOf finds alarms of the rule, in one of the states.
LEMMA FirstOfFinds ==
    ASSUME NEW id, NEW states, NEW a \in FirstOf(id, states)
    PROVE  a \in AlarmIds /\ alarms[a].rule = id /\ alarms[a].state \in states
BY DEF FirstOf

\* What Change leaves as it is, and what it does to the row: the row follows
\* if it can be reached, and the alarm is behind otherwise.
LEMMA ChangeProperties ==
    ASSUME TypeOK, NEW a \in AlarmIds, NEW alarm \in AlarmType, Change(a, alarm)
    PROVE  /\ alarms' \in Seq(AlarmType)
           /\ AlarmIds' = AlarmIds /\ Len(alarms') = Len(alarms)
           /\ alarms'[a] = alarm
           /\ \A b \in AlarmIds \ {a} : alarms'[b] = alarms[b]
           /\ DOMAIN rows' = DOMAIN rows
           /\ \A b \in DOMAIN rows \ {a} : rows'[b] = rows[b]
           /\ \A b \in DOMAIN rows' : rows'[b] \in AlarmType
           /\ a \in behind' \/ (a \in DOMAIN rows /\ rows'[a] = alarm)
           /\ behind' \ {a} = behind \ {a} /\ behind' \subseteq AlarmIds
           /\ dbOpen' = dbOpen
<1>1. alarms \in Seq(AlarmType) /\ alarms' = [alarms EXCEPT ![a] = alarm]
    BY DEF TypeOK, Change
<1> HIDE DEF AlarmType
<1>2. /\ alarms' \in Seq(AlarmType) /\ DOMAIN alarms' = DOMAIN alarms
      /\ Len(alarms') = Len(alarms) /\ alarms'[a] = alarm
      /\ \A b \in AlarmIds \ {a} : alarms'[b] = alarms[b]
    BY <1>1 DEF AlarmIds
<1>3. CASE /\ a \in DOMAIN rows /\ rows' = [rows EXCEPT ![a] = alarm]
           /\ behind' = behind \ {a}
    <2>2. \A b \in DOMAIN rows' : rows'[b] \in AlarmType
        BY <1>3 DEF TypeOK
    <2> QED BY <1>2, <1>3, <2>2 DEF Change, TypeOK, AlarmIds
<1>4. CASE rows' = rows /\ behind' = behind \cup {a}
    BY <1>2, <1>4 DEF Change, TypeOK, AlarmIds
<1> QED BY <1>3, <1>4 DEF Change, UpdateAlarmInDb

\* One more alarm leaves the others what they are.
LEMMA InsertProperties ==
    ASSUME TypeOK, NEW alarm \in AlarmType, alarms' = Append(alarms, alarm)
    PROVE  /\ alarms' \in Seq(AlarmType)
           /\ AlarmIds' = AlarmIds \cup {Latest'}
           /\ Latest' \notin AlarmIds /\ Latest' = Len(alarms) + 1
           /\ alarms'[Latest'] = alarm
           /\ \A b \in AlarmIds : alarms'[b] = alarms[b]
<1>1. alarms \in Seq(AlarmType)
    BY DEF TypeOK
<1> HIDE DEF AlarmType
<1>2. Len(alarms') = Len(alarms) + 1
    BY <1>1
<1> QED BY <1>1, <1>2, AppendProperties DEF AlarmIds, Latest

-----------------------------------------------------------------------------
(***************************************************************************)
(* Types.                                                                  *)
(***************************************************************************)

\* The conjuncts of TypeOK, grouped by what the actions change together.
RuleTypes ==
    /\ DOMAIN rules \subseteq RuleIds /\ silent \subseteq RuleIds
    /\ \A id \in DOMAIN rules : rules[id] \in RuleType
QueueType == evalQueue \in Seq(MeasurementType)
StoreTypes ==
    /\ alarms \in Seq(AlarmType)
    /\ DOMAIN rows \subseteq AlarmIds
    /\ \A a \in DOMAIN rows : rows[a] \in AlarmType
    /\ behind \subseteq AlarmIds /\ reset \subseteq AlarmIds
EvalTypes ==
    /\ epc \in {"off", "wait", "more", "fetch", "evaluate", "insert", "persist",
               "notify"}
    /\ epc \notin {"off", "wait", "more"} => measured \in MeasurementType
    /\ todo \subseteq DOMAIN snapshot /\ DOMAIN snapshot \subseteq RuleIds
    /\ \A id \in DOMAIN snapshot : snapshot[id] \in RuleType
    /\ epc \in {"insert", "persist", "notify"} => todo # {}
    /\ epc \in {"persist", "notify"} => alarms # <<>>
NotifTypes ==
    /\ npc \in {"off", "top", "deliver"}
    /\ notifications \subseteq NotificationType /\ pending \subseteq NotificationType
    /\ callbacks \subseteq {"VISUAL", "SOUND"}
    /\ shown \subseteq AlarmIds \X {"VISUAL", "SOUND"}
FlagTypes ==
    /\ dbOpen \in BOOLEAN /\ running \in BOOLEAN
    /\ notifRunning \in BOOLEAN /\ initialized \in BOOLEAN
    /\ abnormal \in Nat /\ ruleChanges \in Nat /\ operations \in Nat
    /\ days \in Nat

LEMMA TypeParts ==
    /\ TypeOK <=> /\ RuleTypes /\ QueueType /\ StoreTypes
                  /\ EvalTypes /\ NotifTypes /\ FlagTypes
    /\ TypeOK' <=> /\ RuleTypes' /\ QueueType' /\ StoreTypes'
                   /\ EvalTypes' /\ NotifTypes' /\ FlagTypes'
BY DEF TypeOK, RuleTypes, QueueType, StoreTypes, EvalTypes, NotifTypes, FlagTypes

\* Alarms are never removed, so that a notification keeps its alarm.
LEMMA NotifTypesKept ==
    ASSUME NotifTypes, AlarmIds \subseteq AlarmIds', UNCHANGED notifVars
    PROVE  NotifTypes'
<1>1. NotificationType \subseteq NotificationType'
    BY DEF NotificationType
<1> QED BY <1>1 DEF NotifTypes, notifVars

\* The parts whose variables a step leaves alone.
LEMMA PartsKept ==
    /\ RuleTypes /\ UNCHANGED ruleVars => RuleTypes'
    /\ QueueType /\ UNCHANGED evalQueue => QueueType'
    /\ StoreTypes /\ UNCHANGED <<storeVars, ghostVars>> => StoreTypes'
    /\ EvalTypes /\ UNCHANGED <<alarms, evalVars>> => EvalTypes'
    /\ NotifTypes /\ UNCHANGED <<alarms, notifVars>> => NotifTypes'
    /\ FlagTypes /\ UNCHANGED <<dbOpen, lifeVars, countVars>> => FlagTypes'
<1>1. RuleTypes /\ UNCHANGED ruleVars => RuleTypes'
    BY DEF RuleTypes, ruleVars
<1>2. QueueType /\ UNCHANGED evalQueue => QueueType'
    BY DEF QueueType
<1>3. StoreTypes /\ UNCHANGED <<storeVars, ghostVars>> => StoreTypes'
    BY DEF StoreTypes, storeVars, ghostVars, AlarmIds
<1>4. EvalTypes /\ UNCHANGED <<alarms, evalVars>> => EvalTypes'
    BY DEF EvalTypes, evalVars
<1>5. NotifTypes /\ UNCHANGED <<alarms, notifVars>> => NotifTypes'
    BY NotifTypesKept DEF AlarmIds
<1>6. FlagTypes /\ UNCHANGED <<dbOpen, lifeVars, countVars>> => FlagTypes'
    BY DEF FlagTypes, lifeVars, countVars
<1> QED BY <1>1, <1>2, <1>3, <1>4, <1>5, <1>6

\* A change of an alarm leaves the types what they are.
LEMMA ChangeKeepsTypes ==
    ASSUME TypeOK, NEW a \in AlarmIds, NEW alarm \in AlarmType, Change(a, alarm),
           reset' \subseteq AlarmIds
    PROVE  /\ StoreTypes' /\ AlarmIds' = AlarmIds
           /\ dbOpen' \in BOOLEAN
           /\ alarms # <<>> => alarms' # <<>>
<1>1. /\ alarms' \in Seq(AlarmType) /\ AlarmIds' = AlarmIds
      /\ Len(alarms') = Len(alarms)
      /\ DOMAIN rows' = DOMAIN rows
      /\ \A b \in DOMAIN rows' : rows'[b] \in AlarmType
      /\ behind' \subseteq AlarmIds /\ dbOpen' = dbOpen
    BY ChangeProperties
<1>2. alarms # <<>> => alarms' # <<>>
    <2> HIDE DEF AlarmType
    <2> QED BY <1>1 DEF TypeOK
<1> QED BY <1>1, <1>2 DEF StoreTypes, TypeOK

\* What the operators make of an alarm is an alarm.
LEMMA ChangedTypes ==
    ASSUME NEW alarm \in AlarmType, NEW v \in Nat
    PROVE  /\ [alarm EXCEPT !.state = "ACTIVE_ACK", !.acknowledged = TRUE] \in AlarmType
           /\ [alarm EXCEPT !.state = "INACTIVE_ACK", !.cleared = TRUE] \in AlarmType
           /\ [alarm EXCEPT !.state = "SUPPRESSED"] \in AlarmType
           /\ [alarm EXCEPT !.state = "ACTIVE_UNACK"] \in AlarmType
           /\ Cleared(alarm) \in AlarmType
           /\ [alarm EXCEPT !.value = v, !.count = @ + 1] \in AlarmType
<1>1. [alarm EXCEPT !.value = v, !.count = @ + 1] \in AlarmType
    <2>1. alarm.count + 1 \in Nat \ {0}
        BY DEF AlarmType
    <2> QED BY <2>1 DEF AlarmType
<1>2. Cleared(alarm) \in AlarmType
    BY DEF AlarmType, Cleared
<1> QED BY <1>1, <1>2 DEF AlarmType

\* The next rule, or the end of the rules.
LEMMA NextRuleTypes ==
    ASSUME TypeOK, todo # {}, NextRule, UNCHANGED <<measured, snapshot>>,
           epc \in {"evaluate", "notify"}
    PROVE  EvalTypes'
<1>1. todo' = todo \ {Rule} /\ epc' \in {"more", "evaluate"}
    BY DEF NextRule
<1> QED BY <1>1 DEF TypeOK, EvalTypes

LEMMA TypeInv == TypeOK /\ [Next]_vars => TypeOK'
<1> SUFFICES ASSUME TypeOK, [Next]_vars PROVE TypeOK'
    OBVIOUS
<1>0. RuleTypes /\ QueueType /\ StoreTypes /\ EvalTypes /\ NotifTypes /\ FlagTypes
    BY TypeParts
<1>1. ASSUME RuleChanges PROVE TypeOK'
    <2> PICK id \in RuleIds :
            \/ \E r \in RuleVersions : AddRule(id, r)
            \/ DeleteRule(id)
            \/ \E enable \in BOOLEAN : EnableRule(id, enable)
            \/ \E quiet \in BOOLEAN : Silence(id, quiet)
        BY <1>1 DEF RuleChanges
    <2>1. RuleChange
        BY DEF AddRule, DeleteRule, EnableRule, Silence
    <2>2. FlagTypes'
        BY <1>0, <2>1 DEF RuleChange, FlagTypes, storeVars, lifeVars
    <2>3. RuleTypes'
        <3>1. CASE \E r \in RuleVersions : AddRule(id, r)
            BY <1>0, <3>1, AlarmManagerAssumption DEF AddRule, RuleTypes
        <3>2. CASE DeleteRule(id)
            BY <1>0, <3>2 DEF DeleteRule, RuleTypes
        <3>3. CASE \E enable \in BOOLEAN : EnableRule(id, enable)
            BY <1>0, <3>3 DEF EnableRule, RuleTypes, RuleType
        <3>4. CASE \E quiet \in BOOLEAN : Silence(id, quiet)
            BY <1>0, <3>4 DEF Silence, RuleTypes
        <3> QED BY <3>1, <3>2, <3>3, <3>4
    <2> QED BY <1>0, <2>1, <2>2, <2>3, PartsKept, TypeParts DEF RuleChange, storeVars
<1>2. ASSUME Operator PROVE TypeOK'
    <2> PICK a \in AlarmIds :
            \/ AcknowledgeAlarm(a) \/ ResetAlarm(a) \/ SuppressAlarm(a)
            \/ UnSuppressAlarm(a) \/ AddNotes(a)
        BY <1>2 DEF Operator
    <2>1. Operation
        BY DEF AcknowledgeAlarm, ResetAlarm, SuppressAlarm, UnSuppressAlarm, AddNotes
    <2>2. PICK alarm \in AlarmType : Change(a, alarm)
        BY AlarmAt, ChangedTypes
        DEF AcknowledgeAlarm, ResetAlarm, SuppressAlarm, UnSuppressAlarm, AddNotes
    <2>r. reset' \subseteq AlarmIds
        BY <1>0
        DEF AcknowledgeAlarm, ResetAlarm, SuppressAlarm, UnSuppressAlarm, AddNotes,
            StoreTypes
    <2>3. StoreTypes' /\ AlarmIds' = AlarmIds /\ dbOpen' \in BOOLEAN
          /\ (alarms # <<>> => alarms' # <<>>)
        BY <2>2, <2>r, ChangeKeepsTypes
    <2>4. EvalTypes'
        BY <1>0, <2>1, <2>3 DEF EvalTypes, Operation, evalVars
    <2>5. FlagTypes'
        BY <1>0, <2>1, <2>3 DEF FlagTypes, Operation, lifeVars
    <2>6. NotifTypes'
        BY <1>0, <2>1, <2>3, NotifTypesKept DEF Operation
    <2> QED BY <1>0, <2>1, <2>3, <2>4, <2>5, <2>6, PartsKept, TypeParts DEF Operation
<1>3. ASSUME Measurement PROVE TypeOK'
    <2> PICK p \in Points, v \in Values : EvaluateMeasurement(p, v)
        BY <1>3 DEF Measurement
    <2>1. [point |-> p, value |-> v] \in MeasurementType
        BY AlarmManagerAssumption DEF MeasurementType
    <2>2. QueueType'
        <3> HIDE DEF MeasurementType
        <3> QED BY <1>0, <2>1 DEF EvaluateMeasurement, QueueType
    <2>3. FlagTypes'
        BY <1>0 DEF EvaluateMeasurement, FlagTypes, storeVars, lifeVars
    <2> QED BY <1>0, <2>2, <2>3, PartsKept, TypeParts
            DEF EvaluateMeasurement, storeVars, ghostVars
<1>4. ASSUME Pop PROVE TypeOK'
    <2>1. measured' \in MeasurementType /\ QueueType'
        <3> HIDE DEF MeasurementType
        <3> QED BY <1>0, <1>4 DEF Pop, QueueType
    <2>2. EvalTypes'
        BY <1>0, <1>4, <2>1 DEF Pop, EvalTypes
    <2>3. FlagTypes'
        BY <1>0, <1>4 DEF Pop, FlagTypes, storeVars, lifeVars, countVars
    <2>4. StoreTypes'
        BY <1>0, <1>4 DEF Pop, StoreTypes, storeVars, AlarmIds
    <2> QED BY <1>0, <1>4, <2>1, <2>2, <2>3, <2>4, PartsKept, TypeParts DEF Pop, storeVars
<1>5. ASSUME QueueEmpty \/ Quit \/ NoRule PROVE TypeOK'
    <2>1. EvalTypes'
        BY <1>0, <1>5 DEF QueueEmpty, Quit, NoRule, EvalTypes
    <2>2. UNCHANGED <<ruleVars, evalQueue, storeVars, lifeVars, notifVars, countVars,
                      ghostVars>>
        BY <1>5 DEF QueueEmpty, Quit, NoRule
    <2> QED BY <1>0, <2>1, <2>2, PartsKept, TypeParts DEF storeVars, ghostVars
<1>6. ASSUME FetchRules PROVE TypeOK'
    <2>1. EvalTypes'
        BY <1>0, <1>6 DEF FetchRules, EvalTypes, RuleTypes
    <2> QED BY <1>0, <1>6, <2>1, PartsKept, TypeParts
            DEF FetchRules, storeVars, ghostVars
<1>7. ASSUME Hold PROVE TypeOK'
    <2>1. EvalTypes'
        BY <1>7, NextRuleTypes DEF Hold
    <2> QED BY <1>0, <1>7, <2>1, PartsKept, TypeParts DEF Hold, storeVars, ghostVars
<1>8. ASSUME Trigger PROVE TypeOK'
    <2>r. reset' \subseteq AlarmIds
        BY <1>0, <1>8 DEF Trigger, StoreTypes
    <2>1. StoreTypes' /\ AlarmIds' = AlarmIds /\ dbOpen' \in BOOLEAN
        <3>1. CASE UNCHANGED <<storeVars, behind>>
            BY <1>0, <2>r, <3>1 DEF StoreTypes, FlagTypes, storeVars, AlarmIds
        <3>2. CASE \E a \in Repeated :
                    Change(a, [alarms[a] EXCEPT !.value = measured.value, !.count = @ + 1])
            <4> PICK a \in Repeated :
                    Change(a, [alarms[a] EXCEPT !.value = measured.value, !.count = @ + 1])
                BY <3>2
            <4>1. a \in AlarmIds /\ alarms[a] \in AlarmType
                BY AlarmAt, FirstOfFinds DEF Repeated
            <4>2. measured.value \in Nat
                BY <1>0, <1>8 DEF Trigger, EvalTypes, MeasurementType
            <4>3. [alarms[a] EXCEPT !.value = measured.value, !.count = @ + 1] \in AlarmType
                BY <4>1, <4>2, ChangedTypes
            <4> QED BY <2>r, <4>1, <4>3, ChangeKeepsTypes
        <3> QED BY <1>8, <3>1, <3>2 DEF Trigger
    <2>2. EvalTypes'
        BY <1>0, <1>8 DEF Trigger, EvalTypes
    <2>3. FlagTypes'
        BY <1>0, <1>8, <2>1 DEF Trigger, FlagTypes, lifeVars, countVars
    <2>4. NotifTypes'
        BY <1>0, <1>8, <2>1, NotifTypesKept DEF Trigger
    <2> QED BY <1>0, <1>8, <2>1, <2>2, <2>3, <2>4, PartsKept, TypeParts DEF Trigger
<1>9. ASSUME Clear PROVE TypeOK'
    <2>r. reset' \subseteq AlarmIds
        BY <1>0, <1>9 DEF Clear, StoreTypes
    <2>1. StoreTypes' /\ AlarmIds' = AlarmIds /\ dbOpen' \in BOOLEAN
        <3>1. CASE UNCHANGED <<storeVars, behind>>
            BY <1>0, <2>r, <3>1 DEF StoreTypes, FlagTypes, storeVars, AlarmIds
        <3>2. CASE \E a \in Active : Change(a, Cleared(alarms[a]))
            <4> PICK a \in Active : Change(a, Cleared(alarms[a]))
                BY <3>2
            <4>1. a \in AlarmIds /\ alarms[a] \in AlarmType
                BY AlarmAt, FirstOfFinds DEF Active
            <4>2. Cleared(alarms[a]) \in AlarmType
                BY <4>1, ChangedTypes
            <4> QED BY <2>r, <4>1, <4>2, ChangeKeepsTypes
        <3> QED BY <1>9, <3>1, <3>2 DEF Clear
    <2>2. EvalTypes'
        BY <1>9, NextRuleTypes DEF Clear
    <2>3. FlagTypes'
        BY <1>0, <1>9, <2>1 DEF Clear, FlagTypes, lifeVars, countVars
    <2>4. NotifTypes'
        BY <1>0, <1>9, <2>1, NotifTypesKept DEF Clear
    <2> QED BY <1>0, <1>9, <2>1, <2>2, <2>3, <2>4, PartsKept, TypeParts DEF Clear
<1>10. ASSUME Insert PROVE TypeOK'
    <2>1. NewAlarm \in AlarmType
        BY <1>0, <1>10, NewAlarmType DEF Insert, EvalTypes
    <2>2. /\ alarms' \in Seq(AlarmType)
          /\ AlarmIds' = AlarmIds \cup {Latest'} /\ Latest' \notin AlarmIds
        BY <1>10, <2>1, InsertProperties DEF Insert
    <2>3. StoreTypes'
        BY <1>0, <1>10, <2>2 DEF Insert, StoreTypes, ghostVars
    <2>4. alarms' # <<>>
        <3>1. DOMAIN <<>> = {}
            OBVIOUS
        <3> QED BY <2>2, <3>1 DEF AlarmIds
    <2>5. EvalTypes'
        BY <1>0, <1>10, <2>4 DEF Insert, EvalTypes
    <2>6. NotifTypes'
        BY <1>0, <1>10, <2>2, NotifTypesKept DEF Insert
    <2> QED BY <1>0, <1>10, <2>3, <2>5, <2>6, PartsKept, TypeParts DEF Insert, ghostVars
<1>11. ASSUME PersistAlarm PROVE TypeOK'
    <2>1. NewAlarm \in AlarmType
        BY <1>0, <1>11, NewAlarmType DEF PersistAlarm, EvalTypes
    <2>2. Latest \in AlarmIds /\ AlarmIds' = AlarmIds
        <3>1. alarms \in Seq(AlarmType) /\ alarms # <<>>
            BY <1>0, <1>11 DEF PersistAlarm, EvalTypes, StoreTypes
        <3> HIDE DEF AlarmType
        <3> QED BY <1>11, <3>1 DEF PersistAlarm, AlarmIds, Latest
    <2>3. StoreTypes'
        BY <1>0, <1>11, <2>1, <2>2 DEF PersistAlarm, StoreTypes, ghostVars
    <2>4. EvalTypes'
        BY <1>0, <1>11 DEF PersistAlarm, EvalTypes
    <2> QED BY <1>0, <1>11, <2>3, <2>4, PartsKept, TypeParts DEF PersistAlarm, ghostVars
<1>12. ASSUME CheckAndTriggerNotification PROVE TypeOK'
    <2>1. Latest \in AlarmIds
        <3>1. alarms \in Seq(AlarmType) /\ alarms # <<>>
            BY <1>0, <1>12 DEF CheckAndTriggerNotification, EvalTypes, StoreTypes
        <3> HIDE DEF AlarmType
        <3> QED BY <1>12, <3>1 DEF AlarmIds, Latest
    <2>2. Notifies \subseteq NotificationType
        <3>1. \A type \in {"LOG_ONLY", "VISUAL", "SOUND"}, delivered \in BOOLEAN :
                  Notification(type, delivered) \in NotificationType
            BY <2>1 DEF Notification, NotificationType
        <3>2. \A n \in Notifies : \E type \in {"LOG_ONLY", "VISUAL", "SOUND"},
                                     delivered \in BOOLEAN :
                                        n = Notification(type, delivered)
            BY DEF Notifies
        <3> QED BY <3>1, <3>2
    <2>3. NotificationType' = NotificationType /\ AlarmIds' = AlarmIds
        BY <1>12
        DEF CheckAndTriggerNotification, NotificationType, AlarmIds, storeVars
    <2>4. NotifTypes'
        BY <1>0, <1>12, <2>2, <2>3 DEF CheckAndTriggerNotification, NotifTypes
    <2>5. EvalTypes'
        <3>1. todo # {}
            BY <1>0, <1>12 DEF CheckAndTriggerNotification, EvalTypes
        <3> QED BY <1>12, <3>1, NextRuleTypes DEF CheckAndTriggerNotification
    <2> QED BY <1>0, <1>12, <2>4, <2>5, PartsKept, TypeParts
            DEF CheckAndTriggerNotification, storeVars, ghostVars
<1>13. ASSUME \/ Dispatcher \/ GrowOld
              \/ \E type \in CallbackTypes : SetNotificationCallback(type)
       PROVE  TypeOK'
    <2>1. UNCHANGED <<ruleVars, evalQueue, storeVars, lifeVars, evalVars, ghostVars>>
        BY <1>13
        DEF Dispatcher, Collect, Deliver, CleanUp, QuitDispatcher, GrowOld,
            SetNotificationCallback
    <2>2. NotificationType' = NotificationType /\ AlarmIds' = AlarmIds
        BY <2>1 DEF NotificationType, AlarmIds, storeVars
    <2>3. NotifTypes'
        <3>1. CASE Collect
            BY <1>0, <2>2, <3>1 DEF Collect, NotifTypes
        <3>2. CASE Deliver
            <4> PICK n \in pending :
                    /\ pending' = pending \ {n}
                    /\ shown' = IF n.type \in callbacks /\ n.alarm \in AlarmIds
                                  THEN shown \cup {<<n.alarm, n.type>>} ELSE shown
                BY <3>2 DEF Deliver
            <4>1. shown' \subseteq AlarmIds \X {"VISUAL", "SOUND"}
                <5>1. shown \subseteq AlarmIds \X {"VISUAL", "SOUND"}
                      /\ callbacks \subseteq {"VISUAL", "SOUND"}
                    BY <1>0 DEF NotifTypes
                <5>2. CASE n.type \in callbacks /\ n.alarm \in AlarmIds
                    <6>1. <<n.alarm, n.type>> \in AlarmIds \X {"VISUAL", "SOUND"}
                        BY <5>1, <5>2
                    <6> QED BY <5>1, <5>2, <6>1
                <5>3. CASE ~(n.type \in callbacks /\ n.alarm \in AlarmIds)
                    BY <5>1, <5>3
                <5> QED BY <5>2, <5>3
            <4>2. npc' = npc /\ notifications' = notifications /\ callbacks' = callbacks
                BY <3>2 DEF Deliver
            <4> QED BY <1>0, <2>2, <4>1, <4>2 DEF NotifTypes
        <3>3. CASE CleanUp \/ QuitDispatcher
            BY <1>0, <2>2, <3>3 DEF CleanUp, QuitDispatcher, NotifTypes
        <3>4. CASE GrowOld
            <4>1. \A n \in notifications : [n EXCEPT !.old = TRUE] \in NotificationType
                BY <1>0 DEF NotifTypes, NotificationType
            <4> QED BY <1>0, <2>2, <3>4, <4>1 DEF GrowOld, NotifTypes
        <3>5. CASE \E type \in CallbackTypes : SetNotificationCallback(type)
            BY <1>0, <2>2, <3>5, AlarmManagerAssumption DEF SetNotificationCallback, NotifTypes
        <3> QED BY <1>13, <3>1, <3>2, <3>3, <3>4, <3>5 DEF Dispatcher
    <2>4. FlagTypes'
        BY <1>0, <1>13, <2>1
        DEF Dispatcher, Collect, Deliver, CleanUp, QuitDispatcher, GrowOld,
            SetNotificationCallback, FlagTypes, storeVars, lifeVars, countVars
    <2> QED BY <1>0, <2>1, <2>3, <2>4, PartsKept, TypeParts DEF storeVars
<1>14. ASSUME Lifecycle PROVE TypeOK'
    <2>1. UNCHANGED <<ruleVars, evalQueue, alarms, rows, measured, snapshot, todo,
                      notifications, pending, callbacks, shown, countVars, ghostVars>>
        BY <1>14 DEF Lifecycle, Initialize, Shutdown, ShutdownEnd, storeVars, evalVars,
                     notifVars
    <2>2. EvalTypes' /\ FlagTypes'
        BY <1>0, <1>14, <2>1
        DEF Lifecycle, Initialize, Shutdown, ShutdownEnd, EvalTypes, FlagTypes,
            storeVars, evalVars, countVars, ghostVars
    <2>3. NotificationType' = NotificationType /\ AlarmIds' = AlarmIds
        BY <2>1 DEF NotificationType, AlarmIds
    <2>4. npc' \in {"off", "top", "deliver"}
        BY <1>0, <1>14
        DEF Lifecycle, Initialize, Shutdown, ShutdownEnd, NotifTypes, notifVars
    <2>5. NotifTypes'
        BY <1>0, <2>1, <2>3, <2>4 DEF NotifTypes
    <2>6. StoreTypes'
        BY <1>0, <2>1, <2>3 DEF StoreTypes, ghostVars
    <2> QED BY <1>0, <2>1, <2>2, <2>5, <2>6, PartsKept, TypeParts
<1>15. CASE UNCHANGED vars
    BY <1>0, <1>15, PartsKept, TypeParts DEF vars, storeVars, ghostVars
<1> QED BY <1>1, <1>2, <1>3, <1>4, <1>5, <1>6, <1>7, <1>8, <1>9, <1>10, <1>11,
           <1>12, <1>13, <1>14, <1>15
        DEF Next, EvalThread

LEMMA InitType == Init => TypeOK
<1>1. /\ DOMAIN <<>> = {} /\ <<>> \in Seq(MeasurementType)
      /\ <<>> \in Seq(AlarmType)
    OBVIOUS
<1> SUFFICES ASSUME Init PROVE TypeOK
    OBVIOUS
<1>2. RuleTypes /\ QueueType /\ StoreTypes
    BY <1>1 DEF Init, RuleTypes, QueueType, StoreTypes, AlarmIds
<1>3. EvalTypes
    BY <1>1 DEF Init, EvalTypes
<1>4. NotifTypes
    BY DEF Init, NotifTypes
<1>5. FlagTypes
    BY DEF Init, FlagTypes
<1> QED BY <1>2, <1>3, <1>4, <1>5, TypeParts

\* Every variable has its type in every behaviour of the alarm manager: the
\* rows and the notifications are those of alarms of m_activeAlarms, and the
\* rules the evaluation thread has yet to evaluate are among its copies
\* (alarm_manager.cpp:375-399).
THEOREM TypeCorrect == Spec => []TypeOK
BY InitType, TypeInv, PTL DEF Spec

-----------------------------------------------------------------------------
(***************************************************************************)
(* The rows follow the alarms.                                             *)
(***************************************************************************)

LEMMA LatestIsLast ==
    ASSUME TypeOK, alarms # <<>>
    PROVE  Latest \in AlarmIds
<1>1. alarms \in Seq(AlarmType)
    BY DEF TypeOK
<1> HIDE DEF AlarmType
<1> QED BY <1>1 DEF AlarmIds, Latest

\* A change between the insertion in the map and in the table puts the alarm
\* behind, and any other change the table follows.
LEMMA ChangeKeepsRows ==
    ASSUME RowsInv, NEW a \in AlarmIds, NEW alarm \in AlarmType, Change(a, alarm),
           epc' = "persist" <=> epc = "persist",
           epc = "persist" => NewAlarm' = NewAlarm
    PROVE  Persisting' /\ RowsFollow'
<1> USE DEF RowsInv
<1>1. /\ AlarmIds' = AlarmIds
      /\ alarms'[a] = alarm
      /\ \A b \in AlarmIds \ {a} : alarms'[b] = alarms[b]
      /\ DOMAIN rows' = DOMAIN rows
      /\ \A b \in DOMAIN rows \ {a} : rows'[b] = rows[b]
      /\ a \in behind' \/ (a \in DOMAIN rows /\ rows'[a] = alarm)
      /\ behind' \ {a} = behind \ {a}
    BY ChangeProperties
<1>2. Latest' = Latest
    BY ChangeProperties DEF Latest
<1>3. Persisting'
    <2> SUFFICES ASSUME epc = "persist"
                 PROVE  /\ Latest \notin DOMAIN rows
                        /\ Latest \in behind' \/ alarms'[Latest] = NewAlarm
        BY <1>1, <1>2 DEF Persisting
    <2>1. Latest \notin DOMAIN rows
        BY DEF Persisting
    <2>2. Latest \in AlarmIds
        BY LatestIsLast DEF TypeOK
    <2>3. CASE a = Latest
        BY <1>1, <2>1, <2>3
    <2>4. CASE a # Latest
        BY <1>1, <2>1, <2>2, <2>4 DEF Persisting
    <2> QED BY <2>3, <2>4
<1>4. ASSUME NEW b \in AlarmIds, ~(b = Latest /\ epc = "persist")
      PROVE  b \in behind' \/ (b \in DOMAIN rows /\ rows'[b] = alarms'[b])
    <2>1. b \in behind \/ (b \in DOMAIN rows /\ rows[b] = alarms[b])
        BY <1>4 DEF RowsFollow
    <2>2. CASE b = a
        BY <1>1, <2>1, <2>2
    <2>3. CASE b # a
        BY <1>1, <2>1, <2>3
    <2> QED BY <2>2, <2>3
<1>5. RowsFollow'
    BY <1>1, <1>2, <1>4 DEF RowsFollow
<1> QED BY <1>3, <1>5

LEMMA RowsKept ==
    ASSUME RowsInv, UNCHANGED <<alarms, rows, behind>>,
           epc' = "persist" <=> epc = "persist",
           epc = "persist" => NewAlarm' = NewAlarm
    PROVE  Persisting' /\ RowsFollow'
<1>1. Latest' = Latest /\ AlarmIds' = AlarmIds
    BY DEF Latest, AlarmIds
<1>2. Persisting'
    BY <1>1 DEF RowsInv, Persisting
<1>3. RowsFollow'
    BY <1>1 DEF RowsInv, RowsFollow
<1> QED BY <1>2, <1>3

\* The evaluation thread's copy is its own.
LEMMA NewAlarmKept ==
    ASSUME UNCHANGED <<measured, todo>>
    PROVE  NewAlarm' = NewAlarm
<1>1. Rule' = Rule
    BY DEF Rule
<1> QED BY <1>1 DEF NewAlarm

\* The database closes when the thread has ended.
LEMMA OpenInv == OpenWhileEvaluating /\ [Next]_vars => OpenWhileEvaluating'
<1> SUFFICES ASSUME OpenWhileEvaluating, [Next]_vars PROVE OpenWhileEvaluating'
    OBVIOUS
<1> USE DEF OpenWhileEvaluating, storeVars, lifeVars, evalVars
<1>1. CASE RuleChanges
    BY <1>1 DEF RuleChanges, AddRule, DeleteRule, EnableRule, Silence, RuleChange
<1>2. CASE Operator
    BY <1>2
    DEF Operator, AcknowledgeAlarm, ResetAlarm, SuppressAlarm, UnSuppressAlarm,
        AddNotes, Operation, Change
<1>3. CASE Measurement
    BY <1>3 DEF Measurement, EvaluateMeasurement
<1>4. CASE EvalThread
    <2>1. CASE Pop \/ QueueEmpty \/ Quit \/ FetchRules \/ NoRule \/ Hold
        BY <2>1 DEF Pop, QueueEmpty, Quit, FetchRules, NoRule, Hold
    <2>2. CASE Trigger \/ Clear
        BY <2>2 DEF Trigger, Clear, Change
    <2>3. CASE Insert \/ PersistAlarm \/ CheckAndTriggerNotification
        BY <2>3 DEF Insert, PersistAlarm, CheckAndTriggerNotification
    <2> QED BY <1>4, <2>1, <2>2, <2>3 DEF EvalThread
<1>5. CASE Dispatcher
    BY <1>5 DEF Dispatcher, Collect, Deliver, CleanUp, QuitDispatcher
<1>6. CASE \/ GrowOld
           \/ \E type \in CallbackTypes : SetNotificationCallback(type)
    BY <1>6 DEF GrowOld, SetNotificationCallback
<1>7. CASE Lifecycle
    BY <1>7 DEF Lifecycle, Initialize, Shutdown, ShutdownEnd
<1>8. CASE UNCHANGED vars
    BY <1>8 DEF vars
<1> QED BY <1>1, <1>2, <1>3, <1>4, <1>5, <1>6, <1>7, <1>8 DEF Next

LEMMA RowsStep == RowsInv /\ [Next]_vars => Persisting' /\ RowsFollow'
<1> SUFFICES ASSUME RowsInv, [Next]_vars PROVE Persisting' /\ RowsFollow'
    OBVIOUS
<1>0. TypeOK
    BY DEF RowsInv
<1>1. CASE \/ RuleChanges \/ Measurement \/ Dispatcher \/ GrowOld
           \/ \E type \in CallbackTypes : SetNotificationCallback(type)
           \/ Shutdown \/ ShutdownEnd \/ UNCHANGED vars
    <2>1. UNCHANGED <<alarms, rows, behind, epc, measured, todo>>
        BY <1>1
        DEF RuleChanges, AddRule, DeleteRule, EnableRule, Silence, RuleChange,
            Measurement, EvaluateMeasurement, Dispatcher, Collect, Deliver, CleanUp,
            QuitDispatcher, GrowOld, SetNotificationCallback, Shutdown, ShutdownEnd,
            vars, storeVars, ghostVars, evalVars
    <2> QED BY <2>1, NewAlarmKept, RowsKept
<1>2. CASE Operator
    <2> PICK a \in AlarmIds :
            \/ AcknowledgeAlarm(a) \/ ResetAlarm(a) \/ SuppressAlarm(a)
            \/ UnSuppressAlarm(a) \/ AddNotes(a)
        BY <1>2 DEF Operator
    <2>1. PICK alarm \in AlarmType : Change(a, alarm)
        BY <1>0, AlarmAt, ChangedTypes
        DEF AcknowledgeAlarm, ResetAlarm, SuppressAlarm, UnSuppressAlarm, AddNotes
    <2>2. UNCHANGED <<epc, measured, todo>>
        BY DEF AcknowledgeAlarm, ResetAlarm, SuppressAlarm, UnSuppressAlarm, AddNotes,
               Operation, evalVars
    <2> QED BY <2>1, <2>2, NewAlarmKept, ChangeKeepsRows
<1>3. CASE \/ Pop \/ QueueEmpty \/ Quit \/ FetchRules \/ NoRule \/ Hold
           \/ CheckAndTriggerNotification
    <2>1. UNCHANGED <<alarms, rows, behind>> /\ epc # "persist" /\ epc' # "persist"
        BY <1>3
        DEF Pop, QueueEmpty, Quit, FetchRules, NoRule, Hold,
            CheckAndTriggerNotification, NextRule, storeVars, ghostVars
    <2> QED BY <2>1, RowsKept
<1>4. CASE Trigger
    <2>1. epc # "persist" /\ epc' # "persist"
        BY <1>4 DEF Trigger
    <2>2. CASE UNCHANGED <<storeVars, behind>>
        BY <2>1, <2>2, RowsKept DEF storeVars
    <2>3. CASE \E a \in Repeated :
                Change(a, [alarms[a] EXCEPT !.value = measured.value, !.count = @ + 1])
        <3> PICK a \in Repeated :
                Change(a, [alarms[a] EXCEPT !.value = measured.value, !.count = @ + 1])
            BY <2>3
        <3>1. a \in AlarmIds /\ alarms[a] \in AlarmType
            BY <1>0, AlarmAt, FirstOfFinds DEF Repeated
        <3>2. measured.value \in Nat
            BY <1>0, <1>4 DEF Trigger, TypeOK, MeasurementType
        <3>3. [alarms[a] EXCEPT !.value = measured.value, !.count = @ + 1] \in AlarmType
            BY <3>1, <3>2, ChangedTypes
        <3> QED BY <2>1, <3>1, <3>3, ChangeKeepsRows
    <2> QED BY <1>4, <2>2, <2>3 DEF Trigger
<1>5. CASE Clear
    <2>1. epc # "persist" /\ epc' # "persist"
        BY <1>5 DEF Clear, NextRule
    <2>2. CASE UNCHANGED <<storeVars, behind>>
        BY <2>1, <2>2, RowsKept DEF storeVars
    <2>3. CASE \E a \in Active : Change(a, Cleared(alarms[a]))
        <3> PICK a \in Active : Change(a, Cleared(alarms[a]))
            BY <2>3
        <3>1. a \in AlarmIds /\ Cleared(alarms[a]) \in AlarmType
            BY <1>0, AlarmAt, FirstOfFinds, ChangedTypes DEF Active
        <3> QED BY <2>1, <3>1, ChangeKeepsRows
    <2> QED BY <1>5, <2>2, <2>3 DEF Clear
<1>6. CASE Insert
    <2>1. NewAlarm \in AlarmType
        BY <1>0, <1>6, NewAlarmType DEF Insert, TypeOK
    <2>2. /\ AlarmIds' = AlarmIds \cup {Latest'}
          /\ Latest' \notin AlarmIds /\ alarms'[Latest'] = NewAlarm
          /\ \A b \in AlarmIds : alarms'[b] = alarms[b]
        BY <1>0, <1>6, <2>1, InsertProperties DEF Insert
    <2>3. /\ rows' = rows /\ behind' = behind /\ NewAlarm' = NewAlarm
          /\ epc = "insert" /\ epc' = "persist"
        BY <1>6, NewAlarmKept DEF Insert, ghostVars
    <2>4. Persisting'
        BY <1>0, <2>2, <2>3 DEF Persisting, TypeOK
    <2>5. RowsFollow'
        <3>1. \A a \in AlarmIds :
                  a \in behind \/ (a \in DOMAIN rows /\ rows[a] = alarms[a])
            BY <2>3 DEF RowsInv, RowsFollow
        <3> QED BY <2>2, <2>3, <3>1 DEF RowsFollow
    <2> QED BY <2>4, <2>5
<1>7. CASE PersistAlarm
    <2>1. alarms' = alarms /\ epc = "persist" /\ epc' # "persist"
        BY <1>7 DEF PersistAlarm
    <2>2. AlarmIds' = AlarmIds /\ \A a \in AlarmIds \ {Latest} :
              a \in behind \/ (a \in DOMAIN rows /\ rows[a] = alarms[a])
        BY <2>1 DEF RowsInv, RowsFollow, AlarmIds
    <2>3. CASE /\ rows' = [a \in DOMAIN rows \cup {Latest} |->
                               IF a = Latest THEN NewAlarm ELSE rows[a]]
               /\ behind' = behind
        <3>1. /\ DOMAIN rows' = DOMAIN rows \cup {Latest}
              /\ rows'[Latest] = NewAlarm
              /\ \A a \in DOMAIN rows \ {Latest} : rows'[a] = rows[a]
            BY <2>3
        <3>2. Latest \in behind \/ alarms[Latest] = NewAlarm
            BY <2>1 DEF RowsInv, Persisting
        <3> QED BY <2>1, <2>2, <2>3, <3>1, <3>2 DEF Persisting, RowsFollow
    <2>4. CASE rows' = rows /\ behind' = behind \cup {Latest}
        BY <2>1, <2>2, <2>4 DEF Persisting, RowsFollow
    <2> QED BY <1>7, <2>3, <2>4 DEF PersistAlarm
<1>8. CASE Initialize
    <2>1. UNCHANGED <<alarms, rows, behind>> /\ epc # "persist" /\ epc' # "persist"
        BY <1>8 DEF Initialize, RowsInv, OpenWhileEvaluating, ghostVars
    <2> QED BY <2>1, RowsKept
<1> QED BY <1>1, <1>2, <1>3, <1>4, <1>5, <1>6, <1>7, <1>8
        DEF Next, EvalThread, Lifecycle

\* Every alarm but the one that is being made has its row, and the row is what
\* m_activeAlarms holds, unless the alarm's last statement did not take effect:
\* it failed (alarm_manager.cpp:872, 896), found the database closed, or was an
\* UPDATE between the insertion in the map (505) and persistAlarm (508) or after
\* an INSERT that failed.  This is so whatever the rules, the operators' calls,
\* their order and the statements that fail.
THEOREM RowsAlwaysFollow == Spec => []RowsFollow
<1>1. Init => OpenWhileEvaluating /\ Persisting /\ RowsFollow
    <2>1. DOMAIN <<>> = {}
        OBVIOUS
    <2> QED BY <2>1 DEF Init, OpenWhileEvaluating, Persisting, RowsFollow, AlarmIds
<1>2. Init => RowsInv
    BY <1>1, InitType DEF RowsInv
<1>3. RowsInv /\ [Next]_vars => RowsInv'
    BY TypeInv, OpenInv, RowsStep DEF RowsInv
<1>4. RowsInv => RowsFollow
    BY DEF RowsInv
<1> QED BY <1>2, <1>3, <1>4, PTL DEF Spec

-----------------------------------------------------------------------------
(***************************************************************************)
(* What is measured is raised.                                             *)
(***************************************************************************)

\* Changing alarms of other rules, or adding one, leaves a rule's alarms.
LEMMA StaysRaised ==
    ASSUME NEW id, Raised(id), UNCHANGED <<measured, snapshot, reset>>,
           AlarmIds \subseteq AlarmIds',
           \A a \in AlarmIds : alarms[a].rule = id => alarms'[a] = alarms[a]
    PROVE  Raised(id)'
<1> PICK a \in AlarmIds :
        /\ alarms[a].rule = id
        /\ alarms[a].state \in ActiveStates \/ a \in reset
        /\ \/ alarms[a].value = measured.value
           \/ Distance(alarms[a].value, measured.value) < snapshot[id].deadband
    BY DEF Raised
<1>1. a \in AlarmIds' /\ alarms'[a] = alarms[a]
    OBVIOUS
<1> QED BY <1>1 DEF Raised

\* The distance of two values is the same both ways.
LEMMA DistanceSymmetric ==
    \A v, w \in Nat : Distance(v, w) = Distance(w, v)
BY DEF Distance

\* The end of a round in which the rule was raised, or not met.
LEMMA RoundEnds ==
    ASSUME RaisedInv, NextRule, todo # {}, epc \in {"evaluate", "notify"},
           UNCHANGED <<measured, snapshot, reset>>, AlarmIds \subseteq AlarmIds',
           \A a \in AlarmIds : alarms[a].rule # Rule => alarms'[a] = alarms[a],
           \A id \in {Rule} : Met(snapshot[id], measured.value) => Raised(id)'
    PROVE  Evaluating'
<1>1. todo' = todo \ {Rule} /\ epc' = IF todo' = {} THEN "more" ELSE "evaluate"
    BY DEF NextRule
<1>2. ASSUME NEW id \in DOMAIN snapshot \ todo',
             Met(snapshot[id], measured.value)
      PROVE  Raised(id)'
    <2>1. CASE id = Rule
        BY <1>2, <2>1
    <2>2. CASE id # Rule
        <3>1. id \in DOMAIN snapshot \ todo
            BY <1>1, <1>2, <2>2
        <3>2. Raised(id)
            BY <1>2, <3>1 DEF RaisedInv, Evaluating
        <3> QED BY <2>2, <3>2, StaysRaised
    <2> QED BY <2>1, <2>2
<1>3. ASSUME NEW id \in DOMAIN snapshot' \ todo',
             Met(snapshot'[id], measured'.value)
      PROVE  Raised(id)'
    BY <1>2, <1>3
<1> QED BY <1>1, <1>3 DEF Evaluating

\* A step outside the rounds, or one that leaves each alarm its rule and its
\* value and keeps it active or notes that it was reset.
LEMMA RoundsKept ==
    ASSUME RaisedInv,
           \/ epc' \in {"off", "wait", "fetch"}
           \/ /\ UNCHANGED <<epc, measured, snapshot, todo>>
              /\ AlarmIds' = AlarmIds /\ Len(alarms') = Len(alarms)
              /\ \A a \in AlarmIds :
                    /\ alarms'[a].rule = alarms[a].rule
                    /\ alarms'[a].value = alarms[a].value
                    /\ alarms[a].state \in ActiveStates \/ a \in reset =>
                          alarms'[a].state \in ActiveStates \/ a \in reset'
    PROVE  Evaluating'
<1>1. CASE epc' \in {"off", "wait", "fetch"}
    BY <1>1 DEF Evaluating
<1>2. CASE /\ UNCHANGED <<epc, measured, snapshot, todo>>
           /\ AlarmIds' = AlarmIds /\ Len(alarms') = Len(alarms)
           /\ \A a \in AlarmIds :
                 /\ alarms'[a].rule = alarms[a].rule
                 /\ alarms'[a].value = alarms[a].value
                 /\ alarms[a].state \in ActiveStates \/ a \in reset =>
                       alarms'[a].state \in ActiveStates \/ a \in reset'
    <2>1. Rule' = Rule /\ Latest' = Latest
        BY <1>2 DEF Rule, Latest
    <2>2. \A id : Raised(id) => Raised(id)'
        BY <1>2 DEF Raised
    <2>3. epc \in {"persist", "notify"} => Latest \in AlarmIds
        BY LatestIsLast DEF RaisedInv, TypeOK
    <2> QED BY <1>2, <2>1, <2>2, <2>3 DEF RaisedInv, Evaluating
<1> QED BY <1>1, <1>2

\* An operator's call leaves every alarm its rule and its value, and only a
\* reset makes an active one inactive.
LEMMA OperatorKeeps ==
    ASSUME TypeOK, Operator
    PROVE  /\ UNCHANGED <<epc, measured, snapshot, todo>>
           /\ AlarmIds' = AlarmIds /\ Len(alarms') = Len(alarms)
           /\ \A a \in AlarmIds :
                 /\ alarms'[a].rule = alarms[a].rule
                 /\ alarms'[a].value = alarms[a].value
                 /\ alarms[a].state \in ActiveStates \/ a \in reset =>
                       alarms'[a].state \in ActiveStates \/ a \in reset'
<1> PICK a \in AlarmIds :
        \/ AcknowledgeAlarm(a) \/ ResetAlarm(a) \/ SuppressAlarm(a)
        \/ UnSuppressAlarm(a) \/ AddNotes(a)
    BY DEF Operator
<1>1. alarms[a] \in AlarmType
    BY AlarmAt
<1>2. PICK alarm \in AlarmType :
          /\ Change(a, alarm)
          /\ alarm.rule = alarms[a].rule /\ alarm.value = alarms[a].value
          /\ alarms[a].state \in ActiveStates \/ a \in reset =>
                alarm.state \in ActiveStates \/ a \in reset'
    <2>1. CASE AcknowledgeAlarm(a)
        <3> DEFINE alarm == [alarms[a] EXCEPT !.state = "ACTIVE_ACK",
                                              !.acknowledged = TRUE]
        <3>1. alarm \in AlarmType /\ Change(a, alarm)
            BY <1>1, <2>1, ChangedTypes DEF AcknowledgeAlarm
        <3>2. /\ alarm.rule = alarms[a].rule /\ alarm.value = alarms[a].value
              /\ alarm.state \in ActiveStates
            BY <1>1 DEF AlarmType, ActiveStates
        <3> QED BY <3>1, <3>2
    <2>2. CASE ResetAlarm(a)
        <3> DEFINE alarm == [alarms[a] EXCEPT !.state = "INACTIVE_ACK", !.cleared = TRUE]
        <3>1. alarm \in AlarmType /\ Change(a, alarm) /\ a \in reset'
            BY <1>1, <2>2, ChangedTypes DEF ResetAlarm
        <3>2. alarm.rule = alarms[a].rule /\ alarm.value = alarms[a].value
            BY <1>1 DEF AlarmType
        <3> QED BY <3>1, <3>2
    <2>3. CASE SuppressAlarm(a)
        <3> DEFINE alarm == [alarms[a] EXCEPT !.state = "SUPPRESSED"]
        <3>1. alarm \in AlarmType /\ Change(a, alarm)
            BY <1>1, <2>3, ChangedTypes DEF SuppressAlarm
        <3>2. /\ alarm.rule = alarms[a].rule /\ alarm.value = alarms[a].value
              /\ alarm.state \in ActiveStates
            BY <1>1 DEF AlarmType, ActiveStates
        <3> QED BY <3>1, <3>2
    <2>4. CASE UnSuppressAlarm(a)
        <3> DEFINE alarm == [alarms[a] EXCEPT !.state = "ACTIVE_UNACK"]
        <3>1. alarm \in AlarmType /\ Change(a, alarm)
            BY <1>1, <2>4, ChangedTypes DEF UnSuppressAlarm
        <3>2. /\ alarm.rule = alarms[a].rule /\ alarm.value = alarms[a].value
              /\ alarm.state \in ActiveStates
            BY <1>1 DEF AlarmType, ActiveStates
        <3> QED BY <3>1, <3>2
    <2>5. CASE AddNotes(a)
        BY <1>1, <2>5 DEF AddNotes
    <2> QED BY <2>1, <2>2, <2>3, <2>4, <2>5
<1>3. UNCHANGED <<epc, measured, snapshot, todo>> /\ reset \subseteq reset'
    BY DEF AcknowledgeAlarm, ResetAlarm, SuppressAlarm, UnSuppressAlarm, AddNotes,
           Operation, evalVars
<1>4. /\ AlarmIds' = AlarmIds /\ Len(alarms') = Len(alarms) /\ alarms'[a] = alarm
      /\ \A b \in AlarmIds \ {a} : alarms'[b] = alarms[b]
    BY <1>2, ChangeProperties
<1> QED BY <1>2, <1>3, <1>4

LEMMA RaisedStep == RaisedInv /\ [Next]_vars => Evaluating'
<1> SUFFICES ASSUME RaisedInv, [Next]_vars PROVE Evaluating'
    OBVIOUS
<1>0. TypeOK
    BY DEF RaisedInv
<1>1. CASE \/ RuleChanges \/ Measurement \/ Dispatcher \/ GrowOld
           \/ \E type \in CallbackTypes : SetNotificationCallback(type)
           \/ Shutdown \/ ShutdownEnd \/ UNCHANGED vars
    <2>1. UNCHANGED <<alarms, epc, measured, snapshot, todo, reset>>
        BY <1>1
        DEF RuleChanges, AddRule, DeleteRule, EnableRule, Silence, RuleChange,
            Measurement, EvaluateMeasurement, Dispatcher, Collect, Deliver, CleanUp,
            QuitDispatcher, GrowOld, SetNotificationCallback, Shutdown, ShutdownEnd,
            vars, storeVars, ghostVars, evalVars
    <2>2. AlarmIds' = AlarmIds /\ Len(alarms') = Len(alarms)
        BY <2>1 DEF AlarmIds
    <2> QED BY <2>1, <2>2, RoundsKept
<1>2. CASE Operator
    BY <1>0, <1>2, OperatorKeeps, RoundsKept
<1>3. CASE Pop \/ QueueEmpty \/ Quit \/ Initialize
    <2>1. epc' \in {"off", "wait", "fetch"}
        BY <1>3 DEF Pop, QueueEmpty, Quit, Initialize
    <2> QED BY <2>1, RoundsKept
<1>4. CASE FetchRules
    <2>1. DOMAIN snapshot' = todo' /\ epc' = "evaluate"
        BY <1>4 DEF FetchRules
    <2> QED BY <2>1 DEF Evaluating
<1>5. CASE NoRule
    <2>1. /\ UNCHANGED <<alarms, measured, snapshot, todo, reset>>
          /\ todo = {} /\ epc = "evaluate" /\ epc' = "more"
        BY <1>5 DEF NoRule, storeVars, ghostVars
    <2>2. \A id : Raised(id) => Raised(id)'
        BY <2>1 DEF Raised, AlarmIds
    <2> QED BY <2>1, <2>2 DEF RaisedInv, Evaluating
<1>6. CASE Hold
    <2>1. /\ UNCHANGED <<alarms, measured, snapshot, reset>>
          /\ todo # {} /\ epc = "evaluate" /\ NextRule
        BY <1>6 DEF Hold, storeVars, ghostVars
    <2>2. AlarmIds' = AlarmIds
        BY <2>1 DEF AlarmIds
    <2>3. Raised(Rule)
        <3> PICK a \in Repeated : InDeadband(a)
            BY <1>6 DEF Hold
        <3>1. /\ a \in AlarmIds /\ alarms[a].rule = Rule
              /\ alarms[a].state \in ActiveStates
            BY FirstOfFinds DEF Repeated, ActiveStates
        <3>2. alarms[a].value \in Nat /\ measured.value \in Nat
            BY <1>0, <2>1, <3>1, AlarmAt DEF TypeOK, AlarmType, MeasurementType
        <3>3. Distance(alarms[a].value, measured.value) < snapshot[Rule].deadband
            BY <3>2, DistanceSymmetric DEF InDeadband
        <3> QED BY <3>1, <3>3 DEF Raised
    <2>4. \A id \in {Rule} : Raised(id)'
        BY <2>1, <2>2, <2>3, StaysRaised
    <2> QED BY <2>1, <2>2, <2>4, RoundEnds
<1>7. CASE Trigger
    <2>1. /\ UNCHANGED <<measured, snapshot, todo, reset>>
          /\ todo # {} /\ epc = "evaluate" /\ epc' = "insert"
        BY <1>7 DEF Trigger
    <2>2. /\ AlarmIds' = AlarmIds
          /\ \A a \in AlarmIds : alarms[a].rule # Rule => alarms'[a] = alarms[a]
        <3>1. CASE UNCHANGED <<storeVars, behind>>
            BY <3>1 DEF storeVars, AlarmIds
        <3>2. CASE \E a \in Repeated :
                    Change(a, [alarms[a] EXCEPT !.value = measured.value, !.count = @ + 1])
            <4> PICK a \in Repeated :
                    Change(a, [alarms[a] EXCEPT !.value = measured.value, !.count = @ + 1])
                BY <3>2
            <4>1. a \in AlarmIds /\ alarms[a].rule = Rule
                BY FirstOfFinds DEF Repeated
            <4> QED BY <4>1 DEF Change, AlarmIds
        <3> QED BY <1>7, <3>1, <3>2 DEF Trigger
    <2>3. ASSUME NEW id \in DOMAIN snapshot \ todo,
                 Met(snapshot[id], measured.value)
          PROVE  Raised(id)'
        <3>1. Raised(id)
            BY <2>1, <2>3 DEF RaisedInv, Evaluating
        <3>2. id # Rule
            BY <1>0, <2>1, <2>3, RuleIsFirst
        <3> QED BY <2>1, <2>2, <3>1, <3>2, StaysRaised
    <2> QED BY <2>1, <2>3 DEF Evaluating
<1>8. CASE Clear
    <2>1. /\ UNCHANGED <<measured, snapshot, reset>>
          /\ todo # {} /\ epc = "evaluate" /\ NextRule
          /\ ~Met(snapshot[Rule], measured.value)
        BY <1>8 DEF Clear
    <2>2. /\ AlarmIds' = AlarmIds
          /\ \A a \in AlarmIds : alarms[a].rule # Rule => alarms'[a] = alarms[a]
        <3>1. CASE UNCHANGED <<storeVars, behind>>
            BY <3>1 DEF storeVars, AlarmIds
        <3>2. CASE \E a \in Active : Change(a, Cleared(alarms[a]))
            <4> PICK a \in Active : Change(a, Cleared(alarms[a]))
                BY <3>2
            <4>1. a \in AlarmIds /\ alarms[a].rule = Rule
                BY FirstOfFinds DEF Active
            <4> QED BY <4>1 DEF Change, AlarmIds
        <3> QED BY <1>8, <3>1, <3>2 DEF Clear
    <2> QED BY <2>1, <2>2, RoundEnds
<1>9. CASE Insert
    <2>1. /\ UNCHANGED <<measured, snapshot, todo, reset>>
          /\ todo # {} /\ epc = "insert" /\ epc' = "persist"
        BY <1>0, <1>9 DEF Insert, TypeOK, ghostVars
    <2>2. NewAlarm \in AlarmType /\ Rule' = Rule
        BY <1>0, <2>1, NewAlarmType DEF Rule
    <2>3. /\ AlarmIds \subseteq AlarmIds' /\ alarms'[Latest'] = NewAlarm
          /\ \A b \in AlarmIds : alarms'[b] = alarms[b]
        BY <1>0, <1>9, <2>2, InsertProperties DEF Insert
    <2>4. ASSUME NEW id \in DOMAIN snapshot \ todo,
                 Met(snapshot[id], measured.value)
          PROVE  Raised(id)'
        <3>1. Raised(id)
            BY <2>1, <2>4 DEF RaisedInv, Evaluating
        <3> QED BY <2>1, <2>3, <3>1, StaysRaised
    <2>5. /\ NewAlarm.rule = Rule /\ NewAlarm.value = measured.value
          /\ NewAlarm.state \in ActiveStates
        BY DEF NewAlarm, ActiveStates
    <2> QED BY <2>1, <2>2, <2>3, <2>4, <2>5 DEF Evaluating
<1>10. CASE PersistAlarm
    <2>1. /\ UNCHANGED <<alarms, measured, snapshot, todo, reset>>
          /\ epc = "persist" /\ epc' = "notify"
        BY <1>10 DEF PersistAlarm, ghostVars
    <2>2. Rule' = Rule /\ Latest' = Latest /\ AlarmIds' = AlarmIds
        BY <2>1 DEF Rule, Latest, AlarmIds
    <2>3. \A id : Raised(id) => Raised(id)'
        BY <2>1, <2>2 DEF Raised
    <2> QED BY <2>1, <2>2, <2>3 DEF RaisedInv, Evaluating
<1>11. CASE CheckAndTriggerNotification
    <2>1. /\ UNCHANGED <<alarms, measured, snapshot, reset>>
          /\ todo # {} /\ epc = "notify" /\ NextRule
        BY <1>0, <1>11 DEF CheckAndTriggerNotification, TypeOK, storeVars, ghostVars
    <2>2. AlarmIds' = AlarmIds
        BY <2>1 DEF AlarmIds
    <2>3. \A id \in {Rule} : Raised(id)'
        <3>1. /\ alarms[Latest].rule = Rule /\ alarms[Latest].value = measured.value
              /\ alarms[Latest].state \in ActiveStates \/ Latest \in reset
            BY <2>1 DEF RaisedInv, Evaluating
        <3>2. Latest \in AlarmIds
            BY <1>0, <2>1, LatestIsLast DEF TypeOK
        <3>3. Raised(Rule)
            BY <3>1, <3>2 DEF Raised
        <3> QED BY <2>1, <2>2, <3>3, StaysRaised
    <2> QED BY <2>1, <2>2, <2>3, RoundEnds
<1> QED BY <1>1, <1>2, <1>3, <1>4, <1>5, <1>6, <1>7, <1>8, <1>9, <1>10, <1>11
        DEF Next, EvalThread, Lifecycle

\* When the evaluation of a measurement ends, every rule whose condition it
\* meets has an active alarm with about its value, or had one that was reset
\* meanwhile (alarm_manager.cpp:404-516): for any rules, in any number, whatever
\* alarms there were, and whatever operators and changes of the rules came
\* between.
THEOREM AlwaysRaisedWhenMet == Spec => []RaisedWhenMet
<1>1. Init => RaisedInv
    BY InitType DEF Init, RaisedInv, Evaluating
<1>2. RaisedInv /\ [Next]_vars => RaisedInv'
    BY TypeInv, RaisedStep DEF RaisedInv
<1>3. RaisedInv => RaisedWhenMet
    BY DEF RaisedInv, Evaluating, RaisedWhenMet, Raised
<1> QED BY <1>1, <1>2, <1>3, PTL DEF Spec
===============================================================================
