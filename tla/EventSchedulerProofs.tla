------------------------- MODULE EventSchedulerProofs -------------------------
(***************************************************************************)
(* What holds of EventScheduler for any number of clients, any kinds of    *)
(* events and any bounds.                                                  *)
(*                                                                         *)
(* An id is at one place at a time: about to be pushed by one thread, in   *)
(* the queue, in the hands of the scheduler thread, or behind it.  Apart   *)
(* says so, and is what makes ExecutesOnce inductive; what is in hand is   *)
(* not in the history yet (InHand), which makes HistoryTruthful so.  The   *)
(* events of a series are numbered (Numbering), and the one underway is    *)
(* the last of them (OneUnderway): its repetition gets a number of its     *)
(* own.                                                                    *)
(***************************************************************************)
EXTENDS EventScheduler, SetLemmas

Recorded == {history[n].eventId : n \in DOMAIN history}

\* The ids that were executed, cleared, or are in the queue.
Behind == queue \cup cleared \cup Fired

\* The places of an id.
Apart ==
    /\ \A c \in Clients : cpc[c] = "push" => job[c] \notin Behind \cup Recorded
    /\ \A c, d \in Clients :
          cpc[c] = "push" /\ cpc[d] = "push" /\ c # d => job[c] # job[d]
    /\ wpc = "push" =>
          /\ event \notin Behind \cup Recorded
          /\ \A c \in Clients : cpc[c] = "push" => job[c] # event
    /\ wpc \in {"evaluate", "execute"} => event \notin Behind
    /\ queue \cap (cleared \cup Fired \cup Recorded) = {}
    /\ cleared \cap Fired = {}
    /\ \A m, n \in DOMAIN fired : fired[m] = fired[n] => m = n

\* The event the scheduler thread took and has not recorded.
InHand ==
    /\ wpc \in {"evaluate", "execute", "update", "record"} =>
          /\ event \notin queue \cup Recorded
          /\ \A c \in Clients : cpc[c] = "push" => job[c] # event
    /\ wpc = "execute" => executed
    /\ wpc \in {"update", "record"} => (executed <=> event \in Fired)

\* Clients make first occurrences, and a repetition is registered before it
\* can be executed.
Firsts ==
    /\ \A c \in Clients : cpc[c] # "idle" => made[job[c]].repetitionCount = 0
    /\ wpc = "register" => event \notin Fired

IInv == TypeOK /\ Apart /\ InHand /\ HistoryTruthful

\* The events that wait or may still be repeated.
Underway ==
    queue \cup Unpushed \cup
        {i \in {event} : wpc \in {"evaluate", "execute", "update", "record", "repeat"}}

Numbering ==
    /\ \A i \in Ids : made[i].series \in Ids
    /\ \A i, j \in Ids :
          /\ made[i].series = made[j].series
          /\ made[i].repetitionCount = made[j].repetitionCount
          => i = j
    /\ \A i \in Ids :
          /\ made[i].maxRepetitions > 0
                => made[i].repetitionCount <= made[i].maxRepetitions
          /\ made[i].period > 0
                => /\ made[made[i].series].period = made[i].period
                   /\ made[i].time = made[made[i].series].time
                                        + made[i].repetitionCount * made[i].period

OneUnderway ==
    /\ \A i, j \in Underway : made[i].series = made[j].series => i = j
    /\ \A i \in Underway, j \in Ids :
          made[i].series = made[j].series
             => made[j].repetitionCount <= made[i].repetitionCount

\* The event that is about to be repeated is nowhere else.
Repeating ==
    wpc = "repeat" =>
        /\ event \notin queue
        /\ \A c \in Clients : cpc[c] = "push" => job[c] # event
        /\ Repeats(made[event])

-----------------------------------------------------------------------------
(***************************************************************************)
(* Operators.                                                              *)
(***************************************************************************)

\* An id names an event.
LEMMA EventType ==
    ASSUME made \in Seq(EventRecord), NEW i \in Ids
    PROVE  /\ i \in Nat \ {0}
           /\ made[i] \in EventRecord
           /\ made[i].time \in Nat /\ made[i].priority \in Nat
           /\ made[i].repetitionCount \in Nat
<1>1. i \in 1 .. Len(made) /\ Len(made) \in Nat
    BY DEF Ids
<1>2. made[i] \in EventRecord
    BY <1>1
<1>3. /\ made[i].time \in Nat /\ made[i].priority \in Nat
      /\ made[i].repetitionCount \in Nat
    BY <1>2 DEF EventRecord
<1>4. i \in Nat \ {0}
    BY <1>1
<1> QED BY <1>2, <1>3, <1>4

\* The priority queue is never without a top.
LEMMA TopIsLeast ==
    ASSUME queue \subseteq Ids, made \in Seq(EventRecord), queue # {}
    PROVE  /\ Top \in queue
           /\ \A a \in queue \ {Top} : Precedes(Top, a)
<1>1. \A a \in queue : a \in Nat /\ made[a].priority \in Nat
    BY EventType
<1>2. PICK p \in queue : \A a \in queue : made[p].priority <= made[a].priority
    <2> DEFINE f == [a \in queue |-> made[a].priority]
    <2>1. f \in [queue -> Nat]
        BY <1>1
    <2> HIDE DEF f
    <2>2. \E p \in queue : \A d \in queue : f[p] <= f[d]
        BY <2>1, LeastOn
    <2> QED BY <2>2 DEF f
<1> DEFINE qp == {a \in queue : made[a].priority = made[p].priority}
<1>3. PICK e \in qp : \A a \in qp : e <= a
    <2>1. qp \in SUBSET Nat /\ qp # {}
        BY <1>1
    <2> HIDE DEF qp
    <2> QED BY <2>1, NatMinimum
<1>4. \A a \in queue \ {e} : Precedes(e, a)
    BY <1>1, <1>2, <1>3 DEF Precedes
<1> QED BY <1>3, <1>4 DEF Top

\* Registered gives one id an entry and leaves the others theirs.
LEMMA RegisteredProperties ==
    ASSUME NEW id, NEW entry
    PROVE  /\ DOMAIN Registered(id, entry) = DOMAIN registry \cup {id}
           /\ Registered(id, entry)[id] = entry
           /\ \A i \in DOMAIN registry \ {id} : Registered(id, entry)[i] = registry[i]
BY DEF Registered

-----------------------------------------------------------------------------
(***************************************************************************)
(* Types.                                                                  *)
(***************************************************************************)

Entry == [time : Nat, executed : BOOLEAN, cancelled : BOOLEAN]

LEMMA FreshType ==
    ASSUME made \in Seq(EventRecord), NEW id \in Ids, NEW b \in BOOLEAN
    PROVE  Fresh(id) \in Entry /\ [Fresh(id) EXCEPT !.executed = b] \in Entry
<1>1. /\ made[id].time \in Nat
      /\ made[id].executed \in BOOLEAN /\ made[id].cancelled \in BOOLEAN
    BY EventType DEF EventRecord
<1> QED BY <1>1 DEF Fresh, Entry

LEMMA RegisteredType ==
    ASSUME TypeOK, NEW id \in Ids, NEW entry \in Entry
    PROVE  /\ DOMAIN Registered(id, entry) \subseteq Ids
           /\ \A i \in DOMAIN Registered(id, entry) : Registered(id, entry)[i] \in Entry
<1>1. \A i \in DOMAIN registry : registry[i] \in Entry
    BY DEF TypeOK, Entry
<1>2. DOMAIN registry \subseteq Ids
    BY DEF TypeOK
<1> HIDE DEF Ids
<1>3. /\ DOMAIN Registered(id, entry) = DOMAIN registry \cup {id}
      /\ Registered(id, entry)[id] = entry
      /\ \A i \in DOMAIN registry \ {id} : Registered(id, entry)[i] = registry[i]
    BY DEF Registered
<1>4. \A i \in DOMAIN Registered(id, entry) : Registered(id, entry)[i] \in Entry
    <2> SUFFICES ASSUME NEW i \in DOMAIN Registered(id, entry)
                 PROVE  Registered(id, entry)[i] \in Entry
        OBVIOUS
    <2>1. CASE i = id
        BY <1>3, <2>1
    <2>2. CASE i # id
        BY <1>1, <1>3, <2>2
    <2> QED BY <2>1, <2>2
<1> QED BY <1>2, <1>3, <1>4

\* One more event leaves the other events and every set of ids what they were.
LEMMA OneMoreEvent ==
    ASSUME TypeOK, NEW e \in EventRecord, made' = Append(made, e)
    PROVE  /\ made' \in Seq(EventRecord)
           /\ Ids' = Ids \cup {Len(made) + 1}
           /\ Len(made) + 1 \in Nat \ {0}
           /\ Len(made) + 1 \notin Ids
           /\ 0 \notin Ids
           /\ \A i \in Ids : made'[i] = made[i]
           /\ made'[Len(made) + 1] = e
           /\ history \in Seq([eventId : Ids', executed : BOOLEAN])
           /\ fired \in Seq(Ids')
<1>1. made \in Seq(EventRecord)
    BY DEF TypeOK
<1>2. Ids' = Ids \cup {Len(made) + 1}
    BY <1>1, AppendProperties DEF Ids
<1>3. history \in Seq([eventId : Ids', executed : BOOLEAN])
    <2> DEFINE H == [eventId : Ids, executed : BOOLEAN]
               J == [eventId : Ids', executed : BOOLEAN]
    <2>1. H \subseteq J
        BY <1>2
    <2>2. history \in Seq(H)
        BY DEF TypeOK
    <2> HIDE DEF H, J
    <2>3. history \in Seq(J)
        BY <2>1, <2>2
    <2> QED BY <2>3 DEF J
<1>4. fired \in Seq(Ids')
    <2>1. fired \in Seq(Ids) /\ Ids \subseteq Ids'
        BY <1>2 DEF TypeOK
    <2> HIDE DEF Ids
    <2> QED BY <2>1
<1> QED BY <1>1, <1>2, <1>3, <1>4, AppendProperties DEF Ids

\* What Begin and HandlePeriodicEvent append is an event.
LEMMA BegunType ==
    ASSUME TypeOK, NEW k \in EventKinds
    PROVE  Complete([time |-> k.time, priority |-> k.priority,
                     guarded |-> k.guarded, periodic |-> k.periodic,
                     period |-> k.period, maxRepetitions |-> k.maxRepetitions,
                     repetitionCount |-> 0, executed |-> k.executed,
                     cancelled |-> k.cancelled, series |-> Len(made) + 1]) \in EventRecord
<1>1. simTime \in Nat /\ Len(made) + 1 \in Nat \ {0}
    BY DEF TypeOK
<1>2. /\ k.time \in Nat /\ k.priority \in Nat /\ k.guarded \in BOOLEAN
      /\ k.periodic \in BOOLEAN /\ k.period \in Int /\ k.maxRepetitions \in Int
      /\ k.executed \in BOOLEAN /\ k.cancelled \in BOOLEAN
    BY EventSchedulerAssumption
<1> QED BY <1>1, <1>2 DEF Complete, EventRecord

LEMMA RepetitionType ==
    ASSUME TypeOK, event \in Ids
    PROVE  Complete([made[event] EXCEPT !.time = @ + made[event].period,
                                        !.executed = FALSE, !.cancelled = FALSE,
                                        !.repetitionCount = @ + 1]) \in EventRecord
<1>1. simTime \in Nat /\ made[event] \in EventRecord
    BY EventType DEF TypeOK
<1>2. made[event].period \in Int
    BY <1>1 DEF EventRecord
<1> DEFINE e == [made[event] EXCEPT !.time = @ + made[event].period,
                                    !.executed = FALSE, !.cancelled = FALSE,
                                    !.repetitionCount = @ + 1]
<1> DEFINE Early == [time : Int, priority : Nat, guarded : BOOLEAN,
                     periodic : BOOLEAN, period : Int, maxRepetitions : Int,
                     executed : BOOLEAN, cancelled : BOOLEAN,
                     repetitionCount : Nat, series : Nat \ {0}]
<1>3. e \in Early
    <2>1. /\ made[event].time + made[event].period \in Int
          /\ made[event].repetitionCount + 1 \in Nat
        BY <1>1, <1>2 DEF EventRecord
    <2> QED BY <1>1, <2>1 DEF EventRecord
<1> HIDE DEF e
<1>4. Complete(e) \in EventRecord
    BY <1>1, <1>3 DEF Complete, EventRecord
<1> QED BY <1>4 DEF e

LEMMA TypeInv == TypeOK /\ [Next]_vars => TypeOK'
<1> SUFFICES ASSUME TypeOK, [Next]_vars PROVE TypeOK'
    OBVIOUS
<1> USE DEF clientVars, workerVars
<1>0. made \in Seq(EventRecord) /\ 0 \notin Ids
    BY DEF TypeOK, Ids
<1>1. ASSUME NEW c \in Clients, NEW k \in EventKinds, Begin(c, k) PROVE TypeOK'
    <2>1. PICK e \in EventRecord : made' = Append(made, e)
        BY <1>1, BegunType DEF Begin
    <2>2. /\ made' \in Seq(EventRecord)
          /\ Ids' = Ids \cup {Len(made) + 1}
          /\ Len(made) + 1 # 0
          /\ history \in Seq([eventId : Ids', executed : BOOLEAN])
          /\ fired \in Seq(Ids')
        BY <2>1, OneMoreEvent
    <2>3. job' \in [Clients -> Ids' \cup {0}]
        BY <1>1, <2>2 DEF Begin, TypeOK
    <2>4. \A d \in Clients : cpc'[d] # "idle" => job'[d] # 0
        BY <1>1, <2>2 DEF Begin, TypeOK
    <2> HIDE DEF Ids
    <2> QED BY <1>1, <2>2, <2>3, <2>4 DEF Begin, TypeOK
<1>2. ASSUME NEW c \in Clients, Push(c) PROVE TypeOK'
    <2>1. Ids' = Ids
        BY <1>2 DEF Push, Ids
    <2> QED BY <1>2, <2>1 DEF Push, TypeOK
<1>3. ASSUME NEW c \in Clients, Register(c) PROVE TypeOK'
    <2>1. Ids' = Ids /\ job[c] \in Ids
        BY <1>3 DEF Register, Ids, TypeOK
    <2>2. /\ DOMAIN registry' \subseteq Ids'
          /\ \A i \in DOMAIN registry' : registry'[i] \in Entry
        BY <1>0, <1>3, <2>1, FreshType, RegisteredType DEF Register
    <2> HIDE DEF Ids
    <2> QED BY <1>3, <2>1, <2>2 DEF Register, TypeOK, Entry
<1>4. ASSUME NEW id \in Ids, CancelEvent(id) PROVE TypeOK'
    <2>1. Ids' = Ids
        BY <1>4 DEF CancelEvent, Ids
    <2>2. \A i \in DOMAIN registry' : registry'[i] \in Entry
        BY <1>4 DEF CancelEvent, TypeOK, Entry
    <2> QED BY <1>4, <2>1, <2>2 DEF CancelEvent, TypeOK, Entry
<1>5. ASSUME NEW id \in Ids, NEW t \in NewTimes, RescheduleEvent(id, t) PROVE TypeOK'
    <2>1. Ids' = Ids /\ t \in Nat
        BY <1>5, EventSchedulerAssumption DEF RescheduleEvent, Ids
    <2>2. \A i \in DOMAIN registry' : registry'[i] \in Entry
        BY <1>5, <2>1 DEF RescheduleEvent, TypeOK, Entry
    <2> QED BY <1>5, <2>1, <2>2 DEF RescheduleEvent, TypeOK, Entry
<1>6. ASSUME ClearAllEvents \/ ClearExecutedEvents PROVE TypeOK'
    <2>1. Ids' = Ids
        BY <1>6 DEF ClearAllEvents, ClearExecutedEvents, Ids
    <2>2. DOMAIN <<>> = {} /\ <<>> \in Seq([eventId : Ids', executed : BOOLEAN])
        OBVIOUS
    <2> QED BY <1>6, <2>1, <2>2 DEF ClearAllEvents, ClearExecutedEvents, TypeOK
<1>7. ASSUME NEW t \in Times, SetSimulationTime(t) PROVE TypeOK'
    <2>1. Ids' = Ids /\ t \in Nat
        BY <1>7, EventSchedulerAssumption DEF SetSimulationTime, Ids, Times
    <2> QED BY <1>7, <2>1 DEF SetSimulationTime, TypeOK
<1>8. ASSUME Start \/ Stop PROVE TypeOK'
    <2>1. Ids' = Ids
        BY <1>8 DEF Start, Stop, Ids
    <2> QED BY <1>8, <2>1 DEF Start, Stop, TypeOK
<1>9. ASSUME Take PROVE TypeOK'
    <2>1. Ids' = Ids
        BY <1>9 DEF Take, Ids
    <2>2. Top \in Ids /\ Top \in queue
        BY <1>9, TopIsLeast DEF Take, TopIsDue, TypeOK
    <2>3. made[Top].executed \in BOOLEAN
        BY <1>0, <2>2, EventType DEF EventRecord
    <2> QED BY <1>0, <1>9, <2>1, <2>2, <2>3 DEF Take, TypeOK
<1>10. ASSUME Rest \/ Leave \/ Evaluate PROVE TypeOK'
    <2>1. Ids' = Ids
        BY <1>10 DEF Rest, Leave, Evaluate, Ids
    <2> QED BY <1>10, <2>1 DEF Rest, Leave, Evaluate, TypeOK
<1>11. ASSUME ExecuteEvent PROVE TypeOK'
    <2>1. Ids' = Ids /\ event \in Ids
        BY <1>11 DEF ExecuteEvent, Ids, TypeOK
    <2>2. fired' \in Seq(Ids')
        BY <1>11, <2>1, AppendProperties DEF ExecuteEvent, TypeOK
    <2> QED BY <1>11, <2>1, <2>2 DEF ExecuteEvent, TypeOK
<1>12. ASSUME UpdateRegistry PROVE TypeOK'
    <2>1. Ids' = Ids /\ event \in Ids /\ executed \in BOOLEAN
        BY <1>12 DEF UpdateRegistry, Ids, TypeOK
    <2>2. /\ DOMAIN registry' \subseteq Ids'
          /\ \A i \in DOMAIN registry' : registry'[i] \in Entry
        BY <1>0, <1>12, <2>1, FreshType, RegisteredType DEF UpdateRegistry
    <2> HIDE DEF Ids
    <2> QED BY <1>12, <2>1, <2>2 DEF UpdateRegistry, TypeOK, Entry
<1>13. ASSUME RecordHistory PROVE TypeOK'
    <2>1. Ids' = Ids /\ event \in Ids /\ executed \in BOOLEAN
        BY <1>13 DEF RecordHistory, Ids, TypeOK
    <2>2. history' \in Seq([eventId : Ids', executed : BOOLEAN])
        BY <1>13, <2>1, AppendProperties DEF RecordHistory, TypeOK
    <2> QED BY <1>13, <2>1, <2>2 DEF RecordHistory, TypeOK
<1>14. ASSUME HandlePeriodicEvent PROVE TypeOK'
    <2>0. event \in Ids
        BY <1>14 DEF HandlePeriodicEvent, TypeOK
    <2>1. PICK e \in EventRecord : made' = Append(made, e)
        BY <1>14, <2>0, RepetitionType DEF HandlePeriodicEvent
    <2>2. /\ made' \in Seq(EventRecord)
          /\ Ids' = Ids \cup {Len(made) + 1}
          /\ Len(made) + 1 # 0
          /\ history \in Seq([eventId : Ids', executed : BOOLEAN])
          /\ fired \in Seq(Ids')
        BY <2>1, OneMoreEvent
    <2> HIDE DEF Ids
    <2> QED BY <1>14, <2>2 DEF HandlePeriodicEvent, TypeOK
<1>15. ASSUME PushRepetition PROVE TypeOK'
    <2>1. Ids' = Ids
        BY <1>15 DEF PushRepetition, Ids
    <2> QED BY <1>15, <2>1 DEF PushRepetition, TypeOK
<1>16. ASSUME RegisterRepetition PROVE TypeOK'
    <2>1. Ids' = Ids /\ event \in Ids
        BY <1>16 DEF RegisterRepetition, Ids, TypeOK
    <2>2. /\ DOMAIN registry' \subseteq Ids'
          /\ \A i \in DOMAIN registry' : registry'[i] \in Entry
        BY <1>0, <1>16, <2>1, FreshType, RegisteredType DEF RegisterRepetition
    <2> HIDE DEF Ids
    <2> QED BY <1>16, <2>1, <2>2 DEF RegisterRepetition, TypeOK, Entry
<1>17. CASE UNCHANGED vars
    <2>1. Ids' = Ids
        BY <1>17 DEF vars, Ids
    <2> QED BY <1>17, <2>1 DEF vars, TypeOK
<1> QED BY <1>1, <1>2, <1>3, <1>4, <1>5, <1>6, <1>7, <1>8, <1>9, <1>10, <1>11,
           <1>12, <1>13, <1>14, <1>15, <1>16, <1>17
        DEF Next, Client, Environment, SchedulerThread

LEMMA InitType == Init => TypeOK
<1>1. /\ DOMAIN <<>> = {} /\ <<>> \in Seq(EventRecord)
      /\ <<>> \in Seq([eventId : {}, executed : BOOLEAN]) /\ <<>> \in Seq({})
    OBVIOUS
<1> SUFFICES ASSUME Init PROVE TypeOK
    OBVIOUS
<1>2. Ids = {}
    BY <1>1 DEF Init, Ids
<1> QED BY <1>1, <1>2 DEF Init, TypeOK

\* Every variable has its type in every behaviour of the scheduler
\* (event_scheduler.h:184-219): an id a thread holds, the queue, the registry
\* or the history names, is one scheduleEvent gave out.
THEOREM TypeCorrect == Spec => []TypeOK
BY InitType, TypeInv, PTL DEF Spec

-----------------------------------------------------------------------------
(***************************************************************************)
(* The places of an id.                                                    *)
(***************************************************************************)

\* Executing one more event.
LEMMA FiredOnce ==
    ASSUME fired \in Seq(Ids), event \in Ids, fired' = Append(fired, event),
           event \notin Fired,
           \A m, n \in DOMAIN fired : fired[m] = fired[n] => m = n
    PROVE  /\ Fired' = Fired \cup {event}
           /\ \A m, n \in DOMAIN fired' : fired'[m] = fired'[n] => m = n
<1>1. /\ DOMAIN fired' = DOMAIN fired \cup {Len(fired) + 1}
      /\ \A n \in DOMAIN fired : fired'[n] = fired[n]
      /\ fired'[Len(fired) + 1] = event
    BY AppendProperties
<1>2. \A n \in DOMAIN fired : fired[n] # event
    BY DEF Fired
<1> QED BY <1>1, <1>2 DEF Fired

\* Recording one more event.
LEMMA RecordedOnce ==
    ASSUME TypeOK, HistoryTruthful, event \in Ids, event \notin Recorded,
           history' = Append(history, [eventId |-> event, executed |-> executed]),
           Fired' = Fired, executed <=> event \in Fired
    PROVE  Recorded' = Recorded \cup {event} /\ HistoryTruthful'
<1> DEFINE r == [eventId |-> event, executed |-> executed]
<1>1. history \in Seq([eventId : Ids, executed : BOOLEAN])
      /\ r \in [eventId : Ids, executed : BOOLEAN]
    BY DEF TypeOK
<1>2. r.eventId = event /\ (r.executed <=> event \in Fired)
    OBVIOUS
<1> HIDE DEF r, Ids
<1>3. /\ DOMAIN history' = DOMAIN history \cup {Len(history) + 1}
      /\ \A n \in DOMAIN history : history'[n] = history[n]
      /\ history'[Len(history) + 1] = r
    BY <1>1, AppendProperties DEF r
<1>4. \A n \in DOMAIN history : history[n].eventId # event
    BY DEF Recorded
<1>5. Recorded' = Recorded \cup {event}
    BY <1>2, <1>3 DEF Recorded
<1>6. \A m, n \in DOMAIN history' : history'[m].eventId = history'[n].eventId => m = n
    BY <1>2, <1>3, <1>4 DEF HistoryTruthful
<1>7. \A n \in DOMAIN history' : history'[n].executed <=> history'[n].eventId \in Fired'
    <2>1. \A n \in DOMAIN history : history[n].executed <=> history[n].eventId \in Fired
        BY DEF HistoryTruthful
    <2> HIDE DEF Fired
    <2> QED BY <1>2, <1>3, <2>1
<1> QED BY <1>5, <1>6, <1>7 DEF HistoryTruthful

\* A new id is at no place yet.
LEMMA NewIdIsNowhere ==
    ASSUME TypeOK, NEW i, i \notin Ids
    PROVE  i \notin Behind \cup Recorded
<1> HIDE DEF Ids
<1>1. Fired \subseteq Ids
    <2>1. \A n \in DOMAIN fired : fired[n] \in Ids
        BY DEF TypeOK
    <2> QED BY <2>1 DEF Fired
<1>2. Recorded \subseteq Ids
    <2> DEFINE H == [eventId : Ids, executed : BOOLEAN]
    <2>1. history \in Seq(H)
        BY DEF TypeOK
    <2>2. \A h \in H : h.eventId \in Ids
        OBVIOUS
    <2> HIDE DEF H
    <2>3. \A n \in DOMAIN history : history[n].eventId \in Ids
        BY <2>1, <2>2
    <2> QED BY <2>3 DEF Recorded
<1> QED BY <1>1, <1>2 DEF TypeOK, Behind

\* What Apart, InHand and HistoryTruthful read of the sequences.
LEMMA SameSequences ==
    /\ fired' = fired => Fired' = Fired
    /\ history' = history => Recorded' = Recorded
    /\ history' = history /\ fired' = fired => HistoryTruthful' = HistoryTruthful
BY DEF Fired, Recorded, HistoryTruthful

LEMMA PlacesInv ==
    ASSUME IInv, [Next]_vars PROVE Apart' /\ InHand' /\ HistoryTruthful'
<1> USE DEF clientVars, workerVars, IInv
<1> HIDE DEF Ids
<1>1. ASSUME NEW c \in Clients, NEW k \in EventKinds, Begin(c, k)
      PROVE Apart' /\ InHand' /\ HistoryTruthful'
    <2>1. Fired' = Fired /\ Recorded' = Recorded /\ HistoryTruthful'
        BY <1>1, SameSequences DEF Begin
    <2>2. Len(made) + 1 \notin Ids /\ 0 \notin Ids
        <3>1. PICK e \in EventRecord : made' = Append(made, e)
            BY <1>1, BegunType DEF Begin
        <3> QED BY <3>1, OneMoreEvent
    <2>3. Len(made) + 1 \notin Behind \cup Recorded
        BY <2>2, NewIdIsNowhere
    <2>4. /\ \A d \in Clients : cpc[d] # "idle" => job[d] # Len(made) + 1
          /\ wpc \notin {"off", "wait", "relock"} => event # Len(made) + 1
        BY <2>2 DEF TypeOK
    <2>5. Behind' = Behind
        BY <1>1, <2>1 DEF Begin, Behind
    <2>6. /\ job'[c] = Len(made) + 1
          /\ \A d \in Clients \ {c} : job'[d] = job[d] /\ cpc'[d] = cpc[d]
        BY <1>1 DEF Begin, TypeOK
    <2>7. Apart'
        BY <1>1, <2>1, <2>3, <2>4, <2>5, <2>6 DEF Begin, Apart
    <2>8. InHand'
        BY <1>1, <2>1, <2>3, <2>4, <2>5, <2>6 DEF Begin, InHand
    <2> QED BY <2>1, <2>7, <2>8
<1>2. ASSUME NEW c \in Clients, Push(c)
      PROVE Apart' /\ InHand' /\ HistoryTruthful'
    <2>1. Fired' = Fired /\ Recorded' = Recorded /\ HistoryTruthful'
        BY <1>2, SameSequences DEF Push
    <2>2. /\ job' = job /\ cpc[c] = "push" /\ cpc'[c] # "push"
          /\ \A d \in Clients \ {c} : cpc'[d] = cpc[d]
        BY <1>2 DEF Push, TypeOK
    <2>3. Behind' = Behind \cup {job[c]}
        BY <1>2, <2>1 DEF Push, Behind
    <2>4. Apart'
        <3>1. \A d \in Clients \ {c} : cpc[d] = "push" => job[d] # job[c]
            BY <2>2 DEF Apart
        <3>2. wpc = "push" => job[c] # event
            BY <2>2 DEF Apart
        <3>3. wpc \in {"evaluate", "execute"} => job[c] # event
            BY <2>2 DEF InHand
        <3>4. job[c] \notin cleared \cup Fired \cup Recorded
            BY <2>2 DEF Apart, Behind
        <3>5. queue' = queue \cup {job[c]}
            BY <1>2 DEF Push
        <3>6. queue' \cap (cleared' \cup Fired' \cup Recorded') = {}
              /\ cleared' \cap Fired' = {}
            BY <1>2, <2>1, <3>4, <3>5 DEF Push, Apart
        <3>7. \A d \in Clients : cpc'[d] = "push" => job'[d] \notin Behind' \cup Recorded'
            BY <2>1, <2>2, <2>3, <3>1 DEF Apart
        <3>8. wpc' = wpc /\ event' = event /\ fired' = fired
            BY <1>2 DEF Push
        <3> QED BY <2>1, <2>2, <2>3, <3>2, <3>3, <3>6, <3>7, <3>8 DEF Apart
    <2>5. InHand'
        BY <1>2, <2>1, <2>2 DEF Push, InHand
    <2> QED BY <2>1, <2>4, <2>5
<1>3. ASSUME NEW c \in Clients, Register(c)
      PROVE Apart' /\ InHand' /\ HistoryTruthful'
    <2>1. Fired' = Fired /\ Recorded' = Recorded /\ HistoryTruthful'
        BY <1>3, SameSequences DEF Register
    <2>2. /\ cpc'[c] # "push"
          /\ \A d \in Clients \ {c} : job'[d] = job[d] /\ cpc'[d] = cpc[d]
        BY <1>3 DEF Register, TypeOK
    <2>3. Behind' = Behind
        BY <1>3, <2>1 DEF Register, Behind
    <2>4. Apart'
        BY <1>3, <2>1, <2>2, <2>3 DEF Register, Apart
    <2>5. InHand'
        BY <1>3, <2>1, <2>2 DEF Register, InHand
    <2> QED BY <2>1, <2>4, <2>5
<1>4. ASSUME ClearAllEvents PROVE Apart' /\ InHand' /\ HistoryTruthful'
    <2>1. Fired' = Fired /\ history' = <<>>
        BY <1>4, SameSequences DEF ClearAllEvents
    <2>2. Recorded' = {} /\ HistoryTruthful'
        BY <2>1 DEF Recorded, HistoryTruthful
    <2>3. Behind' = Behind
        BY <1>4, <2>1 DEF ClearAllEvents, Behind
    <2>4. Apart'
        BY <1>4, <2>1, <2>2, <2>3 DEF ClearAllEvents, Apart
    <2>5. InHand'
        BY <1>4, <2>1, <2>2 DEF ClearAllEvents, InHand
    <2> QED BY <2>2, <2>4, <2>5
<1>5. ASSUME ClearExecutedEvents PROVE Apart' /\ InHand' /\ HistoryTruthful'
    <2>1. Fired' = Fired /\ history' = <<>>
        BY <1>5, SameSequences DEF ClearExecutedEvents
    <2>2. Recorded' = {} /\ HistoryTruthful'
        BY <2>1 DEF Recorded, HistoryTruthful
    <2>3. Behind' = Behind
        BY <1>5, <2>1 DEF ClearExecutedEvents, Behind
    <2>4. Apart'
        BY <1>5, <2>1, <2>2, <2>3 DEF ClearExecutedEvents, Apart
    <2>5. InHand'
        BY <1>5, <2>1, <2>2 DEF ClearExecutedEvents, InHand
    <2> QED BY <2>2, <2>4, <2>5
<1>6. ASSUME Take PROVE Apart' /\ InHand' /\ HistoryTruthful'
    <2>1. Fired' = Fired /\ Recorded' = Recorded /\ HistoryTruthful'
        BY <1>6, SameSequences DEF Take
    <2>2. Top \in queue
        BY <1>6, TopIsLeast DEF Take, TopIsDue, TypeOK
    <2> HIDE DEF Top
    <2>3. event' = Top /\ queue' = queue \ {Top}
        BY <1>6 DEF Take
    <2>4. Apart'
        BY <1>6, <2>1, <2>2, <2>3 DEF Take, Apart, Behind
    <2>5. InHand'
        BY <1>6, <2>1, <2>2, <2>3 DEF Take, InHand, Apart, Behind
    <2> QED BY <2>1, <2>4, <2>5
<1>7. ASSUME ExecuteEvent PROVE Apart' /\ InHand' /\ HistoryTruthful'
    <2>1. event \in Ids /\ event \notin Fired /\ fired \in Seq(Ids)
        BY <1>7 DEF ExecuteEvent, TypeOK, Apart, Behind
    <2>2. /\ Fired' = Fired \cup {event}
          /\ \A m, n \in DOMAIN fired' : fired'[m] = fired'[n] => m = n
        BY <1>7, <2>1, FiredOnce DEF ExecuteEvent, Apart
    <2>3. Recorded' = Recorded
        BY <1>7, SameSequences DEF ExecuteEvent
    <2>4. Apart'
        BY <1>7, <2>2, <2>3 DEF ExecuteEvent, Apart, InHand, Behind
    <2>5. InHand'
        BY <1>7, <2>2, <2>3 DEF ExecuteEvent, InHand
    <2>6. HistoryTruthful'
        <3>1. \A n \in DOMAIN history : history[n].eventId # event
            BY <1>7 DEF ExecuteEvent, InHand, Recorded
        <3> QED BY <1>7, <2>2, <3>1 DEF ExecuteEvent, HistoryTruthful
    <2> QED BY <2>4, <2>5, <2>6
<1>8. ASSUME RecordHistory PROVE Apart' /\ InHand' /\ HistoryTruthful'
    <2>1. event \in Ids /\ event \notin Recorded /\ (executed <=> event \in Fired)
        BY <1>8 DEF RecordHistory, TypeOK, InHand
    <2>2. Fired' = Fired
        BY <1>8, SameSequences DEF RecordHistory
    <2>3. Recorded' = Recorded \cup {event} /\ HistoryTruthful'
        BY <1>8, <2>1, <2>2, RecordedOnce DEF RecordHistory
    <2>4. wpc' \in {"repeat", "relock"}
        BY <1>8 DEF RecordHistory
    <2>5. Apart'
        BY <1>8, <2>2, <2>3, <2>4 DEF RecordHistory, Apart, InHand, Behind
    <2>6. InHand'
        BY <2>4 DEF InHand
    <2> QED BY <2>3, <2>5, <2>6
<1>9. ASSUME HandlePeriodicEvent PROVE Apart' /\ InHand' /\ HistoryTruthful'
    <2>1. Fired' = Fired /\ Recorded' = Recorded /\ HistoryTruthful'
        BY <1>9, SameSequences DEF HandlePeriodicEvent
    <2>2. Len(made) + 1 \notin Ids /\ 0 \notin Ids
        <3>0. event \in Ids
            BY <1>9 DEF HandlePeriodicEvent, TypeOK
        <3>1. PICK e \in EventRecord : made' = Append(made, e)
            BY <1>9, <3>0, RepetitionType DEF HandlePeriodicEvent
        <3> QED BY <3>1, OneMoreEvent
    <2>3. Len(made) + 1 \notin Behind \cup Recorded
        BY <2>2, NewIdIsNowhere
    <2>4. \A d \in Clients : cpc[d] # "idle" => job[d] # Len(made) + 1
        BY <2>2 DEF TypeOK
    <2>5. Behind' = Behind /\ event' = Len(made) + 1
        BY <1>9, <2>1 DEF HandlePeriodicEvent, Behind
    <2>6. Apart'
        BY <1>9, <2>1, <2>3, <2>4, <2>5 DEF HandlePeriodicEvent, Apart
    <2>7. InHand'
        BY <1>9 DEF HandlePeriodicEvent, InHand
    <2> QED BY <2>1, <2>6, <2>7
<1>10. ASSUME PushRepetition PROVE Apart' /\ InHand' /\ HistoryTruthful'
    <2>1. Fired' = Fired /\ Recorded' = Recorded /\ HistoryTruthful'
        BY <1>10, SameSequences DEF PushRepetition
    <2>2. Apart'
        BY <1>10, <2>1 DEF PushRepetition, Apart, Behind
    <2>3. InHand'
        BY <1>10 DEF PushRepetition, InHand
    <2> QED BY <2>1, <2>2, <2>3
<1>11. ASSUME Evaluate PROVE Apart' /\ InHand' /\ HistoryTruthful'
    <2>1. Fired' = Fired /\ Recorded' = Recorded /\ HistoryTruthful'
        BY <1>11, SameSequences DEF Evaluate
    <2>2. wpc' \in {"execute", "update", "relock"} /\ event \notin Fired
        BY <1>11 DEF Evaluate, Apart, Behind
    <2>3. wpc' # "relock"
             => executed' \in BOOLEAN /\ (wpc' = "execute" <=> executed')
        BY <1>11 DEF Evaluate
    <2>4. Apart'
        BY <1>11, <2>1, <2>2 DEF Evaluate, Apart, Behind
    <2>5. InHand'
        BY <1>11, <2>1, <2>2, <2>3 DEF Evaluate, InHand
    <2> QED BY <2>1, <2>4, <2>5
<1>12. ASSUME \/ Rest \/ Leave \/ UpdateRegistry \/ RegisterRepetition
              \/ (\E id \in Ids \cap CancelIds : CancelEvent(id))
              \/ (\E id \in Ids, t \in NewTimes : RescheduleEvent(id, t))
              \/ (\E t \in Times : SetSimulationTime(t))
              \/ Start \/ Stop \/ UNCHANGED vars
       PROVE Apart' /\ InHand' /\ HistoryTruthful'
    <2>1. /\ queue' = queue /\ cleared' = cleared /\ event' = event
          /\ executed' = executed /\ cpc' = cpc /\ job' = job
          /\ history' = history /\ fired' = fired
          /\ wpc' # wpc => \/ wpc' \in {"off", "wait", "relock"}
                           \/ wpc = "update" /\ wpc' = "record"
        BY <1>12 DEF Rest, Leave, UpdateRegistry, RegisterRepetition, CancelEvent,
                     RescheduleEvent, SetSimulationTime, Start, Stop, vars
    <2>2. Fired' = Fired /\ Recorded' = Recorded /\ HistoryTruthful'
        BY <2>1, SameSequences
    <2>3. Apart'
        BY <2>1, <2>2 DEF Apart, Behind
    <2>4. InHand'
        BY <2>1, <2>2 DEF InHand
    <2> QED BY <2>2, <2>3, <2>4
<1> QED BY <1>1, <1>2, <1>3, <1>4, <1>5, <1>6, <1>7, <1>8, <1>9, <1>10, <1>11, <1>12
        DEF Next, Client, Environment, SchedulerThread

LEMMA Invariance == Spec => []IInv
<1>1. Init => IInv
    <2> SUFFICES ASSUME Init PROVE IInv
        OBVIOUS
    <2>1. DOMAIN <<>> = {}
        OBVIOUS
    <2>2. Fired = {} /\ Recorded = {} /\ HistoryTruthful
        BY <2>1 DEF Init, Fired, Recorded, HistoryTruthful
    <2>3. Apart
        BY <2>1, <2>2 DEF Init, Apart, Behind
    <2>4. InHand
        BY DEF Init, InHand
    <2>5. TypeOK
        BY InitType
    <2> QED BY <2>2, <2>3, <2>4, <2>5 DEF IInv
<1>2. IInv /\ [Next]_vars => IInv'
    BY TypeInv, PlacesInv DEF IInv
<1> QED BY <1>1, <1>2, PTL DEF Spec

\* No event is executed twice, and a cleared one not at all, however the
\* scheduler thread (event_scheduler.cpp:322-384), the clients and
\* clearAllEvents interleave.
THEOREM EventsExecuteOnce == Spec => []ExecutesOnce
<1>1. IInv => ExecutesOnce
    <2> SUFFICES ASSUME IInv PROVE ExecutesOnce
        OBVIOUS
    <2>1. Fired \cap Unpushed = {}
        BY DEF IInv, Apart, Behind, Unpushed
    <2>2. Fired \cap Undecided = {}
        BY DEF IInv, Apart, Behind, Undecided
    <2>3. Fired \cap (queue \cup cleared) = {}
        BY DEF IInv, Apart
    <2>4. \A m, n \in DOMAIN fired : fired[m] = fired[n] => m = n
        BY DEF IInv, Apart
    <2> HIDE DEF Fired, Unpushed, Undecided
    <2> QED BY <2>1, <2>2, <2>3, <2>4 DEF ExecutesOnce
<1> QED BY <1>1, Invariance, PTL

\* The history tells the truth about what was executed, once for an event
\* (event_scheduler.cpp:363-378).
THEOREM HistoryIsTruthful == Spec => []HistoryTruthful
<1>1. IInv => HistoryTruthful
    BY DEF IInv
<1> QED BY <1>1, Invariance, PTL

-----------------------------------------------------------------------------
(***************************************************************************)
(* What the registry says of repetitions.                                  *)
(***************************************************************************)

LEMMA MarkedInv ==
    ASSUME IInv, Firsts, RepetitionsMarked, [Next]_vars
    PROVE  Firsts' /\ RepetitionsMarked'
<1> USE DEF clientVars, workerVars, IInv
<1> HIDE DEF Ids
<1>0. TypeOK /\ 0 \notin Ids
    <2>1. made \in Seq(EventRecord)
        BY DEF TypeOK
    <2> QED BY <2>1, EventType
<1>1. ASSUME NEW c \in Clients, NEW k \in EventKinds, Begin(c, k)
      PROVE Firsts' /\ RepetitionsMarked'
    <2>1. Fired' = Fired /\ registry' = registry
        BY <1>1, SameSequences DEF Begin
    <2>2. PICK e \in EventRecord :
              made' = Append(made, e) /\ e.repetitionCount = 0
        BY <1>1, BegunType DEF Begin, Complete
    <2>3. /\ \A i \in Ids : made'[i] = made[i]
          /\ made'[Len(made) + 1] = e
        BY <2>2, OneMoreEvent
    <2>4. \A d \in Clients : cpc[d] # "idle" => job[d] \in Ids
        BY DEF TypeOK
    <2>5. /\ job'[c] = Len(made) + 1
          /\ \A d \in Clients \ {c} : job'[d] = job[d] /\ cpc'[d] = cpc[d]
        <3>1. DOMAIN job = Clients /\ DOMAIN cpc = Clients
            BY DEF TypeOK
        <3>2. /\ job' = [job EXCEPT ![c] = Len(made) + 1]
              /\ cpc' = [cpc EXCEPT ![c] = "push"]
            BY <1>1 DEF Begin
        <3> HIDE DEF IInv
        <3> QED BY <3>1, <3>2
    <2>6. \A d \in Clients : cpc'[d] # "idle" => made'[job'[d]].repetitionCount = 0
        <3> SUFFICES ASSUME NEW d \in Clients, cpc'[d] # "idle"
                     PROVE  made'[job'[d]].repetitionCount = 0
            OBVIOUS
        <3>1. CASE d = c
            BY <2>2, <2>3, <2>5, <3>1
        <3>2. CASE d # c
            <4>1. job'[d] = job[d] /\ cpc[d] # "idle"
                BY <2>5, <3>2
            <4>2. job[d] \in Ids /\ made[job[d]].repetitionCount = 0
                BY <2>4, <4>1 DEF Firsts
            <4> QED BY <2>3, <4>1, <4>2
        <3> QED BY <3>1, <3>2
    <2>7. DOMAIN registry \subseteq Ids
        BY DEF TypeOK
    <2>8. event' = event /\ wpc' = wpc
        BY <1>1 DEF Begin
    <2>9. Firsts'
        BY <2>1, <2>6, <2>8 DEF Firsts
    <2> QED BY <2>1, <2>3, <2>7, <2>8, <2>9 DEF RepetitionsMarked
<1>2. ASSUME NEW c \in Clients, Register(c) PROVE Firsts' /\ RepetitionsMarked'
    <2>1. Fired' = Fired /\ made' = made
        BY <1>2, SameSequences DEF Register
    <2>2. made[job[c]].repetitionCount = 0
        BY <1>2 DEF Register, Firsts
    <2>3. /\ DOMAIN registry' = DOMAIN registry \cup {job[c]}
          /\ \A i \in DOMAIN registry \ {job[c]} : registry'[i] = registry[i]
        BY <1>2 DEF Register, Registered
    <2>4. \A d \in Clients : cpc'[d] # "idle" => cpc[d] # "idle" /\ job'[d] = job[d]
        BY <1>2 DEF Register, TypeOK
    <2>5. wpc' = wpc /\ event' = event
        BY <1>2 DEF Register
    <2>6. RepetitionsMarked'
        BY <2>1, <2>2, <2>3, <2>5 DEF RepetitionsMarked
    <2>7. Firsts'
        BY <2>1, <2>4, <2>5 DEF Firsts
    <2> QED BY <2>6, <2>7
<1>3. ASSUME NEW id \in Ids, CancelEvent(id) PROVE Firsts' /\ RepetitionsMarked'
    <2>1. Fired' = Fired
        BY <1>3, SameSequences DEF CancelEvent
    <2>2. /\ DOMAIN registry' = DOMAIN registry
          /\ \A i \in DOMAIN registry : registry'[i].executed = registry[i].executed
        BY <1>3 DEF CancelEvent, TypeOK
    <2> QED BY <1>3, <2>1, <2>2 DEF CancelEvent, Firsts, RepetitionsMarked
<1>4. ASSUME NEW id \in Ids, NEW t \in NewTimes, RescheduleEvent(id, t)
      PROVE Firsts' /\ RepetitionsMarked'
    <2>1. Fired' = Fired
        BY <1>4, SameSequences DEF RescheduleEvent
    <2>2. /\ DOMAIN registry' = DOMAIN registry
          /\ \A i \in DOMAIN registry : registry'[i].executed = registry[i].executed
        BY <1>4 DEF RescheduleEvent, TypeOK
    <2> QED BY <1>4, <2>1, <2>2 DEF RescheduleEvent, Firsts, RepetitionsMarked
<1>5. ASSUME ClearAllEvents PROVE Firsts' /\ RepetitionsMarked'
    <2>1. Fired' = Fired /\ DOMAIN registry' = {}
        BY <1>5, SameSequences DEF ClearAllEvents
    <2> QED BY <1>5, <2>1 DEF ClearAllEvents, Firsts, RepetitionsMarked
<1>6. ASSUME ExecuteEvent PROVE Firsts' /\ RepetitionsMarked'
    <2>1. event \in Ids /\ event \notin Fired /\ fired \in Seq(Ids)
        BY <1>6 DEF ExecuteEvent, TypeOK, Apart, Behind
    <2>2. Fired' = Fired \cup {event}
        BY <1>6, <2>1, FiredOnce DEF ExecuteEvent, Apart
    <2> QED BY <1>6, <2>2 DEF ExecuteEvent, Firsts, RepetitionsMarked
<1>7. ASSUME UpdateRegistry PROVE Firsts' /\ RepetitionsMarked'
    <2>1. Fired' = Fired
        BY <1>7, SameSequences DEF UpdateRegistry
    <2>2. registry' = Registered(event, [Fresh(event) EXCEPT !.executed = executed])
        BY <1>7 DEF UpdateRegistry
    <2>3. [Fresh(event) EXCEPT !.executed = executed].executed = executed
        BY DEF Fresh
    <2>4. /\ DOMAIN registry' = DOMAIN registry \cup {event}
          /\ registry'[event].executed = executed
          /\ \A i \in DOMAIN registry \ {event} : registry'[i] = registry[i]
        BY <2>2, <2>3 DEF Registered
    <2>5. executed <=> event \in Fired
        BY <1>7 DEF UpdateRegistry, InHand
    <2>6. wpc = "update" /\ wpc' = "record" /\ made' = made /\ event' = event
          /\ cpc' = cpc /\ job' = job
        BY <1>7 DEF UpdateRegistry
    <2>7. RepetitionsMarked'
        BY <2>1, <2>4, <2>5, <2>6 DEF RepetitionsMarked
    <2> QED BY <2>1, <2>6, <2>7 DEF Firsts
<1>8. ASSUME RegisterRepetition PROVE Firsts' /\ RepetitionsMarked'
    <2>1. Fired' = Fired
        BY <1>8, SameSequences DEF RegisterRepetition
    <2>2. /\ DOMAIN registry' = DOMAIN registry \cup {event}
          /\ \A i \in DOMAIN registry \ {event} : registry'[i] = registry[i]
        BY <1>8 DEF RegisterRepetition, Registered
    <2>3. event \notin Fired
        BY <1>8 DEF RegisterRepetition, Firsts
    <2> QED BY <1>8, <2>1, <2>2, <2>3 DEF RegisterRepetition, Firsts, RepetitionsMarked
<1>9. ASSUME HandlePeriodicEvent PROVE Firsts' /\ RepetitionsMarked'
    <2>1. Fired' = Fired /\ registry' = registry
        BY <1>9, SameSequences DEF HandlePeriodicEvent
    <2>2. \A i \in Ids : made'[i] = made[i]
        <3>0. event \in Ids
            BY <1>9 DEF HandlePeriodicEvent, TypeOK
        <3>1. PICK e \in EventRecord : made' = Append(made, e)
            BY <1>9, <3>0, RepetitionType DEF HandlePeriodicEvent
        <3> QED BY <3>1, OneMoreEvent
    <2>3. DOMAIN registry \subseteq Ids
        BY DEF TypeOK
    <2>4. \A d \in Clients : cpc[d] # "idle" => job[d] \in Ids
        BY <1>0 DEF TypeOK
    <2> QED BY <1>9, <2>1, <2>2, <2>3, <2>4
            DEF HandlePeriodicEvent, Firsts, RepetitionsMarked
<1>10. ASSUME PushRepetition PROVE Firsts' /\ RepetitionsMarked'
    <2>1. Fired' = Fired /\ event \notin Fired
        BY <1>10, SameSequences DEF PushRepetition, Apart, Behind
    <2> QED BY <1>10, <2>1 DEF PushRepetition, Firsts, RepetitionsMarked
<1>11. ASSUME NEW c \in Clients, Push(c) PROVE Firsts' /\ RepetitionsMarked'
    <2>1. Fired' = Fired
        BY <1>11, SameSequences DEF Push
    <2>2. \A d \in Clients : cpc'[d] # "idle" => cpc[d] # "idle"
        BY <1>11 DEF Push, TypeOK
    <2> QED BY <1>11, <2>1, <2>2 DEF Push, Firsts, RepetitionsMarked
<1>12. ASSUME \/ Take \/ Rest \/ Leave \/ Evaluate \/ RecordHistory
              \/ ClearExecutedEvents \/ Start \/ Stop
              \/ (\E t \in Times : SetSimulationTime(t)) \/ UNCHANGED vars
       PROVE Firsts' /\ RepetitionsMarked'
    <2>1. /\ made' = made /\ registry' = registry /\ fired' = fired
          /\ cpc' = cpc /\ job' = job
          /\ wpc' = "register" \/ wpc = "update" => wpc' = wpc /\ event' = event
        BY <1>12 DEF Take, Rest, Leave, Evaluate, RecordHistory, ClearExecutedEvents,
                     Start, Stop, SetSimulationTime, vars
    <2>2. Fired' = Fired
        BY <2>1, SameSequences
    <2> QED BY <2>1, <2>2 DEF Firsts, RepetitionsMarked
<1> QED BY <1>1, <1>2, <1>3, <1>4, <1>5, <1>6, <1>7, <1>8, <1>9, <1>10, <1>11, <1>12
        DEF Next, Client, Environment, SchedulerThread

\* A repetition that was executed is marked so in the registry, whatever the
\* clients do between the steps of the scheduler thread
\* (event_scheduler.cpp:357-361 and 405-420).
THEOREM RepetitionsAreMarked == Spec => []RepetitionsMarked
<1>1. Init => Firsts /\ RepetitionsMarked
    <2>1. DOMAIN <<>> = {}
        OBVIOUS
    <2> QED BY <2>1 DEF Init, Firsts, RepetitionsMarked, Fired
<1>2. IInv /\ Firsts /\ RepetitionsMarked /\ [Next]_vars
        => Firsts' /\ RepetitionsMarked'
    BY MarkedInv
<1> QED BY <1>1, <1>2, Invariance, PTL DEF Spec

-----------------------------------------------------------------------------
(***************************************************************************)
(* The series of repetitions.                                              *)
(***************************************************************************)

LEMMA UnderwayIsMade == TypeOK => Underway \subseteq Ids
<1> SUFFICES ASSUME TypeOK PROVE Underway \subseteq Ids
    OBVIOUS
<1> HIDE DEF Ids
<1>1. Unpushed \subseteq Ids
    BY DEF TypeOK, Unpushed
<1> QED BY <1>1 DEF TypeOK, Underway

\* One more event, of a new series or next in an old one.
LEMMA OneMoreNumber ==
    ASSUME TypeOK, Numbering, NEW e \in EventRecord, made' = Append(made, e),
           e.series \in Ids',
           \A i \in Ids : made[i].series = e.series
                             => made[i].repetitionCount # e.repetitionCount,
           e.maxRepetitions > 0 => e.repetitionCount <= e.maxRepetitions,
           e.period > 0
              => /\ made'[e.series].period = e.period
                 /\ e.time = made'[e.series].time + e.repetitionCount * e.period
    PROVE  Numbering'
<1>1. /\ Ids' = Ids \cup {Len(made) + 1}
      /\ \A i \in Ids : made'[i] = made[i]
      /\ made'[Len(made) + 1] = e
    BY OneMoreEvent
<1>2. \A i \in Ids' : made'[i].series \in Ids'
    BY <1>1 DEF Numbering
<1>3. ASSUME NEW i \in Ids', NEW j \in Ids', made'[i].series = made'[j].series,
             made'[i].repetitionCount = made'[j].repetitionCount
      PROVE  i = j
    <2>1. CASE i \in Ids /\ j \in Ids
        <3>1. made'[i] = made[i] /\ made'[j] = made[j]
            BY <1>1, <2>1
        <3> QED BY <1>3, <2>1, <3>1 DEF Numbering
    <2>2. CASE i \in Ids /\ j = Len(made) + 1
        BY <1>1, <1>3, <2>2
    <2>3. CASE j \in Ids /\ i = Len(made) + 1
        BY <1>1, <1>3, <2>3
    <2> QED BY <1>1, <2>1, <2>2, <2>3
<1>4. \A i \in Ids' : made'[i].maxRepetitions > 0
                         => made'[i].repetitionCount <= made'[i].maxRepetitions
    BY <1>1 DEF Numbering
<1>5. ASSUME NEW i \in Ids', made'[i].period > 0
      PROVE  /\ made'[made'[i].series].period = made'[i].period
             /\ made'[i].time = made'[made'[i].series].time
                                   + made'[i].repetitionCount * made'[i].period
    <2>1. CASE i \in Ids
        <3>1. made'[i] = made[i] /\ made[i].series \in Ids
            BY <1>1, <2>1 DEF Numbering
        <3>2. made'[made[i].series] = made[made[i].series]
            BY <1>1, <3>1
        <3> QED BY <1>5, <2>1, <3>1, <3>2 DEF Numbering
    <2>2. CASE i = Len(made) + 1
        BY <1>1, <1>5, <2>2
    <2> QED BY <1>1, <2>1, <2>2
<1> QED BY <1>2, <1>3, <1>4, <1>5 DEF Numbering

\* While no event is made or comes underway, nothing of this changes.
LEMMA SeriesKept ==
    ASSUME Numbering, OneUnderway, made' = made, Underway' \subseteq Underway
    PROVE  Numbering' /\ OneUnderway'
<1>1. Ids' = Ids
    BY DEF Ids
<1>2. Numbering'
    BY <1>1 DEF Numbering
<1>3. OneUnderway'
    BY <1>1 DEF OneUnderway
<1> QED BY <1>2, <1>3

\* What handlePeriodicEvent computes: if the period is positive, the time of a
\* repetition is never taken for "now".
LEMMA RepetitionFields ==
    ASSUME TypeOK, Numbering, event \in Ids
    PROVE  LET e == Complete([made[event] EXCEPT !.time = @ + made[event].period,
                                                !.executed = FALSE, !.cancelled = FALSE,
                                                !.repetitionCount = @ + 1])
           IN  /\ e \in EventRecord
               /\ e.series = made[event].series
               /\ e.period = made[event].period
               /\ e.maxRepetitions = made[event].maxRepetitions
               /\ e.repetitionCount = made[event].repetitionCount + 1
               /\ e.period > 0 => e.time = made[event].time + made[event].period
<1> DEFINE f == [made[event] EXCEPT !.time = @ + made[event].period,
                                    !.executed = FALSE, !.cancelled = FALSE,
                                    !.repetitionCount = @ + 1]
           e == Complete(f)
<1>1. made[event] \in EventRecord
    BY EventType DEF TypeOK
<1>2. /\ f.series = made[event].series
      /\ f.period = made[event].period
      /\ f.maxRepetitions = made[event].maxRepetitions
      /\ f.repetitionCount = made[event].repetitionCount + 1
      /\ f.time = made[event].time + made[event].period
    BY <1>1 DEF EventRecord
<1>3. DOMAIN f = {"time", "priority", "guarded", "periodic", "period",
                  "maxRepetitions", "executed", "cancelled", "repetitionCount",
                  "series"}
    BY <1>1 DEF EventRecord
<1>4. f.time \in Int /\ (f.period > 0 => f.time > 0)
    BY <1>1, <1>2 DEF EventRecord
<1>5. e \in EventRecord
    BY RepetitionType
<1> HIDE DEF f
<1>6. /\ e.series = f.series /\ e.period = f.period
      /\ e.maxRepetitions = f.maxRepetitions
      /\ e.repetitionCount = f.repetitionCount
    BY <1>3 DEF Complete
<1>7. f.period > 0 => e.time = f.time
    BY <1>3, <1>4 DEF Complete
<1> HIDE DEF e
<1>8. /\ e \in EventRecord
      /\ e.series = made[event].series
      /\ e.period = made[event].period
      /\ e.maxRepetitions = made[event].maxRepetitions
      /\ e.repetitionCount = made[event].repetitionCount + 1
      /\ e.period > 0 => e.time = made[event].time + made[event].period
    BY <1>2, <1>5, <1>6, <1>7
<1> QED BY <1>8 DEF e, f

\* One more period after n of them.
LEMMA OneMorePeriod ==
    \A t, p, n \in Nat : (t + n * p) + p = t + (n + 1) * p
<1>1. \A p, n \in Nat : (n + 1) * p = n * p + p /\ n * p \in Nat
    OBVIOUS
<1> QED BY <1>1

LEMMA SeriesInv ==
    ASSUME IInv, Numbering, OneUnderway, Repeating, [Next]_vars
    PROVE  Numbering' /\ OneUnderway' /\ Repeating'
<1> USE DEF clientVars, workerVars
<1> HIDE DEF Ids
<1>0. TypeOK /\ Apart /\ InHand /\ 0 \notin Ids
    <2>1. made \in Seq(EventRecord)
        BY DEF IInv, TypeOK
    <2> QED BY <2>1, EventType DEF IInv
<1>1. ASSUME NEW c \in Clients, NEW k \in EventKinds, Begin(c, k)
      PROVE  Numbering' /\ OneUnderway' /\ Repeating'
    <2> DEFINE id == Len(made) + 1
               e == Complete([time |-> k.time, priority |-> k.priority,
                              guarded |-> k.guarded, periodic |-> k.periodic,
                              period |-> k.period, maxRepetitions |-> k.maxRepetitions,
                              repetitionCount |-> 0, executed |-> k.executed,
                              cancelled |-> k.cancelled, series |-> id])
    <2>1. made' = Append(made, e) /\ e \in EventRecord
        BY <1>0, <1>1, BegunType DEF Begin
    <2>2. /\ e.series = id /\ e.repetitionCount = 0
          /\ e.period = k.period /\ e.maxRepetitions = k.maxRepetitions
        BY DEF Complete
    <2>3. k.period \in Int /\ k.maxRepetitions \in Int
        BY EventSchedulerAssumption
    <2> HIDE DEF e
    <2>4. /\ Ids' = Ids \cup {id} /\ id \notin Ids
          /\ \A i \in Ids : made'[i] = made[i]
          /\ made'[id] = e
        BY <1>0, <2>1, OneMoreEvent
    <2>5. \A i \in Ids : made[i].series # id
        BY <2>4 DEF Numbering
    <2>6. e.time \in Nat /\ 0 * e.period = 0
        BY <2>1, <2>2, <2>3 DEF EventRecord
    <2>7. Numbering'
        <3>1. /\ made'[e.series].period = e.period
              /\ e.time = made'[e.series].time + e.repetitionCount * e.period
            BY <2>2, <2>4, <2>6
        <3>2. e.maxRepetitions > 0 => e.repetitionCount <= e.maxRepetitions
            BY <2>2, <2>3
        <3>3. e.series \in Ids'
            BY <2>2, <2>4
        <3> HIDE DEF id
        <3> QED BY <1>0, <2>1, <2>2, <2>5, <3>1, <3>2, <3>3, OneMoreNumber
    <2>8. /\ job'[c] = id
          /\ \A d \in Clients \ {c} : job'[d] = job[d] /\ cpc'[d] = cpc[d]
          /\ UNCHANGED <<queue, wpc, event>>
        BY <1>0, <1>1 DEF Begin, TypeOK
    <2>9. Underway' \subseteq Underway \cup {id} /\ Underway \subseteq Ids
        <3>1. Unpushed' \subseteq Unpushed \cup {id}
            BY <2>8 DEF Unpushed
        <3> QED BY <1>0, <2>8, <3>1, UnderwayIsMade DEF Underway
    <2> HIDE DEF id
    <2>10. OneUnderway'
        <3>1. \A i \in Underway : made'[i] = made[i] /\ made[i].series # id
            BY <2>4, <2>5, <2>9
        <3>2. \A i, j \in Underway' : made'[i].series = made'[j].series => i = j
            BY <2>2, <2>4, <2>9, <3>1 DEF OneUnderway
        <3>3. \A i \in Underway', j \in Ids' :
                  made'[i].series = made'[j].series
                     => made'[j].repetitionCount <= made'[i].repetitionCount
            BY <2>2, <2>4, <2>5, <2>9, <3>1 DEF OneUnderway
        <3> QED BY <3>2, <3>3 DEF OneUnderway
    <2>11. Repeating'
        <3>1. wpc = "repeat" => event \in Ids
            BY <1>0 DEF TypeOK
        <3>2. wpc = "repeat" => event # id /\ made'[event] = made[event]
            BY <2>4, <3>1
        <3> QED BY <2>8, <3>2 DEF Repeating
    <2> QED BY <2>7, <2>10, <2>11
<1>2. ASSUME NEW c \in Clients, Push(c)
      PROVE  Numbering' /\ OneUnderway' /\ Repeating'
    <2>1. /\ made' = made /\ job' = job /\ cpc[c] = "push"
          /\ \A d \in Clients : cpc'[d] = "push" => cpc[d] = "push"
          /\ queue' = queue \cup {job[c]}
          /\ UNCHANGED <<wpc, event>>
        BY <1>0, <1>2 DEF Push, TypeOK
    <2>2. Unpushed' \subseteq Unpushed /\ job[c] \in Unpushed
        BY <2>1 DEF Unpushed
    <2>3. Underway' \subseteq Underway
        BY <2>1, <2>2 DEF Underway
    <2>4. Repeating'
        BY <2>1 DEF Repeating
    <2> QED BY <2>1, <2>3, <2>4, SeriesKept
<1>3. ASSUME Take PROVE Numbering' /\ OneUnderway' /\ Repeating'
    <2>1. Top \in queue
        BY <1>0, <1>3, TopIsLeast DEF Take, TopIsDue, TypeOK
    <2> HIDE DEF Top
    <2>2. /\ made' = made /\ job' = job /\ cpc' = cpc
          /\ event' = Top /\ queue' = queue \ {Top} /\ wpc' = "evaluate"
        BY <1>3 DEF Take
    <2>3. Unpushed' \subseteq Unpushed
        BY <2>2 DEF Unpushed
    <2>4. Underway' \subseteq Underway
        BY <2>1, <2>2, <2>3 DEF Underway
    <2> QED BY <2>2, <2>4, SeriesKept DEF Repeating
<1>4. ASSUME RecordHistory PROVE Numbering' /\ OneUnderway' /\ Repeating'
    <2>1. /\ UNCHANGED <<made, job, cpc, event, queue>> /\ wpc = "record"
          /\ wpc' = IF Repeats(made[event]) THEN "repeat" ELSE "relock"
        BY <1>4 DEF RecordHistory
    <2>2. Underway' \subseteq Underway
        BY <2>1 DEF Underway, Unpushed
    <2>3. Repeating'
        BY <1>0, <2>1 DEF Repeating, InHand
    <2> QED BY <2>1, <2>2, <2>3, SeriesKept
<1>5. ASSUME HandlePeriodicEvent PROVE Numbering' /\ OneUnderway' /\ Repeating'
    <2> DEFINE id == Len(made) + 1
               e == Complete([made[event] EXCEPT !.time = @ + made[event].period,
                                                !.executed = FALSE, !.cancelled = FALSE,
                                                !.repetitionCount = @ + 1])
    <2>1. /\ made' = Append(made, e) /\ event' = id /\ wpc' = "push"
          /\ UNCHANGED <<queue, cpc, job>>
          /\ wpc = "repeat" /\ event \in Ids
        BY <1>0, <1>5 DEF HandlePeriodicEvent, TypeOK
    <2>2. /\ e \in EventRecord
          /\ e.series = made[event].series
          /\ e.period = made[event].period
          /\ e.maxRepetitions = made[event].maxRepetitions
          /\ e.repetitionCount = made[event].repetitionCount + 1
          /\ e.period > 0 => e.time = made[event].time + made[event].period
        BY <1>0, <2>1, RepetitionFields
    <2> HIDE DEF e
    <2>3. /\ Ids' = Ids \cup {id} /\ id \notin Ids
          /\ \A i \in Ids : made'[i] = made[i]
          /\ made'[id] = e
        BY <1>0, <2>1, <2>2, OneMoreEvent
    <2> HIDE DEF id
    <2>4. made \in Seq(EventRecord)
        BY <1>0 DEF TypeOK
    <2>5. \A i \in Ids : made[i].time \in Nat /\ made[i].repetitionCount \in Nat
                            /\ made[i].period \in Int /\ made[i].maxRepetitions \in Int
        <3>1. \A i \in Ids : made[i] \in EventRecord
            BY <2>4, EventType
        <3> QED BY <3>1 DEF EventRecord
    <2>6. event \in Underway /\ Repeats(made[event])
        BY <2>1 DEF Underway, Repeating
    <2>7. \A i \in Ids : made[i].series = e.series
                            => made[i].repetitionCount < e.repetitionCount
        <3>1. \A i \in Ids : made[event].series = made[i].series
                                => made[i].repetitionCount <= made[event].repetitionCount
            BY <2>6 DEF OneUnderway
        <3> QED BY <2>1, <2>2, <2>5, <3>1
    <2>8. Numbering'
        <3>1. made[event].series \in Ids
            BY <2>1 DEF Numbering
        <3>2. ASSUME e.period > 0
              PROVE  /\ made'[e.series].period = e.period
                     /\ e.time = made'[e.series].time + e.repetitionCount * e.period
            <4> DEFINE t == made[made[event].series].time
                       n == made[event].repetitionCount
                       q == made[event].period
            <4>1. t \in Nat /\ n \in Nat /\ q \in Nat
                BY <2>1, <2>2, <2>5, <3>1, <3>2
            <4>2. made[event].time = t + n * q /\ made[made[event].series].period = q
                BY <2>1, <2>2, <3>2 DEF Numbering
            <4>3. made'[e.series].time = t /\ made'[e.series].period = q
                BY <2>2, <2>3, <3>1, <4>2
            <4>4. e.time = (t + n * q) + q /\ e.repetitionCount = n + 1 /\ e.period = q
                BY <2>2, <3>2, <4>2
            <4> HIDE DEF t, n, q
            <4>5. (t + n * q) + q = t + (n + 1) * q
                BY <4>1, OneMorePeriod
            <4> QED BY <4>3, <4>4, <4>5
        <3>3. e.maxRepetitions > 0 => e.repetitionCount <= e.maxRepetitions
            <4>1. made[event].maxRepetitions > 0
                      => ~(made[event].repetitionCount >= made[event].maxRepetitions)
                BY <2>6 DEF Repeats
            <4> QED BY <2>1, <2>2, <2>5, <4>1
        <3>4. e.series \in Ids'
            BY <2>2, <2>3, <3>1
        <3>5. \A i \in Ids : made[i].series = e.series
                                => made[i].repetitionCount # e.repetitionCount
            BY <2>1, <2>2, <2>5, <2>7
        <3> QED BY <1>0, <2>1, <2>2, <3>2, <3>3, <3>4, <3>5, OneMoreNumber
    <2>9. /\ Underway' \subseteq (Underway \ {event}) \cup {id}
          /\ Underway \subseteq Ids
        <3>1. Unpushed' \subseteq (Unpushed \ {event}) \cup {id}
            BY <2>1 DEF Unpushed, Repeating
        <3>2. event \notin queue /\ event # id
            BY <2>1, <2>3 DEF Repeating
        <3> QED BY <1>0, <2>1, <3>1, <3>2, UnderwayIsMade DEF Underway
    <2>10. OneUnderway'
        <3>1. \A i \in Underway : made'[i] = made[i]
            BY <2>3, <2>9
        <3>2. \A i \in Underway \ {event} : made[i].series # e.series
            BY <2>2, <2>6 DEF OneUnderway
        <3>3. \A i, j \in Underway' : made'[i].series = made'[j].series => i = j
            BY <2>3, <2>9, <3>1, <3>2 DEF OneUnderway
        <3>4. ASSUME NEW i \in Underway', NEW j \in Ids',
                     made'[i].series = made'[j].series
              PROVE  made'[j].repetitionCount <= made'[i].repetitionCount
            <4>1. e.repetitionCount \in Nat
                BY <2>2 DEF EventRecord
            <4>2. CASE i = id
                BY <2>3, <2>5, <2>7, <3>4, <4>1, <4>2
            <4>3. CASE i \in Underway \ {event}
                BY <2>3, <2>9, <3>1, <3>2, <3>4, <4>3 DEF OneUnderway
            <4> QED BY <2>9, <4>2, <4>3
        <3> QED BY <3>3, <3>4 DEF OneUnderway
    <2> QED BY <2>1, <2>8, <2>10 DEF Repeating
<1>6. ASSUME PushRepetition PROVE Numbering' /\ OneUnderway' /\ Repeating'
    <2>1. /\ UNCHANGED <<made, job, cpc, event>>
          /\ wpc = "push" /\ wpc' = "register" /\ queue' = queue \cup {event}
        BY <1>6 DEF PushRepetition
    <2>2. Underway' \subseteq Underway
        BY <2>1 DEF Underway, Unpushed
    <2> QED BY <2>1, <2>2, SeriesKept DEF Repeating
<1>7. ASSUME \/ (\E c \in Clients : Register(c))
             \/ Rest \/ Leave \/ Evaluate \/ ExecuteEvent
             \/ UpdateRegistry \/ RegisterRepetition \/ ClearAllEvents
             \/ ClearExecutedEvents \/ Start \/ Stop
             \/ (\E id \in Ids \cap CancelIds : CancelEvent(id))
             \/ (\E id \in Ids, t \in NewTimes : RescheduleEvent(id, t))
             \/ (\E t \in Times : SetSimulationTime(t)) \/ UNCHANGED vars
      PROVE  Numbering' /\ OneUnderway' /\ Repeating'
    <2>1. /\ made' = made /\ event' = event /\ queue' \subseteq queue
          /\ wpc' # wpc =>
                \/ wpc' \in {"off", "wait", "relock"}
                \/ wpc \in {"evaluate", "execute", "update"}
                   /\ wpc' \in {"execute", "update", "record"}
        BY <1>7 DEF Register, Rest, Leave, Evaluate, ExecuteEvent, UpdateRegistry,
                    RegisterRepetition, ClearAllEvents, ClearExecutedEvents, Start,
                    Stop, CancelEvent, RescheduleEvent, SetSimulationTime, vars
    <2>2. \A d \in Clients : cpc'[d] = "push" => cpc[d] = "push" /\ job'[d] = job[d]
        <3>1. CASE \E c \in Clients : Register(c)
            BY <1>0, <3>1 DEF Register, TypeOK
        <3>2. CASE cpc' = cpc /\ job' = job
            BY <3>2
        <3> QED BY <1>7, <3>1, <3>2
                DEF Rest, Leave, Evaluate, ExecuteEvent, UpdateRegistry,
                    RegisterRepetition, ClearAllEvents, ClearExecutedEvents, Start,
                    Stop, CancelEvent, RescheduleEvent, SetSimulationTime, vars
    <2>3. Unpushed' \subseteq Unpushed
        BY <2>1, <2>2 DEF Unpushed
    <2>4. Underway' \subseteq Underway
        BY <2>1, <2>3 DEF Underway
    <2>5. Repeating'
        BY <2>1, <2>2 DEF Repeating
    <2> QED BY <2>1, <2>4, <2>5, SeriesKept
<1> QED BY <1>1, <1>2, <1>3, <1>4, <1>5, <1>6, <1>7
        DEF Next, Client, Environment, SchedulerThread

\* However the clients and the scheduler thread interleave, a periodic event
\* never has two repetitions underway, they are numbered without repeats up to
\* the limit, and if the period is positive the n-th is due n periods after
\* the first (event_scheduler.cpp:405-419): for any events, zero and negative
\* periods among them, any limits and numbers of calls.
THEOREM SeriesAreSequential == Spec => []SeriesSequential
<1>1. Init => Numbering /\ OneUnderway /\ Repeating
    <2>1. DOMAIN <<>> = {}
        OBVIOUS
    <2> SUFFICES ASSUME Init PROVE Numbering /\ OneUnderway /\ Repeating
        OBVIOUS
    <2>2. Ids = {} /\ Underway = {}
        BY <2>1 DEF Init, Ids, Underway, Unpushed
    <2> QED BY <2>2 DEF Init, Numbering, OneUnderway, Repeating
<1>2. IInv /\ Numbering /\ OneUnderway /\ Repeating /\ [Next]_vars
        => Numbering' /\ OneUnderway' /\ Repeating'
    BY SeriesInv
<1>3. Numbering /\ OneUnderway => SeriesSequential
    <2>1. queue \cup Unpushed \cup Undecided \subseteq Underway
        BY DEF Underway, Undecided
    <2> HIDE DEF Ids, Unpushed, Undecided, Underway
    <2> QED BY <2>1 DEF Numbering, OneUnderway, SeriesSequential
<1> QED BY <1>1, <1>2, <1>3, Invariance, PTL DEF Spec
================================================================================
