---------------------------- MODULE EventScheduler ----------------------------
(***************************************************************************)
(* The simulation event scheduler (simulation/src/event_scheduler.cpp):    *)
(* client threads that schedule, cancel and reschedule events, a driver    *)
(* that moves the simulation time, and the scheduler thread.               *)
(*                                                                         *)
(* The queue, the registry and the history have a mutex each, and a call   *)
(* takes them one after the other; every stretch under one mutex is an     *)
(* action.  An event is copied into the queue and into the registry.  The  *)
(* queue's copy never changes: "made" holds it, under the event's id, and  *)
(* "queue" holds ids.  cancelEvent and rescheduleEvent change only the     *)
(* registry's copy.                                                        *)
(*                                                                         *)
(* Two calls that draw their ids in one order and their scheduledTime in   *)
(* the other are the same as ones that draw both in one order, up to the   *)
(* names of the ids: an id stands for the scheduledTime too.               *)
(***************************************************************************)
EXTENDS Integers, Sequences, FiniteSets

CONSTANTS
    Clients,       \* threads that call scheduleEvent
    EventKinds,    \* what they schedule
    MaxTime,       \* bound on the simulation time
    CancelIds,     \* the ids cancelEvent is called with
    NewTimes,      \* the times rescheduleEvent is called with
    MaxCalls       \* bound on the calls of scheduleEvent by clients

Times == 0 .. MaxTime

\* A kind is the event a client hands to scheduleEvent: its period may be zero,
\* the default, or negative, and it may say that it is executed or cancelled.
ASSUME EventSchedulerAssumption ==
    /\ MaxTime \in Nat /\ MaxCalls \in Nat /\ NewTimes \subseteq Nat
    /\ \A k \in EventKinds :
          /\ k.time \in Nat /\ k.priority \in Nat
          /\ k.periodic \in BOOLEAN /\ k.period \in Int
          /\ k.maxRepetitions \in Int
          /\ k.guarded \in BOOLEAN
          /\ k.executed \in BOOLEAN /\ k.cancelled \in BOOLEAN

VARIABLES
    made,          \* the events, by eventId, as scheduleEvent completes them
    calls,         \* how many of them clients scheduled
    queue,         \* m_eventQueue
    registry,      \* m_eventRegistry: eventId -> what may differ from "made"
    history,       \* m_executedEvents
    simTime,       \* m_currentSimulationTime
    running,       \* m_running
    cpc, job,      \* where each client is in scheduleEvent, and its event
    wpc, event,    \* where the scheduler thread is, and its event
    executed,      \* event.executed of that copy
    fired,         \* the ids executeEvent was called with, in order
    cleared        \* the ids clearAllEvents removed from the queue

clientVars == <<cpc, job>>
workerVars == <<wpc, event, executed>>
vars == <<made, calls, queue, registry, history, simTime, running,
          clientVars, workerVars, fired, cleared>>

Ids == DOMAIN made

Init ==
    /\ made = <<>> /\ calls = 0
    /\ queue = {}
    /\ registry = <<>>
    /\ history = <<>>
    /\ simTime = 0
    /\ running = FALSE
    /\ cpc = [c \in Clients |-> "idle"]
    /\ job = [c \in Clients |-> 0]
    /\ wpc = "off" /\ event = 0 /\ executed = FALSE
    /\ fired = <<>>
    /\ cleared = {}

\* m_eventRegistry[id] = entry
Registered(id, entry) ==
    [i \in DOMAIN registry \cup {id} |-> IF i = id THEN entry ELSE registry[i]]

\* What the registry holds of an event that was just completed.
Fresh(id) ==
    [time |-> made[id].time, executed |-> made[id].executed,
     cancelled |-> made[id].cancelled]

-----------------------------------------------------------------------------
(***************************************************************************)
(* scheduleEvent.  A time that is not positive means now.                  *)
(***************************************************************************)

Complete(e) == [e EXCEPT !.time = IF @ <= 0 THEN simTime ELSE @]

Begin(c, k) ==
    /\ cpc[c] = "idle" /\ calls < MaxCalls
    /\ made' = Append(made, Complete(
           [time |-> k.time, priority |-> k.priority, guarded |-> k.guarded,
            periodic |-> k.periodic, period |-> k.period,
            maxRepetitions |-> k.maxRepetitions, repetitionCount |-> 0,
            executed |-> k.executed, cancelled |-> k.cancelled,
            series |-> Len(made) + 1]))
    /\ calls' = calls + 1
    /\ job' = [job EXCEPT ![c] = Len(made) + 1]
    /\ cpc' = [cpc EXCEPT ![c] = "push"]
    /\ UNCHANGED <<queue, registry, history, simTime, running, workerVars,
                   fired, cleared>>

Push(c) ==
    /\ cpc[c] = "push"
    /\ queue' = queue \cup {job[c]}
    /\ cpc' = [cpc EXCEPT ![c] = "register"]
    /\ UNCHANGED <<made, calls, registry, history, simTime, running, job,
                   workerVars, fired, cleared>>

Register(c) ==
    /\ cpc[c] = "register"
    /\ registry' = Registered(job[c], Fresh(job[c]))
    /\ cpc' = [cpc EXCEPT ![c] = "idle"]
    /\ job' = [job EXCEPT ![c] = 0]
    /\ UNCHANGED <<made, calls, queue, history, simTime, running, workerVars,
                   fired, cleared>>

-----------------------------------------------------------------------------
(***************************************************************************)
(* The other calls.                                                        *)
(***************************************************************************)

CancelEvent(id) ==
    /\ id \in DOMAIN registry
    /\ registry' = [registry EXCEPT ![id].cancelled = TRUE]
    /\ UNCHANGED <<made, calls, queue, history, simTime, running, clientVars,
                   workerVars, fired, cleared>>

RescheduleEvent(id, time) ==
    /\ id \in DOMAIN registry
    /\ ~registry[id].executed /\ ~registry[id].cancelled
    /\ registry' = [registry EXCEPT ![id].time = time]
    /\ UNCHANGED <<made, calls, queue, history, simTime, running, clientVars,
                   workerVars, fired, cleared>>

\* The three mutexes are all held when the history is cleared.
ClearAllEvents ==
    /\ queue' = {}
    /\ registry' = <<>>
    /\ history' = <<>>
    /\ cleared' = cleared \cup queue
    /\ UNCHANGED <<made, calls, simTime, running, clientVars, workerVars, fired>>

ClearExecutedEvents ==
    /\ history' = <<>>
    /\ UNCHANGED <<made, calls, queue, registry, simTime, running, clientVars,
                   workerVars, fired, cleared>>

SetSimulationTime(t) ==
    /\ simTime' = t
    /\ UNCHANGED <<made, calls, queue, registry, history, running, clientVars,
                   workerVars, fired, cleared>>

\* One thread starts and stops the scheduler.  stop() returns when the
\* scheduler thread has ended, and start() makes a new one.
Start ==
    /\ ~running /\ wpc = "off"
    /\ running' = TRUE
    /\ wpc' = "wait"
    /\ UNCHANGED <<made, calls, queue, registry, history, simTime, clientVars,
                   event, executed, fired, cleared>>

Stop ==
    /\ running
    /\ running' = FALSE
    /\ UNCHANGED <<made, calls, queue, registry, history, simTime, clientVars,
                   workerVars, fired, cleared>>

-----------------------------------------------------------------------------
(***************************************************************************)
(* The scheduler thread.                                                   *)
(***************************************************************************)

\* EventPriorityCompare: priority, then scheduledTime.
Precedes(a, b) ==
    \/ made[a].priority < made[b].priority
    \/ made[a].priority = made[b].priority /\ a < b

Top == CHOOSE a \in queue : \A b \in queue \ {a} : Precedes(a, b)

\* Mutation: an event is due after its time only.
TopIsOverdue == queue # {} /\ made[Top].time < simTime

TopIsDue == queue # {} /\ made[Top].time <= simTime

\* Mutation: the event is read off the top and left in the queue.
TakeWithoutPop ==
    /\ (wpc = "wait" /\ running) \/ wpc = "relock"
    /\ TopIsDue
    /\ event' = Top
    /\ executed' = made[Top].executed
    /\ wpc' = "evaluate"
    /\ UNCHANGED <<made, calls, queue, registry, history, simTime, running,
                   clientVars, fired, cleared>>

\* The top is taken off under m_queueMutex, in the first round of the inner
\* loop or after lock.lock() at its end; m_running is read only before it.
Take ==
    /\ (wpc = "wait" /\ running) \/ wpc = "relock"
    /\ TopIsDue
    /\ event' = Top
    /\ executed' = made[Top].executed
    /\ queue' = queue \ {Top}
    /\ wpc' = "evaluate"
    /\ UNCHANGED <<made, calls, registry, history, simTime, running,
                   clientVars, fired, cleared>>

\* Nothing is due: back to the outer loop.
Rest ==
    /\ wpc = "relock" /\ ~TopIsDue
    /\ wpc' = "wait"
    /\ UNCHANGED <<made, calls, queue, registry, history, simTime, running,
                   clientVars, event, executed, fired, cleared>>

\* Mutation: the thread ends only when nothing is left in the queue.
LeaveWhenEmpty ==
    /\ wpc = "wait" /\ ~running /\ queue = {}
    /\ wpc' = "off"
    /\ UNCHANGED <<made, calls, queue, registry, history, simTime, running,
                   clientVars, event, executed, fired, cleared>>

Leave ==
    /\ wpc = "wait" /\ ~running
    /\ wpc' = "off"
    /\ UNCHANGED <<made, calls, queue, registry, history, simTime, running,
                   clientVars, event, executed, fired, cleared>>

\* An event that was handed in as executed or cancelled is dropped.
Skipped == made[event].cancelled \/ made[event].executed

\* The precondition of the event's type, if it has one.
Evaluate ==
    /\ wpc = "evaluate"
    /\ \/ /\ Skipped
          /\ wpc' = "relock"
          /\ UNCHANGED executed
       \/ /\ ~Skipped
          /\ \E shouldExecute \in BOOLEAN :
                /\ ~made[event].guarded => shouldExecute
                /\ executed' = shouldExecute
                /\ wpc' = IF shouldExecute THEN "execute" ELSE "update"
    /\ UNCHANGED <<made, calls, queue, registry, history, simTime, running,
                   clientVars, event, fired, cleared>>

ExecuteEvent ==
    /\ wpc = "execute"
    /\ fired' = Append(fired, event)
    /\ wpc' = "update"
    /\ UNCHANGED <<made, calls, queue, registry, history, simTime, running,
                   clientVars, event, executed, cleared>>

\* Mutation: the copy written back is the one taken off the queue.
UpdateRegistryOldCopy ==
    /\ wpc = "update"
    /\ registry' = Registered(event, Fresh(event))
    /\ wpc' = "record"
    /\ UNCHANGED <<made, calls, queue, history, simTime, running, clientVars,
                   event, executed, fired, cleared>>

UpdateRegistry ==
    /\ wpc = "update"
    /\ registry' = Registered(event, [Fresh(event) EXCEPT !.executed = executed])
    /\ wpc' = "record"
    /\ UNCHANGED <<made, calls, queue, history, simTime, running, clientVars,
                   event, executed, fired, cleared>>

\* Mutation: one repetition too many.
RepeatsOnceMore(e) ==
    /\ e.periodic
    /\ ~(e.maxRepetitions > 0 /\ e.repetitionCount > e.maxRepetitions)

\* handlePeriodicEvent returns early when the repetitions are used up; zero
\* or a negative number of them means no limit.
Repeats(e) ==
    /\ e.periodic
    /\ ~(e.maxRepetitions > 0 /\ e.repetitionCount >= e.maxRepetitions)

\* Mutation: a rejected event is recorded as executed.
RecordHistoryExecuted ==
    /\ wpc = "record"
    /\ history' = Append(history, [eventId |-> event, executed |-> TRUE])
    /\ wpc' = IF Repeats(made[event]) THEN "repeat" ELSE "relock"
    /\ UNCHANGED <<made, calls, queue, registry, simTime, running, clientVars,
                   event, executed, fired, cleared>>

RecordHistory ==
    /\ wpc = "record"
    /\ history' = Append(history, [eventId |-> event, executed |-> executed])
    /\ wpc' = IF Repeats(made[event]) THEN "repeat" ELSE "relock"
    /\ UNCHANGED <<made, calls, queue, registry, simTime, running, clientVars,
                   event, executed, fired, cleared>>

\* Mutation: the repetition keeps the id it is given, zero.
HandlePeriodicEventIdZero ==
    /\ wpc = "repeat"
    /\ made' = Append(made, Complete(
           [made[event] EXCEPT !.time = @ + made[event].period,
                               !.executed = FALSE, !.cancelled = FALSE,
                               !.repetitionCount = @ + 1]))
    /\ event' = 0
    /\ wpc' = "push"
    /\ UNCHANGED <<calls, queue, registry, history, simTime, running,
                   clientVars, executed, fired, cleared>>

\* handlePeriodicEvent, as far as the id and the times of scheduleEvent.
HandlePeriodicEvent ==
    /\ wpc = "repeat"
    /\ made' = Append(made, Complete(
           [made[event] EXCEPT !.time = @ + made[event].period,
                               !.executed = FALSE, !.cancelled = FALSE,
                               !.repetitionCount = @ + 1]))
    /\ event' = Len(made) + 1
    /\ wpc' = "push"
    /\ UNCHANGED <<calls, queue, registry, history, simTime, running,
                   clientVars, executed, fired, cleared>>

PushRepetition ==
    /\ wpc = "push"
    /\ queue' = queue \cup {event}
    /\ wpc' = "register"
    /\ UNCHANGED <<made, calls, registry, history, simTime, running,
                   clientVars, event, executed, fired, cleared>>

RegisterRepetition ==
    /\ wpc = "register"
    /\ registry' = Registered(event, Fresh(event))
    /\ wpc' = "relock"
    /\ UNCHANGED <<made, calls, queue, history, simTime, running, clientVars,
                   event, executed, fired, cleared>>

SchedulerThread ==
    \/ Take \/ Rest \/ Leave
    \/ Evaluate \/ ExecuteEvent \/ UpdateRegistry \/ RecordHistory
    \/ HandlePeriodicEvent \/ PushRepetition \/ RegisterRepetition

-----------------------------------------------------------------------------
Client(c) == Push(c) \/ Register(c) \/ \E k \in EventKinds : Begin(c, k)

Environment ==
    \/ \E id \in Ids \cap CancelIds : CancelEvent(id)
    \/ \E id \in Ids, t \in NewTimes : RescheduleEvent(id, t)
    \/ ClearAllEvents \/ ClearExecutedEvents
    \/ \E t \in Times : SetSimulationTime(t)
    \/ Start \/ Stop

Next == (\E c \in Clients : Client(c)) \/ Environment \/ SchedulerThread

Spec == Init /\ [][Next]_vars

\* The scheduler thread polls every 10 ms and its mutexes are held for
\* bounded times.  Nobody is obliged to call, or to move the time.
FairSpec == Spec /\ WF_vars(SchedulerThread)

-----------------------------------------------------------------------------
(***************************************************************************)
(* Properties.                                                             *)
(***************************************************************************)

EventRecord == [time : Nat, priority : Nat, guarded : BOOLEAN,
                periodic : BOOLEAN, period : Int, maxRepetitions : Int,
                executed : BOOLEAN, cancelled : BOOLEAN,
                repetitionCount : Nat, series : Nat \ {0}]

\* Every variable has its type; a thread that is inside scheduleEvent, or that
\* handles an event, has one.
TypeOK ==
    /\ made \in Seq(EventRecord) /\ calls \in Nat
    /\ queue \subseteq Ids /\ cleared \subseteq Ids
    /\ DOMAIN registry \subseteq Ids
    /\ \A id \in DOMAIN registry :
          registry[id] \in [time : Nat, executed : BOOLEAN, cancelled : BOOLEAN]
    /\ history \in Seq([eventId : Ids, executed : BOOLEAN])
    /\ simTime \in Nat /\ running \in BOOLEAN
    /\ cpc \in [Clients -> {"idle", "push", "register"}]
    /\ job \in [Clients -> Ids \cup {0}]
    /\ \A c \in Clients : cpc[c] # "idle" => job[c] # 0
    /\ wpc \in {"off", "wait", "relock", "evaluate", "execute", "update",
               "record", "repeat", "push", "register"}
    /\ event \in Ids \cup {0} /\ executed \in BOOLEAN
    /\ wpc \notin {"off", "wait", "relock"} => event # 0
    /\ fired \in Seq(Ids)

\* The ids that are still to be pushed, and the one taken off the queue whose
\* precondition and callbacks are still to be called.
Unpushed ==
    {job[c] : c \in {d \in Clients : cpc[d] = "push"}}
        \cup {i \in {event} : wpc = "push"}

Undecided == {i \in {event} : wpc \in {"evaluate", "execute"}}

Fired == {fired[n] : n \in DOMAIN fired}

\* However scheduling, execution, cancellation and clearing interleave, no
\* event is executed twice, and one that was cleared while it waited in the
\* queue is not executed at all.
ExecutesOnce ==
    /\ \A m, n \in DOMAIN fired : fired[m] = fired[n] => m = n
    /\ Fired \cap (queue \cup Unpushed \cup Undecided \cup cleared) = {}

\* A repetition is made only when its predecessor was taken off the queue:
\* whatever its period, a periodic event never has two repetitions underway,
\* they are numbered without repeats up to the limit, and if the period is
\* positive they do not drift: the n-th is due n periods after the first,
\* however late each of them was executed.  (A time that is not positive, which
\* only another period can lead to, becomes the time of the moment.)
SeriesSequential ==
    /\ \A i, j \in queue \cup Unpushed \cup Undecided :
          made[i].series = made[j].series => i = j
    /\ \A i, j \in Ids :
          /\ made[i].series = made[j].series
          /\ made[i].repetitionCount = made[j].repetitionCount
          => i = j
    /\ \A i \in Ids :
          /\ made[i].maxRepetitions > 0
                => made[i].repetitionCount <= made[i].maxRepetitions
          /\ made[i].period > 0
                => made[i].time = made[made[i].series].time
                                     + made[i].repetitionCount * made[i].period

\* The history has one record for an event, which tells whether it was
\* executed.
HistoryTruthful ==
    /\ \A m, n \in DOMAIN history : history[m].eventId = history[n].eventId => m = n
    /\ \A n \in DOMAIN history : history[n].executed <=> history[n].eventId \in Fired

\* A repetition is in the registry before the scheduler thread can take it, so
\* once it is executed the registry says so, as long as it holds it.  This is
\* not so for a client's event, which the scheduler thread may execute before
\* the client registers it, as pending.
RepetitionsMarked ==
    \A id \in Fired \cap DOMAIN registry :
        \/ made[id].repetitionCount = 0
        \/ registry[id].executed
        \/ id = event /\ wpc = "update"

\* The repetitions of the event move on or come to an end.
Stoppable(e) == ~e.periodic \/ e.period > 0 \/ e.maxRepetitions > 0

\* stop() returns, although the inner loop of the scheduler thread does not read
\* m_running and goes on as long as a repetition is due.  The premise is the
\* code's limit: an event that repeats for ever with a period of zero, which is
\* what SimulationEvent defaults to, or a negative one is due again as soon as
\* it is executed, and stop() never returns.
StopReturns ==
    [](\A id \in Ids : Stoppable(made[id])) => (~running ~> wpc = "off")

\* All that is in the queue before an event is due, and so is the event.
OnlyDueAhead(id) ==
    /\ id \in queue /\ made[id].time <= simTime
    /\ \A a \in queue : Precedes(a, id) => made[a].time <= simTime

\* Nothing but an event that is not due yet keeps a due one waiting: under the
\* same premise, the urgent ones before it, their repetitions, and what clients
\* go on scheduling do not hold it up for ever while the scheduler runs.
DueEventsTaken ==
    [](\A id \in Ids : Stoppable(made[id]))
        => \A id \in 1 .. MaxCalls : []<>~(running /\ OnlyDueAhead(id))

\* event_scheduler.h:51: "simulation time when event occurs".  Once the
\* simulation has reached the time of a queued event for good and the
\* scheduler runs, the event, unless it was cancelled, leaves the queue.
DueEventsOccur ==
    \A id \in 1 .. MaxCalls :
        <>[](/\ running /\ id \in DOMAIN registry /\ ~registry[id].cancelled
             /\ made[id].time <= simTime)
            => <>[](id \notin queue)
=============================================================================
