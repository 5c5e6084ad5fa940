# POWSYS365: TLA+ models, model checking and proofs

This directory holds the formal verification of POWSYS365's concurrent parts
and of its searches over the network: TLA+ modules translated from the C++
sources, the TLC configurations that model-check them on small instances, and
proofs, checked by TLAPS, of what holds for every value of the constants.
`PROJECT.json` is the index: for each definition the lines it models, for each
run what it shows, for each property a mutation of the code's model that breaks
it, and the list of hazards the properties are there for.

    tlc -workers 2 -config EventQueue.cfg MCEventQueue       # a run
    tlapm EventQueueProofs.tla                               # the proofs

Contents: [1 The system](#1-the-system) · [2 Plan](#2-plan) ·
[3 The modules](#3-the-modules) · [4 Runs](#4-runs) ·
[5 Fairness](#5-fairness) · [6 Proofs](#6-proofs) ·
[7 Disagreements](#7-disagreements-between-the-code-and-what-is-said-of-it) ·
[8 What is not modelled](#8-what-is-not-modelled)

## 1. The system

POWSYS365 is a desktop program for the analysis of electric power systems
(`docs/architecture.md`). Its layers:

- **presentation**: Qt windows (`ui`), a Python package (`python`);
- **application**: an IDE (`ide`), an AI assistant (`ai`), reports and
  dashboards (`results`), and around them licensing, legal, messaging, help,
  translations, icons, audio, configuration;
- **domain**: the numerics of networks (`core`, `models`, `harmonics`,
  `markets`, `reliability`, `line_design`), **simulation** and **SCADA**;
- **infrastructure**: import and export, GIS, a database schema.

Most of the code is numerics, formats and windows. What can go wrong in an
order nobody wrote a test for is in `simulation`, `scada` and `xtalk`: classes
whose public functions are called by any thread and that run a thread or two of
their own. The repository's tests (`tests/`) exercise the numerics and the
formats; none starts one of these threads. Among the numerics are a few graph
searches whose answers are exact, and which the rest relies on.

### The components with behaviour

| Component | State | Operations | Threads | What is hard |
|---|---|---|---|---|
| Event queue `simulation/event_queue` | a heap of numbered events, capacity, flags, statistics, a condition variable | push ×3, pushBatch, pop, tryPop ×2, bulk getters, clear, configuration | any producers and consumers | signals that are lost or used up, a wait that times out, numbers and FIFO order, the capacity, counters |
| Event scheduler `simulation/src/event_scheduler` | queue, registry, history (a mutex each), simulation time | schedule, cancel, reschedule, clear, set time, start, stop | one scheduler thread | an event copied into two structures that are locked one after the other, periodic events, stopping, an event in no structure while it is executed |
| Real-time sync `simulation/src/real_time_sync` | playback state, simulation time, snapshots, drift | play, pause, step, stop, rewind, snapshots | one | the thread's own state changes overwrite the user's |
| FMI master `simulation/fmi/fmi_co_simulation_master` | FMUs, connections, current time, an event queue it shares | instantiate, initialise, step, terminate | the caller's; one per FMU in a parallel step | a step tried again after some FMUs failed, three calls of the queue that are not atomic together, events that end or change the step they arrive in |
| Alarm manager `scada/src/alarm_manager` | rules, alarms, measurements, notifications (a mutex each), a SQLite table | rules, measurements, acknowledge, reset, suppress, notes, initialize, shutdown | evaluation thread, notification dispatcher | stale copies of rules, map and table changed apart, hysteresis, shutdown, notifications |
| Modbus client `scada/src/modbus_client` | socket, transaction id, mappings, poll groups, statistics | connect, read, write, poll, disconnect, reconnect | one poll thread | transactions of two threads on one socket, late answers, timeouts, blocking reads, joining |
| DNP3, IEC 61850, OPC UA clients `scada/src` | socket, sequence numbers, subscriptions | connect, read, control, subscribe | one to three each | the same, and select before operate |
| Protocol gateway `scada/src/protocol_gateway` | clients, routes, queues, statistics | register, route, send | dispatcher, health monitor | callbacks under locks, a retry queue nothing fills |
| MQTT client `xtalk/mqtt_client` | socket, subscriptions, outbox, QoS 2 sets | connect, publish, subscribe, disconnect | receiver, keep-alive | delivery at least and exactly once, reconnection, a mutex held while receiving |
| Grid connectivity `core/src/power_system`, `io/post_import_validator`, `core/state_estimation/state_estimator_wls` | work list, marks, counts, islands | is the system connected, which islands has it, which buses are not observable | none | three graphs of one system: missing bus numbers, branches out of service, buses marked at different moments |

### How they interact

- The FMI master takes its events from an `EventQueue` that others fill; it is
  the only composition by shared object among these components, and `FmiMaster`
  is composed with `EventQueue` accordingly.
- Protocol clients (Modbus and the others) read values of the field; the
  application hands them to the gateway's bus and to
  `AlarmManager::evaluateMeasurement`. There is no direct call between these
  classes in the repository: the application (`ScadaHmi` and the windows) holds
  pointers to the gateway and the alarm manager.
- The event scheduler calls preconditions and callbacks of the application from
  its own thread, holding the callbacks' mutex and none of the queue, registry
  and history: they may schedule, cancel or clear meanwhile.
- The network's searches read a `PowerSystem` (or the estimator's topology)
  that an importer or a window has built; they are called by one thread.
- Everything else is a call within one thread.

### What makes each correct

- *Event queue*: an accepted event is delivered or cleared, once; a sleeping
  consumer never misses an event; equal events are FIFO; no push exceeds the
  capacity; statistics account for every event; disabling releases all.
- *Event scheduler*: an event is executed at most once, never after it was
  cleared from the queue; repetitions follow one another up to the limit, and
  on time if the period is positive; the history tells the truth; a stopped
  scheduler ends and due events run, unless one repeats for ever at one time.
- *Alarm manager*: a condition that is met has an alarm, one that is normal
  again has none; what the table holds is what the operators see as long as its
  statements take effect; every alarm is shown; shutdown returns.
- *Modbus client*: a call takes no other's answer; no call waits for ever on a
  device that answers; statistics account for every request; polling stops.
- *MQTT client*: the outbox and the sets of the handshakes hold what is
  unfinished and nothing else; what the client answers for reaches the
  callback; publishing and disconnecting return.
- *FMI master*: events take effect at their time, unless a more urgent one of
  the future comes in at the wrong moment; FMUs and master agree on the time
  after every step, retried or not; what is terminated stays terminated; a run
  ends.
- *Grid connectivity*: the answer is the graph's, whatever the order of buses.
- *Real-time sync*: a user's command is not undone by the thread.

`PROJECT.json` lists all components, with every source file's place in them,
and under `hazards` the lines where these parts are exposed.

## 2. Plan

Order: by how much of the behaviour above no test reaches, and what others
build on.

1. **EventQueue** (+ `Delivery`, abstract) — done, safety proved.
2. **EventScheduler** — done, its invariants proved.
3. **AlarmManager** — done, its invariants proved.
4. **ModbusClient** — done, its invariants proved.
5. **MqttClient** — done, its invariants proved.
6. **FmiMaster**, composed with `EventQueue` — done, safety proved.
7. **GridConnectivity** — done, safety proved.
8. **RealTimeSync**: the user's commands and the synchronisation thread;
   abstract specification of a player whose commands take effect.
9. Select before operate and the unsolicited listener of the **DNP3** client,
   then controls and reports of the **IEC 61850** client, both after the
   pattern of `ModbusClient`; **ProtocolGateway**; the messaging engine.

Every safety property that a run finds to hold is a theorem (section 6).
Theorems to come: with each module of the list above, its invariants. Modules
are written for it: constants with named assumptions, one action per stretch of
code, no RECURSIVE operator.

## 3. The modules

Conventions of all modules. Code that holds one mutex from one line to another
is one action; where a function gives up its mutex, takes another, or sleeps,
there is a step between, and a program counter says where each thread is.
Variables have the names of the members (`m_queue` is `queue`). Variables that
are not in the code (what callbacks have seen, who overlapped whom, bounds'
counters) are marked so in the declarations. `CONSTANTS` named `Max...` bound
the behaviours, never what the code may do within them. An operator that is
preceded by `\* Mutation:` is no part of the model: it is the definition that
follows with a plausible mistake, and `PROJECT.json` names the property that
breaks if it takes its place.

### EventQueue, Delivery, MCEventQueue (simulation/event_queue.{h,cpp})

`queue` is the heap as a set of numbered events; `Precedes` is
`Event::operator<`, and `Top` the event it puts first. All functions hold
`m_mutex` throughout, so each is one action, except `pop()` and `tryPop(event,
timeout)`, which sleep: `Sleep` puts the caller into `waiting`,
`NotifyOne`/`NotifyAll` move sleepers to `woken`, and `Wake`, `SpuriousWake`
and `Timeout` evaluate the predicate of the wait again, with the mutex taken
anew and anything having happened in between. The overloads for an rvalue
(`PushMove`, `PushBatch(.., .., TRUE)`) announce `m_queue.top()`, as the code
does after moving the event away.

`Delivery` is the promise: items that are accepted, delivered and discarded
once each. `Mailbox` instantiates it with the numbers of the queued, popped and
cleared events; `DeliversOnce` says that `EventQueue` implements it.

### EventScheduler, MCEventScheduler (simulation/src/event_scheduler.cpp)

`made` holds every event as `scheduleEvent` completes it, under its id; the
queue is a set of ids, since its copies never change, and the registry maps ids
to what may differ. `Begin`, `Push`, `Register` are the stretches of
`scheduleEvent`, between which the scheduler thread (or another client) runs.
The thread's stretches are `Take`, `Evaluate`, `ExecuteEvent`,
`UpdateRegistry`, `RecordHistory`, then for a periodic event
`HandlePeriodicEvent`, `PushRepetition`, `RegisterRepetition`, and `Rest`,
which goes back to the outer loop — the only place that reads `m_running`. The
precondition's answer is a nondeterministic choice. `fired` and `cleared`
record what was executed and cleared.

A kind of event is what a client may hand in: a period is any integer, zero
(the default of `periodSec`, `event_scheduler.h:58`) and negative ones
included, for neither `scheduleEvent` (109–132) nor `handlePeriodicEvent`
(405–419) looks at it; and it may say that it is executed or cancelled already
(`Skipped`). An event that repeats for ever with a period of zero is due again
as soon as it was executed: the inner loop (line 331), which does not read
`m_running`, never ends, and `stop()` never returns. `StopReturns` and
`DueEventsTaken` have the premise that no event does (`Stoppable`): its period
is positive, or its repetitions are limited.

`DueEventsTaken` is about an event that is due together with all that is before
it in the queue (`OnlyDueAhead`); one behind an urgent event of the future
waits, as `event_scheduler_due` shows.

### AlarmManager, MCAlarmManager (scada/src/alarm_manager.cpp)

A rule's condition and its hysteresis are operators (`Met`, `Clears`,
`InDeadband`) over integers; the four groups of alarm kinds the two `switch`es
tell apart are `Kinds`. The evaluation thread copies the rules that apply
(`FetchRules`) and evaluates the copies one by one (`Hold`, `Trigger`,
`Clear`); a new alarm enters the map (`Insert`), then the table
(`PersistAlarm`), then the notifications (`CheckAndTriggerNotification`), each
under another mutex or none. Operators (`AcknowledgeAlarm` …) change the map
and, under the same mutex, the row. The dispatcher copies the undelivered
notifications (`Collect`), delivers the copies (`Deliver`) and removes old
delivered ones (`CleanUp`). `Initialize`, `Shutdown` and `ShutdownEnd` are the
life of the manager; it may be initialized again. Suppression schedules and a
rule's hours are one set, `silent`, that may change at any time.

What `sqlite3_exec` returns is not looked at (lines 872, 896), and the texts go
into the statements as they are (856–894): an apostrophe in one, a busy
database or a full disk make a statement do nothing. Each statement of the
model takes effect or does not (`SqlResults`), and does not while no database
is open. `behind` has the alarms whose last statement did not take effect, an
operator's UPDATE before the INSERT among them; `RowsFollow` is about the
others.

A rule that is met and has an alarm that is not acknowledged gets no other one
within the deadband (`Repeated`, `Hold`). An acknowledged or suppressed alarm
does not count there, so that the same rule raises another at each measurement
— the comment of line 466, "already active and within deadband", can be read
either way (section 7). `RaisedWhenMet` is what the code does keep: when the
evaluation of a measurement ends, a rule that is met has an alarm with about
that value, whatever operators and changes of rules came between, unless an
operator reset it.

A callback is called under `m_alarmsMutex`; one that called the manager would
wait for itself, and none does so in the model.

As committed, the file does not compile (`m_running` is not declared in the
header, a const method locks a mutex that is not mutable); the model takes
`m_running` for the atomic flag its uses require.

### ModbusClient, MCModbusClient (scada/src/modbus_client.cpp)

A transaction is `Begin` (the call reads `m_transactionId`), `Draw` (the
increment's second half: the counter is neither atomic nor under a mutex),
`Send`, `Ready` or `Timeout` (select), then over TCP `Take` — as many of the
expected bytes as there are, waiting for the rest however long it takes, as
`MSG_WAITALL` does — and over RTU `ReceiveFrame`, `ReceivePart`,
`ReceiveSilence`; then `Parse` or `Reject`. What is on the connection is the
set `stream` of answers, each `at` a byte, of all those `written`, of which the
first `taken` are received: enough to tell whether a thread gets an answer
whole (`Whole`) or pieces, and whose. `Expected` and `AnswerLength` are the
byte counts the code and the protocol compute.

`OwnAnswer` says of TCP that a call whose transaction overlapped none of the
other thread takes no answer but its own. Two premises more are needed, and are
the code's limits, not the model's. `serial < TidSpace`: with the ids used up,
the answer of 65536 requests ago matches again. `~raced`: both threads
increment `m_transactionId` without a mutex (lines 437, 506, …). If one has
read it and writes only after the other has drawn twice, the counter goes back:
the next call draws the other's second id again, overlaps nothing, and takes
the late answer to that request for its own. This takes four requests. The run
has two, and found nothing without the premise; the proof did not go through
without it.

The poll thread loops over its variables (`PollRound`, `PollRead`, `PollSkip`,
`PollPublish`); `stopPolling`, `disconnect` and `reconnect` join it (`Halt`,
`Stopped`, `Close`). The device answers, answers with an exception, or not at
all, in any order and as late as it likes, and over TCP may close the
connection.

`readVariable` unlocks a `std::lock_guard`, which does not compile; it is
modelled as the `unique_lock` it must be.

### MqttClient, MCMqttClient (xtalk/mqtt_client.cpp)

Four threads: the one that connects and disconnects, one that publishes, the
receive thread and the keep-alive thread. `holder` is the thread that keeps
`socketMutex_` while it waits in a call of the system: in `readPacket` until a
packet, the receive timeout or the end of the connection, in `sendPacket` while
the connection has no room. Every sender needs it free. The connection is two
sequences of packets of `Capacity` each, lost when it breaks: with the one to
the broker full, `send()` ends with EAGAIN after its timeout and `sendPacket`
tries again for ever (416–423, `NoRoom`), without a look at `shouldRun_`.
`connect()` and the reconnection of the receive thread share `DoTcpConnect`,
`SendConnect`, `AwaitConnAck` and `TakeConnAck`; `Connected` says where they go
on — the receive loop *ends* after a reconnection, as line 677 has it.
`publish()` is `BeginPublish`, `SendPublish`, `InsertOutbox`, each under
another mutex, so that an acknowledgement may come before the outbox knows the
message. One action per kind of packet (`HandlePublish` … `HandleOther`) does
what the receive loop does with it; what is to be answered goes to `SendReply`,
and the callback is a step of its own (`NotifyMessage`). The broker, external,
takes packets in order, answers or closes at any time. Every CONNECT asks for a
clean session (line 105), so the broker forgets what a lost connection left
unanswered (`dropped`), and the client sends nothing again by itself.
Connections are lost and made any number of times.

Packet ids are the `uint16_t` of `nextPacketId_`, of which `MaxPacketId` is the
greatest: it wraps, and 0 is skipped (`NextId`). An id that comes round while
`outbox_` has it still overwrites the entry (line 566); it is in `reused`, and
`StoresExact` says nothing of it. The messages from the broker have an id of
their own each: a broker that numbers anew after a CONNECT could use an id that
is left in `qos2Received_`, which the client writes and never reads.

### FmiMaster, MCFmiMaster (simulation/fmi/fmi_co_simulation_master.{h,cpp})

The master runs on its caller's thread; `Queue` is an instance of `EventQueue`
whose variables are the master's, so every call of the queue is an action of
that module, and another thread pushes between any two. `BeginStep` chooses the
step (bounds, end, minimum of the FMUs' wishes), `AskEmpty`, `Peek`, `Pop` and
`HandleEvent` are `processEvents`, `TakeStep` steps the FMUs — any subset of
which fails — and tries again with half the step while that is above the
minimum. FMUs are a state and a time. Times are integers; halves are rounded
down.

The event that `Pop` takes need not be the one `Peek` has seen. `seen` has what
was in the queue when `peek()` found an event due, and an event is `TooEarly`
when it is handled before its time although one of these was as urgent. What is
not too early is an event of the future that was pushed after `peek()` and is
more urgent than all of them, such as a termination, which
`event_queue.h:38-44` gives the priority Critical: the code handles that one at
once, and the run reaches it.

`FmiMasterAssumption` has a smallest step above 0, which the code does not
check: with 0, `runSimulation` would try ever smaller steps. The master is the
queue's only consumer, as the header's use of it is; another that took events
between `peek()` and `pop()` could leave `pop()` asleep.

### GridConnectivity, MCGridConnectivity (core, io)

A bus is its number, a branch the set of buses it joins and whether it is in
service. `Places` are the entries of `topology_.buses`, which has one for every
number up to the largest, used or not. One action per bus taken from the work
list of `isConnected`, `findIslands` or `findUnobservableIslands`; the three
differ in which graph they walk (`Adjacent`, `Linked`, `Unmeasured`), in when a
bus is marked, and in what the outer loop skips. A bus has a measurement of its
own if its voltage, its angle or one of its injections is measured
(`state_estimator_wls.cpp:1015-1018`); PMU voltages and flows do not count.
Branches that join the same buses are one for the searches, which go from a bus
to the set of its neighbours. The lists are sets, so all orders are covered.
`Reached`, against which the answers are checked, is defined by closed sets and
shares nothing with the walks.

### AlarmManagerProofs, EventQueueProofs, EventSchedulerProofs, FmiMasterProofs, GridConnectivityProofs, ModbusClientProofs, MqttClientProofs, SetLemmas

The proofs, section 6. `SetLemmas` holds what they share of finite sets, least
elements and sequences (what appending and removing does to the packets of a
kind).

## 4. Runs

| Run | Question | Bounds | Result |
|---|---|---|---|
| `event_queue` | is every event delivered once, in order, counted, and is no sleeper forgotten, under all interleavings? | 2 blocking consumers, 1 timed, any producer; 3 events of 2 kinds, 1 drop, capacities 1 and 3 | holds; 31 thousand states |
| `event_queue_announce` | does the push callback see every event pushed? | 2 events | violated |
| `event_scheduler` | executed once, repeated in sequence, recorded and marked truthfully? | 2 clients, 2 calls, 3 kinds of events (an urgent one, a guarded periodic one, one with a negative period), time 0–1, cancelling, restart | holds; 2.3 million states |
| `event_scheduler_endless` | does `stop()` return, and is what is due taken, with a periodic event that has no limit and one with a period of zero? | 1 client, 2 calls, time 0–1 both ways | holds; 276 thousand states |
| `event_scheduler_due` | is a due event executed? | 2 calls | violated |
| `alarm_manager` | do the table and the alarms follow the measurements and the operators? | 1 rule id with 2 versions, 3 values, 2 abnormal measurements, 2 changes of rules, 1 operator's call, statements that fail, restart | holds; 2.0 million states |
| `alarm_manager_live` | is every alarm shown and cleared, and does shutdown return? | 1 rule without a deadband, 2 values, 2 abnormal measurements, 1 change of rules, 1 operator's call | holds; 70 thousand states |
| `modbus_client` | own answers, exact statistics, calls and polling that end? | user and poll thread, TCP and RTU, 2 requests, 1 connection | holds; 154 thousand states |
| `mqtt_client` | do outbox and handshakes stay exact across a lost connection, does what is answered reach the callback, do calls return? | 2 publishes, 1 message from the broker, of either quality, ids that wrap at 1, room for 1 packet each way, any number of connections and retries | holds; 593 thousand states |
| `fmi_master` | do FMUs, master and events stay together through failures and retries, and does a run end? | 2 FMUs, 2 failures, 3 kinds of events of 2 priorities, 2 of them pushed, steps 2 and 8 up to time 8, capacities 1 and 2, 3 calls | holds; 194 thousand states |
| `grid_connectivity` | do the searches find what the graph has? | every system of up to 4 buses over 8 branches | holds; 1.4 million states |
| `grid_connectivity_gaps` | does "connected" mean reachable from the slack bus? | the same | violated |

What each property says is in the comment before its definition. Why the bounds
are enough:

- *event_queue*: a lost signal needs two events and two sleepers that one
  signal could be shared by; FIFO order needs two equal events and a third that
  is not; the capacity is met by both capacities (1: at the first event; 3
  lowered to 1: above it). Three events and three consumers include all these,
  and the safety part is proved for any number (section 6).
- *event_scheduler*: two clients reach every order of queueing and registering
  against each other and the thread; two periodic events make four, with their
  limits reached, and the negative period has its repetition due before it was
  made. The kinds differ in priority, so that a top that is not due occurs. Two
  clients are interchangeable: the run uses symmetry, for invariants only. Only
  the first id is cancelled (`CancelIds`) and none rescheduled (`NewTimes`):
  both change the registry's copy alone.
- *event_scheduler_endless*: the driver moves the time back and forth within
  0–1 and clients make two calls, so that the thread outruns them in the end,
  as it must for anything to be said of its progress: an endless series goes on
  only as long as the time does. Three kinds are before and behind each other:
  an endless one, an urgent one with period zero and one repetition, and one
  handed in as cancelled.
- *alarm_manager*: values 4 and 6 meet the condition and are farther apart than
  the deadband, so that a second alarm of the rule is made; 0 clears; a rule
  change and an operator's call come between any two steps of the threads, and
  each statement of the table may fail. One rule id suffices for the map, table
  and notifications, whose entries are per alarm; two alarms exist. No callback
  is set there (`CallbackTypes`), and one day goes by (`MaxDays`).
- *alarm_manager_live*: without a deadband each of the two measurements makes
  an alarm, so that two are active and one is cleared per evaluation; the
  operator acknowledges, resets or suppresses either, active or cleared.
- *modbus_client*: with two requests a call finds the late answer of an earlier
  one, and the two threads overlap; coils of more than one byte, registers and
  a write give answers of three lengths. The inductive invariant of its proof
  was also run, with four ids, three requests and two connections (15.9 million
  states, no error).
- *mqtt_client*: one message each way runs the publisher against the receive
  thread and both against a reconnection at every point of the handshakes, and
  the second publish follows the first, unfinished or not, with its id, for ids
  wrap at 1. Connections and retries have no bound, so that packets of every
  handshake are under way when one is lost and the broker forgets. One packet
  each way is the least room, in which every sender may find none. Ids differ
  by direction, so a second message from the broker would meet only its own
  entry of each set. `AutoReconnect` is TRUE and the retries unlimited, the
  harder case of `DisconnectReturns`; the proofs are for every setting.
- *fmi_master*: a step of 8 is halved to 4 and 2, so that an FMU can fail, the
  retry can fail and the next succeed; an event at 5 lies inside the first step
  and after its halves, one at 3, which is Critical, ends the simulation within
  it, and one at 0 changes the size. Two events are pushed in a behaviour and
  one dropped: one that is due and a more urgent one of the future between
  `peek()` and `pop()` are among them. `RunEnds` is about a producer that
  stops: one that went on pushing due events would keep `processEvents` busy
  for ever, in the code as well.
- *grid_connectivity*: four numbers are the fewest with a place that has no bus
  between two that have, and with an island of two beside another; the branches
  make a ring, a diagonal, parallel branches of which one is out of service,
  and a third winding. The answers are proved for any number (section 6).
- The capacity, time, value, request and operation bounds appear only in guards
  of actions that begin something; none cuts a thread off inside a call.
  Deadlock is checked except where the system may stop: an MQTT client all of
  whose connections have broken and that nobody disconnects, a master whose
  caller has made all calls, and a search that has answered.

## 5. Fairness

Weak fairness only, and only for what goes on by itself:

- *EventQueue*: a signalled consumer gets the mutex (no function keeps it) and
  a timed wait ends. No producer has to push, no consumer to call, no spurious
  wake-up to occur.
- *EventScheduler*: the scheduler thread, which polls every 10 ms with mutexes
  that are held for bounded times. No client has to go on, and nobody has to
  move the time. That preconditions and callbacks return is assumed, and both
  properties have the premise of section 3 on the periods.
- *AlarmManager*: the evaluation thread and the dispatcher, which poll every
  100 ms, and `shutdown` once both threads have ended. `ShutdownReturns` has
  the premise that measurements stop: the inner loop does not read the flag,
  and `evaluateMeasurement` accepts them until the end.
- *ModbusClient*: the two threads, including the timeout of `select`, and
  `Answer`, the device's answer to some outstanding request. `CallsReturn` and
  `StopReturns` have the premise that the device never leaves a request
  unanswered or answers with an exception over TCP — without it a thread in
  `recv` may wait for ever (section 7).
- *MqttClient*: the receive thread, the owner inside `connect` or `disconnect`,
  the keep-alive thread and a publisher that is inside `publish()`. The receive
  thread takes `socketMutex_` anew right after each packet, and `std::mutex`
  promises no order: a publisher may find it taken every time. So
  `PublishReturns` says only what the code sees to: no one keeps the mutex for
  good, and a `publish()` that never returned would be one that is passed over
  without end. A read ends by the receive timeout, which takes a
  `connectTimeoutMs` above 0. Both liveness properties have the premise that
  the connection has room again and again (`[]<>Room`): the broker reads on, or
  the connection breaks. Without it a sender stays in `sendPacket` with the
  mutex, and `disconnect()` hangs (section 7).
- *FmiMaster*: the caller's thread goes on inside a call, and an FMU's `doStep`
  returns. Nobody has to push an event.
- *GridConnectivity*: none; its properties are safety.

## 6. Proofs

All theorems hold for every value of the constants that satisfies their
module's assumption (`EventQueueAssumption`, …); these say that threads, FMUs
and bus numbers are finitely many, that the two kinds of consumers are
different threads, and the constants' types, the rules' among them. All proofs
are of steps: where TLC enumerates a few messages, requests or rules, the
provers take any number.

**EventQueue.** The inductive invariant is `TypeOK /\ NumbersApart /\
NoLostWakeup`. `NoLostWakeup` (while someone sleeps there are at least as many
signalled consumers as events) is kept by a push because it signals one sleeper
per event or finds none; by a consumer because it takes one event and is one
signalled consumer — which needs that the heap *has* a top that is one event,
that is, that numbers differ: `NumbersApart`. With them:

- `TypeCorrect`, `NoWakeupIsLost`, `NumbersStayApart`: the invariant's parts;
- `ImplementsDelivery`: every step is a step of `Delivery` or a stutter, so
  events are delivered exactly once;
- `CountersAreExact`: from the invariant and that counters and the sets of
  numbers grow together (a second, smaller induction);
- `KeepsFIFO`: whatever leaves is the top or a set closed under "equal and
  earlier".

**EventScheduler.** `ExecutesOnce` is not inductive: nothing in it says that
the event a client is about to push is not the one in the thread's hands. The
strengthening is that an id is at one place at a time (`Apart`), that what the
thread has in hand is neither queued nor recorded, with `executed` telling
whether it has fired (`InHand`), and `HistoryTruthful` itself. Then:

- `TypeCorrect`;
- `EventsExecuteOnce`, `HistoryIsTruthful`: from the invariant;
- `RepetitionsAreMarked`: with `Firsts` (clients make first occurrences only,
  and a repetition is registered before it can fire);
- `SeriesAreSequential`, for any periods: with `OneUnderway`, at most one event
  of a series is underway and it has the greatest number so far, so that the
  repetition made of it gets a number of its own (`Numbering`).

**AlarmManager.** Alarms of any number of rules, statements that fail at any
time. `RowsFollow` lacks what the thread is doing: `Persisting` says that the
alarm being made has no row yet, and is still what the thread's copy says
unless an operator's UPDATE found no row. `RaisedWhenMet` lacks the rules
already evaluated: `Evaluating` says of each of them, round after round, that
it has been raised if met, by an alarm that operators may only reset. That a
new alarm is found under its rule, and that a repeated one is within the
deadband, are lemmas on `FirstOf` and `Change`. Then `TypeCorrect`,
`RowsAlwaysFollow`, `AlwaysRaisedWhenMet`.

**ModbusClient.** The invariant `Inv` has six parts besides `BytesSuffice`:

- `ControlInv`: where the threads can be; a transaction needs a connection;
- `CallInv`: serial numbers differ, and a call that overlaps none has the last;
- `CountInv`: the statistics — `StatisticsAccount`, which is inductive itself;
- `StreamInv`: the answers lie one after another, and what is not received of
  the last reaches to `written`, so that "no answer" is "no byte";
- `OwnerInv`: nothing bears a serial number from the future, so that no answer
  to a request exists before the request is sent;
- `IdInv`: on a connection that is not `raced`, requests, answers and calls
  carry the ids `c + 1, c + 2, …` modulo 65536 in the order of their serial
  numbers, for some `c` (drawing a lost id would break it).

`OwnAnswerOnly` follows: of fewer than 65536 requests no two have the same id
(`IdsDiffer`), so an answer with the call's id has the call's serial number.
For `BytesAlwaysSuffice`, sending a request adds as much to `Wanted` as to
`Owed`; an answer that is no exception is as long as its request asked for
(`RepliesAsAsked`) and moves that much from `Owed` to `Available`; receiving
takes the same from `Available` and `Wanted`; giving up lowers `Wanted` alone.
`Owed` is a sum over a set, whose laws (`OwedLess`, `OwedMore`) come from an
induction over finite sets. `StatisticsAlwaysAccount` and `TypeCorrect` are
parts of the invariant.

**MqttClient.** The stores are exact because of what is on its way: each
message of either direction has at most one packet, with the publisher, on the
connection, or in the receive thread's hands, and which one it is tells what
the outbox, the two sets and the broker's session know of it (`Outgoing`,
`Incoming`; `LinkInv` and `HandInv` say which packets each side sends). A
handshake's step replaces the packet by the next; a lost connection loses it,
and the clean session that follows ends what the broker had begun. An id that
is given out again begins a new history if the outbox is rid of it, and is left
out if not. `TypeCorrect`, `StoresStayExact` and `AnswersReachCallback` follow:
a `PUBACK` or `PUBREC` leaves only when the callback is all that is left to do.

**FmiMaster.** `UsesQueue` shows that every step of the composition is a step
of `EventQueue` or leaves the queue alone, so that what is proved of the queue
is proved of the master's (`QueueInvariance`, through an instance of
`EventQueueProofs`). The master's own invariant adds that a step fits before
the stop time (`StepFits`), that FMUs and master are together whenever the last
step succeeded (`Together`), and that a terminated master has terminated its
FMUs. Then `TypeCorrect`, `StaysInStep`, `EndedStayEnded`. For `NoEventEarly`,
from `peek()` to `pop()` there is a due event in the queue that none of those
`seen` precedes in priority (`Due`), since producers only add and nobody else
takes. The top is that event or precedes it: with the same priority it is no
later, and due as well; otherwise it is more urgent than every event seen.
`NeverWaitsForEvents` says that the master never sleeps in `pop()`, which would
block on an empty queue: the event just peeked at is still there. Both rest on
the model's producers only pushing: a thread that took or cleared events of the
master's queue could leave it asleep in a step. `EventsAreDelivered` carries
`ImplementsDelivery` over to the composition.

**GridConnectivity.** The answers are not inductive: a walk that is half done
says nothing. The strengthening (`Walk`) is that what is marked is closed under
the graph walked but for the buses on the work list, and lies in every closed
set its root is in. When the list is empty, it is what the root reaches
(`WalkEnds`); the graphs are symmetric, so the complement of a closed set is
closed (`ComplementClosed`), and it is what *each* of its buses reaches. An
island begun at an unmarked bus is therefore apart from all earlier ones
(`ApartFromClosed`, `OneMoreClass`), although `findIslands` does not look at
its marks while it walks, and the marks of earlier islands never stop the walk
of `findUnobservableIslands`. Then:

- `TypeCorrect`: with it, that the count of `isConnected` is that of its marks;
- `ConnectedIsExact`: equal counts of a finite set and a subset are equal sets;
- `IslandsAreExact`, `UnobservableIsExact`.

**Only model-checked.** The liveness properties: `WaitersServed` and
`DisableReleasesWaiters` of the queue, `StopReturns` and `DueEventsTaken` of
the scheduler, `ShutdownReturns`, `AlarmsShown` and `ClearsEventually` of the
alarm manager, `CallsReturn` and `StopReturns` of the Modbus client,
`PublishReturns` and `DisconnectReturns` of the MQTT client, and `RunEnds` of
the FMI master. They rest on fairness, hence on ENABLED, which the prover does
not handle. Every other property of the runs is a theorem. Of the three
properties that runs refute there is nothing to prove.

## 7. Disagreements between the code and what is said of it

Three have a run that shows them (`findings` in `PROJECT.json`):

1. `event_queue.h:186`: the push callback is "called when an event is pushed".
   Three of the overloads call it with the top of the heap
   (`event_queue.cpp:196`): the pushed event is not announced, another twice
   (`EveryPushAnnounced`).
2. `event_scheduler.h:51`: "simulation time when event occurs". The queue's
   order does not look at it (`event_scheduler.h:72`): an urgent event of the
   future keeps due ones waiting (`DueEventsOccur`).
3. `power_system.h:119`: "all buses reachable from slack". `isConnected`
   compares two counts, and one of them includes places no bus was added for
   (`power_system.cpp:403`): it may say that a system is connected one bus of
   which nothing reaches (`ConnectedMeansReachable`). Without missing numbers
   it is exact (`ConnectedExact`).

Others, seen while modelling and in the models as the code has them:

- Event queue: `event_queue.h:165` says that `pop()` blocks if the queue is
  blocking; `setBlocking(false)` signals the sleepers, but their predicate does
  not read `m_blocking` (`event_queue.cpp:211`) and they sleep on.
- Scheduler: an event with a period of zero, which is the default, or a
  negative one, and no limit on its repetitions keeps the scheduler thread in
  its inner loop (`event_scheduler.cpp:331`), so that `stop()`, documented as
  stopping the scheduler, never returns. The history holds events whose
  precondition rejected them (`event_scheduler.h:192` calls them executed),
  told apart by `executed`; a cancelled event is executed all the same, since
  the thread reads `cancelled` of the queue's copy (line 340) and `cancelEvent`
  sets it in the registry's, which is then written over.
- Alarms: the kinds `FREQUENCY_LOW` and `POWER_FACTOR_LOW` never clear
  (`alarm_manager.cpp:523`); a value outside the deadband updates the alarm and
  raises another; an acknowledged or suppressed alarm, which line 466 may mean
  by "already active", does not keep a new one from being raised at each
  measurement; `delayMs` (`alarm_manager.h:82`), the time a condition must
  last, is read nowhere; a statement that fails leaves the table behind for
  good; acknowledging a cleared alarm makes it active (line 563); three
  documented kinds have no case (`alarm_manager.h:56`). "Cleanup old delivered
  notifications" (`alarm_manager.cpp:1012`): the dispatcher marks its copies,
  so that none in the list is ever delivered, cleaned up, or not delivered
  again.
- Modbus: "combines 2 registers" (`modbus_client.h:144`), but the TCP parser
  drops the byte count its callers look for (`modbus_client.cpp:268`): such a
  read fails or returns fewer registers. An exception answer is shorter than
  what `recv` waits for, over TCP; over RTU a late answer is taken for the next
  request's; a write over TCP reports failure, three bytes of data being left
  of four (`Succeeds`); two threads can make `m_transactionId` go back, so that
  an id is drawn twice (section 3); a read of coils takes its first data byte
  for the byte count; the exception code of a rejected answer is read
  uninitialised (`Reject` counts an error or not).

- MQTT: a broker that stops reading, on a connection that stays, keeps a sender
  in `sendPacket` with the mutex (416–423), and `disconnect()` with it; a
  packet id that comes round is given out although a message has it still (54,
  566); a message acknowledged before `publish()` has put it into the outbox
  stays there for good (`leaked` in the model); the receive loop ends after a
  reconnection that *succeeded* too (line 677), after which a client that says
  CONNECTED receives nothing; `connect()` does not reset the count of retries,
  and on a client whose receive thread has ended by itself it assigns to a
  joinable thread, which ends the program; `qos2Received_` is never read, so
  that a message of quality 2 that a broker sends twice reaches the callback
  twice, although `mqtt_client.h:25` says "exactly once"; a publish or a ping
  may go out on a new socket before its CONNECT.
- FMI: a retry does not roll back the FMUs that succeeded, which step again
  from their new state to the same time; an `fmi2Error` of `doStep` leaves the
  FMU in a state that may step again; `maxStepRetries` is not read; a Terminate
  event makes `runSimulation` return false; removing an FMU leaves connections
  with the indices of its successors (line 763); a more urgent event of the
  future that is pushed between `peek()` and `pop()` is handled at once, a
  termination for instance (line 1303).
- Searches: `findIslands` joins two buses that are linked only through a number
  no bus has; `isConnected` walks through such numbers and counts them.
- Not modelled yet, read: the thread of the real-time synchronisation ends
  stepping and rewinding by storing PAUSED, so that a stop or play in between
  is lost (`real_time_sync.cpp:293`), and `stop()`'s reset of the time may be
  written over (332); the DNP3 client's `operateCROB` takes a new sequence
  number where its comment says the same one, its checksums are written low
  byte first and read high byte first, and its listener and its callers wait on
  one socket.

## 8. What is not modelled

Within the modelled components:

- *Event queue*: the move constructor and assignment, the registry of queues by
  name, average waiting time. Batches have two events.
- *Event scheduler*: statistics, the queries' filters, real-time pacing, the
  times of random events (they are events of any time).
- *Alarm manager*: archiving and export, statistics, PostgreSQL (its branch
  stores no alarm), the tables of rules and schedules, which nothing reads
  back, texts. `setNotificationCallback` writes a map the dispatcher reads
  without a mutex, and `shutdown` closes the database under none: both are data
  races, and atomic in the model.
- *Modbus client*: the serial line's parameters, conversion of values, the
  checksum beyond "one answer or not", the average response time;
  `readVariable`'s reference into the mappings, used after the mutex is given
  up, is read when it is taken.
- *MQTT client*: subscriptions (they take the path of `publish`), quality 0,
  encodings, statistics, callbacks that call the client, the signal a write to
  a closed socket raises.
- *FMI master*: adding and removing FMUs and connections, the values that
  connections copy, waiting for real time, model exchange, the import of FMUs,
  and the earlier sequential master of `simulation/src/fmi_co_simulation.cpp`.
- *Grid connectivity*: everything else in its three files, which is numerics or
  checks of single records.

Other components: those of section 2 are to come. The others are numerics
(floating point, one call at a time), formats, or windows: `PROJECT.json` gives
the reason for each. They are most of the program's lines, and the share of it
these modules cover is small for that reason.
