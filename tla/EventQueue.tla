------------------------------ MODULE EventQueue ------------------------------
(***************************************************************************)
(* The thread-safe priority queue of the co-simulation engine              *)
(* (simulation/event_queue.{h,cpp}, class EventQueue).                     *)
(*                                                                         *)
(* Every member function holds m_mutex from its first to its last line, so *)
(* each one is a single action, except the two that sleep on m_condVar:    *)
(* pop() and tryPop(event, timeout) release the mutex while they wait, and *)
(* a waiter that is signalled has to take the mutex again before it can    *)
(* re-evaluate its predicate.  The waiters still asleep are in "waiting",  *)
(* the ones that were signalled and have not run yet are in "woken".       *)
(***************************************************************************)
EXTENDS Naturals, FiniteSets

CONSTANTS
    Poppers,       \* threads that call pop()
    TimedPoppers,  \* threads that call tryPop(event, timeout)
    EventKinds,    \* the events producers push, before they are numbered
    MaxSizes,      \* the capacities setMaxSize is called with
    MaxEvents,     \* bound: the events accepted in one behaviour
    MaxDropped     \* bound: the events dropped in one behaviour

Threads == Poppers \cup TimedPoppers

ASSUME EventQueueAssumption ==
    /\ IsFiniteSet(Threads)
    /\ Poppers \cap TimedPoppers = {}
    /\ \A k \in EventKinds : k.time \in Nat /\ k.priority \in Nat
    /\ MaxSizes \subseteq Nat
    /\ MaxSizes # {}
    /\ MaxEvents \in Nat
    /\ MaxDropped \in Nat

VARIABLES
    queue,         \* m_queue: the numbered events it holds
    maxSize,       \* m_maxSize
    blocking,      \* m_blocking
    enabled,       \* m_enabled
    sequence,      \* m_sequence: the number of the next event
    totalPushed,   \* m_totalPushed
    totalPopped,   \* m_totalPopped
    totalDropped,  \* m_totalDropped
    waiting,       \* threads asleep in m_condVar
    woken,         \* threads signalled that have not taken m_mutex again
    announced,     \* the numbers the push callback has seen
    popped,        \* the numbers the pop callback has seen
    cleared        \* the numbers thrown away by clear(), which no callback sees

config == <<maxSize, blocking, enabled>>
sleepers == <<waiting, woken>>
vars == <<queue, config, sequence, totalPushed, totalPopped, totalDropped,
          sleepers, announced, popped, cleared>>

Event == [time : Nat, type : {k.type : k \in EventKinds},
          priority : Nat, sequence : Nat]

Init ==
    /\ queue = {}
    /\ maxSize \in MaxSizes
    /\ blocking = TRUE
    /\ enabled = TRUE
    /\ sequence = 0
    /\ totalPushed = 0
    /\ totalPopped = 0
    /\ totalDropped = 0
    /\ waiting = {}
    /\ woken = {}
    /\ announced = {}
    /\ popped = {}
    /\ cleared = {}

-----------------------------------------------------------------------------
(***************************************************************************)
(* Ordering.  The numbers of two queued events differ, so the order is     *)
(* total on the queue and the heap's top is its least element.             *)
(***************************************************************************)

\* Mutation: the order of the numbers is reversed.
PrecedesLIFO(a, b) ==
    \/ a.priority < b.priority
    \/ a.priority = b.priority /\ a.time < b.time
    \/ a.priority = b.priority /\ a.time = b.time /\ a.sequence > b.sequence

\* Event::operator<: priority, then time, then number.
Precedes(a, b) ==
    \/ a.priority < b.priority
    \/ a.priority = b.priority /\ a.time < b.time
    \/ a.priority = b.priority /\ a.time = b.time /\ a.sequence < b.sequence

Top(q) == CHOOSE e \in q : \A f \in q \ {e} : Precedes(e, f)

Numbers(S) == {e.sequence : e \in S}

\* The event of kind k once it carries number n.
Numbered(k, n) == [time |-> k.time, type |-> k.type,
                   priority |-> k.priority, sequence |-> n]

-----------------------------------------------------------------------------
(***************************************************************************)
(* m_condVar.                                                              *)
(***************************************************************************)

NotifyOne ==
    \/ waiting = {} /\ UNCHANGED sleepers
    \/ \E t \in waiting :
          /\ waiting' = waiting \ {t}
          /\ woken' = woken \cup {t}

NotifyAll ==
    /\ waiting' = {}
    /\ woken' = woken \cup waiting

Room == IF Cardinality(queue) >= maxSize THEN 0 ELSE maxSize - Cardinality(queue)

-----------------------------------------------------------------------------
(***************************************************************************)
(* Producers.  push(const Event&) hands the callback the event it has just *)
(* numbered; push(Event&&), which push(time, type, data, priority) calls,  *)
(* has moved the event away by then and hands it the top of the heap.      *)
(* A push on a disabled queue returns false and changes nothing.           *)
(***************************************************************************)

\* Mutation: only the push that makes an empty queue non-empty signals.
AcceptSignalIfWasEmpty(e) ==
    /\ queue' = queue \cup {e}
    /\ sequence' = sequence + 1
    /\ totalPushed' = totalPushed + 1
    /\ IF queue = {} THEN NotifyOne ELSE UNCHANGED sleepers
    /\ UNCHANGED <<config, totalPopped, totalDropped, popped, cleared>>

Accept(e) ==
    /\ queue' = queue \cup {e}
    /\ sequence' = sequence + 1
    /\ totalPushed' = totalPushed + 1
    /\ NotifyOne
    /\ UNCHANGED <<config, totalPopped, totalDropped, popped, cleared>>

PushCopy(k) ==
    /\ enabled /\ Room > 0 /\ sequence < MaxEvents
    /\ Accept(Numbered(k, sequence))
    /\ announced' = announced \cup {sequence}

PushMove(k) ==
    /\ enabled /\ Room > 0 /\ sequence < MaxEvents
    /\ Accept(Numbered(k, sequence))
    /\ announced' = announced \cup {Top(queue').sequence}

\* A full queue rejects the new event; it never evicts an old one.
PushFull ==
    /\ enabled /\ Room = 0 /\ totalDropped < MaxDropped
    /\ totalDropped' = totalDropped + 1
    /\ UNCHANGED <<queue, config, sequence, totalPushed, totalPopped,
                   sleepers, announced, popped, cleared>>

\* pushBatch numbers events until the queue is full and drops the others,
\* then signals every waiter, whether or not anything was accepted.  The
\* overload for an rvalue announces the top after each insertion.
Batch(k1, k2) ==
    CASE Room = 0 -> {}
      [] Room = 1 -> {Numbered(k1, sequence)}
      [] OTHER    -> {Numbered(k1, sequence), Numbered(k2, sequence + 1)}

PushBatch(k1, k2, moved) ==
    LET accepted == Batch(k1, k2)
        n == Cardinality(accepted)
    IN  /\ enabled
        /\ sequence + n <= MaxEvents
        /\ totalDropped + (2 - n) <= MaxDropped
        /\ queue' = queue \cup accepted
        /\ sequence' = sequence + n
        /\ totalPushed' = totalPushed + n
        /\ totalDropped' = totalDropped + (2 - n)
        /\ announced' = announced \cup
              IF moved
              THEN {Top(queue \cup {f \in accepted : f.sequence <= e.sequence}).sequence
                       : e \in accepted}
              ELSE Numbers(accepted)
        /\ NotifyAll
        /\ UNCHANGED <<config, totalPopped, popped, cleared>>

-----------------------------------------------------------------------------
(***************************************************************************)
(* Consumers.                                                              *)
(***************************************************************************)

\* Mutation: a bulk getter counts one pop for all it removes.
RemoveCountedOnce(S) ==
    /\ queue' = queue \ S
    /\ totalPopped' = totalPopped + IF S = {} THEN 0 ELSE 1
    /\ popped' = popped \cup Numbers(S)
    /\ UNCHANGED <<config, sequence, totalPushed, totalDropped, announced,
                   cleared>>

\* Mutation: the events handed out are put back with those that stay.
RemovePutBack(S) ==
    /\ totalPopped' = totalPopped + Cardinality(S)
    /\ popped' = popped \cup Numbers(S)
    /\ UNCHANGED <<queue, config, sequence, totalPushed, totalDropped,
                   announced, cleared>>

\* popUnsafe, and the loops of the bulk getters: the events in S leave.
Remove(S) ==
    /\ queue' = queue \ S
    /\ totalPopped' = totalPopped + Cardinality(S)
    /\ popped' = popped \cup Numbers(S)
    /\ UNCHANGED <<config, sequence, totalPushed, totalDropped, announced,
                   cleared>>

RemoveTop == queue # {} /\ Remove({Top(queue)})

Idle(t) == t \notin waiting \cup woken

\* pop() and both forms of tryPop when an event is there.
TakeAtOnce(t) == Idle(t) /\ RemoveTop /\ UNCHANGED sleepers

\* pop() and tryPop(event, timeout) on an empty queue go to sleep.  pop()
\* does so only on a blocking queue, tryPop(event, timeout) on any.  The
\* wait's predicate lets neither sleep on a disabled queue.
Sleep(t) ==
    /\ Idle(t)
    /\ queue = {} /\ enabled
    /\ t \in Poppers => blocking
    /\ waiting' = waiting \cup {t}
    /\ UNCHANGED <<queue, config, sequence, totalPushed, totalPopped,
                   totalDropped, woken, announced, popped, cleared>>

\* A thread that runs inside the wait re-evaluates the predicate
\* !m_queue.empty() || !m_enabled.
Recheck(t) ==
    \/ /\ RemoveTop
       /\ waiting' = waiting \ {t}
       /\ woken' = woken \ {t}
    \/ /\ queue = {} /\ ~enabled          \* returns Event() or false
       /\ waiting' = waiting \ {t}
       /\ woken' = woken \ {t}
       /\ UNCHANGED <<queue, config, sequence, totalPushed, totalPopped,
                      totalDropped, announced, popped, cleared>>
    \/ /\ queue = {} /\ enabled           \* goes back to sleep
       /\ waiting' = waiting \cup {t}
       /\ woken' = woken \ {t}
       /\ UNCHANGED <<queue, config, sequence, totalPushed, totalPopped,
                      totalDropped, announced, popped, cleared>>

Wake(t) == t \in woken /\ Recheck(t)

SpuriousWake(t) == t \in waiting /\ Recheck(t)

\* wait_for gives up: the predicate is evaluated once more, and the call
\* returns an event, or false.
Timeout(t) ==
    /\ t \in TimedPoppers \cap (waiting \cup woken)
    /\ waiting' = waiting \ {t}
    /\ woken' = woken \ {t}
    /\ \/ RemoveTop
       \/ /\ queue = {}
          /\ UNCHANGED <<queue, config, sequence, totalPushed, totalPopped,
                         totalDropped, announced, popped, cleared>>

\* getEventsBefore, getEventsByType and getEventsByPriority.
GetEventsBefore(time) ==
    Remove({e \in queue : e.time <= time}) /\ UNCHANGED sleepers

GetEventsByType(type) ==
    Remove({e \in queue : e.type = type}) /\ UNCHANGED sleepers

GetEventsByPriority(priority) ==
    Remove({e \in queue : e.priority <= priority}) /\ UNCHANGED sleepers

\* clear() swaps the heap away: no counter, callback or waiter sees it.
Clear ==
    /\ queue' = {}
    /\ cleared' = cleared \cup Numbers(queue)
    /\ UNCHANGED <<config, sequence, totalPushed, totalPopped, totalDropped,
                   sleepers, announced, popped>>

-----------------------------------------------------------------------------
(***************************************************************************)
(* Configuration.                                                          *)
(***************************************************************************)

\* Mutation: the capacity is one more than asked for.
SetMaxSizePlusOne(n) ==
    /\ maxSize' = n + 1
    /\ UNCHANGED <<queue, blocking, enabled, sequence, totalPushed,
                   totalPopped, totalDropped, sleepers, announced, popped,
                   cleared>>

SetMaxSize(n) ==
    /\ maxSize' = n
    /\ UNCHANGED <<queue, blocking, enabled, sequence, totalPushed,
                   totalPopped, totalDropped, sleepers, announced, popped,
                   cleared>>

SetBlocking(b) ==
    /\ blocking' = b
    /\ IF b THEN UNCHANGED sleepers ELSE NotifyAll
    /\ UNCHANGED <<queue, maxSize, enabled, sequence, totalPushed,
                   totalPopped, totalDropped, announced, popped, cleared>>

\* Mutation: disabling signals a single waiter.
SetEnabledNotifyOne(b) ==
    /\ enabled' = b
    /\ IF b THEN UNCHANGED sleepers ELSE NotifyOne
    /\ UNCHANGED <<queue, maxSize, blocking, sequence, totalPushed,
                   totalPopped, totalDropped, announced, popped, cleared>>

SetEnabled(b) ==
    /\ enabled' = b
    /\ IF b THEN UNCHANGED sleepers ELSE NotifyAll
    /\ UNCHANGED <<queue, maxSize, blocking, sequence, totalPushed,
                   totalPopped, totalDropped, announced, popped, cleared>>

-----------------------------------------------------------------------------
Produce ==
    \/ \E k \in EventKinds : PushCopy(k) \/ PushMove(k)
    \/ PushFull
    \/ \E k1, k2 \in EventKinds, moved \in BOOLEAN : PushBatch(k1, k2, moved)

Consume ==
    \/ \E t \in Threads :
          \/ TakeAtOnce(t)
          \/ Sleep(t)
          \/ Wake(t)
          \/ SpuriousWake(t)
          \/ Timeout(t)
    \/ \E k \in EventKinds :
          \/ GetEventsBefore(k.time)
          \/ GetEventsByType(k.type)
          \/ GetEventsByPriority(k.priority)
    \/ Clear

Configure ==
    \/ \E n \in MaxSizes : SetMaxSize(n)
    \/ \E b \in BOOLEAN : SetBlocking(b) \/ SetEnabled(b)

Next == Produce \/ Consume \/ Configure

Spec == Init /\ [][Next]_vars

\* A signalled thread gets the mutex sooner or later, since no holder keeps
\* it, and a timed wait ends.  Nothing makes a producer push, a consumer
\* call, or a spurious wake-up happen.
Fairness ==
    /\ \A t \in Threads : WF_vars(Wake(t))
    /\ \A t \in TimedPoppers : WF_vars(Timeout(t))

FairSpec == Spec /\ Fairness

-----------------------------------------------------------------------------
(***************************************************************************)
(* Properties.                                                             *)
(***************************************************************************)

\* Every variable has its type, and a thread is asleep in m_condVar or has
\* been signalled by it, never both.
TypeOK ==
    /\ queue \subseteq Event /\ IsFiniteSet(queue)
    /\ maxSize \in MaxSizes
    /\ blocking \in BOOLEAN /\ enabled \in BOOLEAN
    /\ sequence \in Nat
    /\ totalPushed \in Nat /\ totalPopped \in Nat /\ totalDropped \in Nat
    /\ waiting \subseteq Threads /\ woken \subseteq Threads
    /\ waiting \cap woken = {}
    /\ announced \subseteq Nat /\ popped \subseteq Nat /\ cleared \subseteq Nat

\* A waiter is asleep only while each event of the queue has a signalled
\* thread of its own coming for it: push() signals one waiter per event, so
\* the k-th event must not rely on the waiter the first one has signalled.
NoLostWakeup ==
    waiting # {} => Cardinality(queue) <= Cardinality(woken)

\* No number is given twice, and none is in two places: an accepted event is
\* queued, or was handed out, or was thrown away.
NumbersApart ==
    /\ \A e, f \in queue : e.sequence = f.sequence => e = f
    /\ Numbers(queue) \cup popped \cup cleared = 0 .. sequence - 1
    /\ Numbers(queue) \cap (popped \cup cleared) = {}
    /\ popped \cap cleared = {}
    /\ sequence <= MaxEvents

\* The statistics account for every event: each accepted one has its own
\* number and is still queued, was handed out, or was thrown away by clear()
\* - the only way for totalPushed and totalPopped + size() to differ.
CountersExact ==
    /\ totalPushed = sequence
    /\ totalPopped = Cardinality(popped)
    /\ totalPushed = totalPopped + Cardinality(queue) + Cardinality(cleared)

\* Within one priority, type and time events leave in the order of their
\* numbers, whichever of pop, tryPop and the bulk getters takes them, and
\* although the bulk getters pop everything and push back what they keep.
FIFOWithinClass ==
    [][\A e \in queue \ queue', f \in queue' :
           /\ e.priority = f.priority
           /\ e.type = f.type
           /\ e.time = f.time
           => e.sequence < f.sequence]_vars

\* The queue is an exactly-once mailbox: an accepted event is handed to one
\* consumer or thrown away, once, and never comes back.
Mailbox == INSTANCE Delivery WITH
    Item <- 0 .. MaxEvents - 1,
    pending <- Numbers(queue),
    delivered <- popped,
    discarded <- cleared

DeliversOnce == Mailbox!Spec

\* Events and sleeping consumers do not stay together for ever: the signals
\* sent are enough to empty the queue or to wake everybody up.
WaitersServed ==
    [](queue # {} /\ waiting # {} => <>(queue = {} \/ waiting = {}))

\* Disabling the queue releases every consumer that is asleep in it, once
\* and for all if it stays disabled.
DisableReleasesWaiters == <>[]~enabled => <>[](waiting = {} /\ woken = {})

\* event_queue.h:186: "Called when an event is pushed".  Every event accepted
\* while the callback is set is announced to it.
EveryPushAnnounced == announced = 0 .. sequence - 1
=============================================================================
