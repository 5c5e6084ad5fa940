--------------------------- MODULE EventQueueProofs ---------------------------
(***************************************************************************)
(* What holds of EventQueue for any number of consumers, any kinds of      *)
(* events, any capacities and any bounds.                                  *)
(*                                                                         *)
(* NoLostWakeup is inductive over the types, but for the heap's top: the   *)
(* consumer that takes it removes exactly one event only because the       *)
(* numbers of the queued events differ, so that a least event exists.      *)
(* NumbersApart says that, and is the invariant behind DeliversOnce too.   *)
(***************************************************************************)
EXTENDS EventQueue, SetLemmas

IInv == TypeOK /\ NumbersApart /\ NoLostWakeup

-----------------------------------------------------------------------------
(***************************************************************************)
(* The heap's top.                                                         *)
(***************************************************************************)

\* A non-empty heap whose events carry different numbers has a top: one of
\* its events that precedes all the others.
LEMMA TopIsLeast ==
    ASSUME NEW q \in SUBSET Event, q # {},
           \A e, f \in q : e.sequence = f.sequence => e = f
    PROVE  /\ Top(q) \in q
           /\ \A f \in q \ {Top(q)} : Precedes(Top(q), f)
<1>1. PICK p \in q : \A d \in q : p.priority <= d.priority
    <2> DEFINE f == [d \in q |-> d.priority]
    <2>1. f \in [q -> Nat]
        BY DEF Event
    <2> HIDE DEF f
    <2>2. \E p \in q : \A d \in q : f[p] <= f[d]
        BY <2>1, LeastOn
    <2> QED BY <2>2 DEF f
<1> DEFINE qp == {d \in q : d.priority = p.priority}
<1>2. PICK t \in qp : \A d \in qp : t.time <= d.time
    <2> DEFINE f == [d \in qp |-> d.time]
    <2>1. f \in [qp -> Nat] /\ qp # {}
        BY <1>1 DEF Event
    <2> HIDE DEF f, qp
    <2>2. \E x \in qp : \A d \in qp : f[x] <= f[d]
        BY <2>1, LeastOn
    <2> QED BY <2>2 DEF f
<1> DEFINE qt == {d \in qp : d.time = t.time}
<1>3. PICK e \in qt : \A d \in qt : e.sequence <= d.sequence
    <2> DEFINE f == [d \in qt |-> d.sequence]
    <2>1. f \in [qt -> Nat] /\ qt # {}
        BY <1>2 DEF Event
    <2> HIDE DEF f, qt
    <2>2. \E x \in qt : \A d \in qt : f[x] <= f[d]
        BY <2>1, LeastOn
    <2> QED BY <2>2 DEF f
<1>4. e \in q /\ e.priority = p.priority /\ e.time = t.time
    BY <1>3
<1>5. \A f \in q \ {e} : Precedes(e, f)
    <2> SUFFICES ASSUME NEW f \in q, f # e PROVE Precedes(e, f)
        OBVIOUS
    <2>1. /\ e.priority \in Nat /\ f.priority \in Nat
          /\ e.time \in Nat /\ f.time \in Nat
          /\ e.sequence \in Nat /\ f.sequence \in Nat
          /\ e.sequence # f.sequence
        BY <1>4 DEF Event
    <2>2. CASE f.priority # p.priority
        BY <1>1, <1>4, <2>1, <2>2 DEF Precedes
    <2>3. CASE f.priority = p.priority /\ f.time # t.time
        BY <1>2, <1>4, <2>1, <2>3 DEF Precedes
    <2>4. CASE f.priority = p.priority /\ f.time = t.time
        BY <1>3, <1>4, <2>1, <2>4 DEF Precedes
    <2> QED BY <2>2, <2>3, <2>4
<1>6. e \in q
    BY <1>4
<1> HIDE DEF qp, qt
<1> QED BY <1>5, <1>6 DEF Top

-----------------------------------------------------------------------------
(***************************************************************************)
(* Types.                                                                  *)
(***************************************************************************)

LEMMA NumberedType ==
    ASSUME NEW k \in EventKinds, NEW n \in Nat
    PROVE  Numbered(k, n) \in Event /\ Numbered(k, n).sequence = n
BY EventQueueAssumption DEF Numbered, Event

\* A batch adds at most two events, whose numbers follow those given so far.
LEMMA BatchType ==
    ASSUME NEW k1 \in EventKinds, NEW k2 \in EventKinds,
           sequence \in Nat
    PROVE  /\ Batch(k1, k2) \subseteq Event
           /\ IsFiniteSet(Batch(k1, k2))
           /\ Cardinality(Batch(k1, k2)) \in 0 .. 2
           /\ Numbers(Batch(k1, k2))
                = sequence .. sequence + Cardinality(Batch(k1, k2)) - 1
           /\ \A e, f \in Batch(k1, k2) : e.sequence = f.sequence => e = f
<1> DEFINE a == Numbered(k1, sequence)
           b == Numbered(k2, sequence + 1)
<1>1. a \in Event /\ a.sequence = sequence /\ b \in Event /\ b.sequence = sequence + 1
    BY NumberedType
<1> HIDE DEF a, b
<1>2. IsFiniteSet({}) /\ Cardinality({}) = 0
    BY FS_EmptySet
<1>3. IsFiniteSet({a}) /\ Cardinality({a}) = 1
    BY FS_Singleton
<1>4. IsFiniteSet({a, b}) /\ Cardinality({a, b}) = 2
    <2>1. a # b
        BY <1>1
    <2>2. {a, b} = {a} \cup {b}
        OBVIOUS
    <2> QED BY <1>3, <2>1, <2>2, FS_AddElement
<1>5. Batch(k1, k2) \in {{}, {a}, {a, b}}
    BY DEF Batch, a, b
<1>6. Numbers({}) = {} /\ Numbers({a}) = {sequence}
      /\ Numbers({a, b}) = {sequence, sequence + 1}
    BY <1>1 DEF Numbers
<1>7. CASE Batch(k1, k2) = {}
    <2>1. sequence + Cardinality({}) - 1 = sequence - 1
        BY <1>2
    <2>2. sequence .. sequence + Cardinality({}) - 1 = {}
        BY <2>1, ShortIntervals
    <2>3. Numbers(Batch(k1, k2))
             = sequence .. sequence + Cardinality(Batch(k1, k2)) - 1
        BY <1>6, <1>7, <2>2
    <2> QED BY <1>2, <1>7, <2>3
<1>8. CASE Batch(k1, k2) = {a}
    <2>1. sequence .. sequence + 1 - 1 = {sequence}
        BY ShortIntervals
    <2> QED BY <1>1, <1>3, <1>6, <1>8, <2>1
<1>9. CASE Batch(k1, k2) = {a, b}
    <2>1. sequence + Cardinality({a, b}) - 1 = sequence + 1
        BY <1>4
    <2>2. sequence .. sequence + Cardinality({a, b}) - 1 = {sequence, sequence + 1}
        BY <2>1, ShortIntervals
    <2>3. Numbers(Batch(k1, k2))
             = sequence .. sequence + Cardinality(Batch(k1, k2)) - 1
        BY <1>6, <1>9, <2>2
    <2> QED BY <1>1, <1>4, <1>9, <2>3
<1> QED BY <1>5, <1>7, <1>8, <1>9

\* NotifyOne and NotifyAll keep the two sets of threads typed and apart.
LEMMA NotifyType ==
    ASSUME TypeOK, NotifyOne \/ NotifyAll \/ UNCHANGED sleepers
    PROVE  /\ waiting' \subseteq Threads /\ woken' \subseteq Threads
           /\ waiting' \cap woken' = {}
BY DEF TypeOK, NotifyOne, NotifyAll, sleepers

\* A thread that takes an event, or returns, or goes back to sleep does too.
LEMMA RemoveType ==
    ASSUME TypeOK, NEW S \in SUBSET queue, Remove(S)
    PROVE  /\ queue' \subseteq Event /\ IsFiniteSet(queue')
           /\ totalPopped' \in Nat
           /\ popped' \subseteq Nat
           /\ maxSize' \in MaxSizes /\ blocking' \in BOOLEAN /\ enabled' \in BOOLEAN
           /\ sequence' \in Nat /\ totalPushed' \in Nat /\ totalDropped' \in Nat
           /\ announced' \subseteq Nat /\ cleared' \subseteq Nat
<1>1. IsFiniteSet(S) /\ IsFiniteSet(queue \ S)
    BY FS_Subset DEF TypeOK
<1>2. Cardinality(S) \in Nat
    BY <1>1, FS_CardinalityType
<1>3. Numbers(S) \subseteq Nat
    BY DEF TypeOK, Numbers, Event
<1>4. queue' = queue \ S /\ totalPopped' = totalPopped + Cardinality(S)
      /\ popped' = popped \cup Numbers(S)
    BY DEF Remove
<1>5. queue' \subseteq Event /\ IsFiniteSet(queue')
    BY <1>1, <1>4 DEF TypeOK
<1>6. totalPopped' \in Nat
    BY <1>2, <1>4 DEF TypeOK
<1>8. popped' \subseteq Nat
    BY <1>3, <1>4 DEF TypeOK
<1>7. UNCHANGED <<maxSize, blocking, enabled, sequence, totalPushed, totalDropped,
                  announced, cleared>>
    BY DEF Remove, config
<1> QED BY <1>5, <1>6, <1>7, <1>8 DEF TypeOK

LEMMA AcceptType ==
    ASSUME TypeOK, NEW e \in Event, Accept(e)
    PROVE  /\ queue' \subseteq Event /\ IsFiniteSet(queue')
           /\ totalPopped' \in Nat
           /\ popped' \subseteq Nat
           /\ maxSize' \in MaxSizes /\ blocking' \in BOOLEAN /\ enabled' \in BOOLEAN
           /\ sequence' \in Nat /\ totalPushed' \in Nat /\ totalDropped' \in Nat
           /\ cleared' \subseteq Nat
           /\ waiting' \subseteq Threads /\ woken' \subseteq Threads
           /\ waiting' \cap woken' = {}
<1>1. IsFiniteSet(queue \cup {e})
    BY FS_AddElement DEF TypeOK
<1> QED BY <1>1, NotifyType DEF TypeOK, Accept, config

\* The queue still holds events with different numbers, so it has a top,
\* after an event with the next number joined it.
LEMMA GrownUnique ==
    ASSUME TypeOK, NumbersApart, NEW e \in Event, e.sequence = sequence
    PROVE  /\ queue \cup {e} \in SUBSET Event
           /\ \A f, g \in queue \cup {e} : f.sequence = g.sequence => f = g
<1>1. \A f \in queue : f.sequence # sequence
    BY DEF TypeOK, NumbersApart, Numbers
<1> QED BY <1>1 DEF TypeOK, NumbersApart

LEMMA TopInQueue ==
    ASSUME TypeOK, NumbersApart, queue # {}
    PROVE  Top(queue) \in queue
BY TopIsLeast DEF TypeOK, NumbersApart

\* The last event of a batch to be inserted when its number is n.
LEMMA BatchTopType ==
    ASSUME TypeOK, NumbersApart, NEW k1 \in EventKinds, NEW k2 \in EventKinds,
           NEW e \in Batch(k1, k2)
    PROVE  Top(queue \cup {f \in Batch(k1, k2) : f.sequence <= e.sequence}).sequence
               \in Nat
<1> DEFINE q == queue \cup {f \in Batch(k1, k2) : f.sequence <= e.sequence}
<1>1. Batch(k1, k2) \subseteq Event
      /\ \A f, g \in Batch(k1, k2) : f.sequence = g.sequence => f = g
    BY BatchType DEF TypeOK
<1>2. \A f \in Batch(k1, k2) : f.sequence >= sequence
    <2>1. Numbers(Batch(k1, k2))
             = sequence .. sequence + Cardinality(Batch(k1, k2)) - 1
          /\ Cardinality(Batch(k1, k2)) \in 0 .. 2
        BY BatchType DEF TypeOK
    <2> QED BY <2>1 DEF TypeOK, Numbers
<1>3. \A f \in queue : f.sequence < sequence
    BY DEF TypeOK, NumbersApart, Numbers
<1>4. q \in SUBSET Event /\ q # {}
    BY <1>1 DEF TypeOK, Event
<1>5. \A f, g \in q : f.sequence = g.sequence => f = g
    BY <1>1, <1>2, <1>3, <1>4 DEF NumbersApart, TypeOK, Event
<1>6. Top(q) \in q
    <2> HIDE DEF q
    <2> QED BY <1>4, <1>5, TopIsLeast
<1> QED BY <1>4, <1>6 DEF Event

LEMMA TypeStep ==
    ASSUME TypeOK, NumbersApart, [Next]_vars
    PROVE  TypeOK'
<1>1. ASSUME NEW k \in EventKinds, PushCopy(k) PROVE TypeOK'
    <2>1. Numbered(k, sequence) \in Event
        BY NumberedType DEF TypeOK
    <2> QED BY <1>1, <2>1, AcceptType DEF TypeOK, PushCopy
<1>2. ASSUME NEW k \in EventKinds, PushMove(k) PROVE TypeOK'
    <2>1. Numbered(k, sequence) \in Event /\ Numbered(k, sequence).sequence = sequence
        BY NumberedType DEF TypeOK
    <2>2. Accept(Numbered(k, sequence))
          /\ announced' = announced \cup {Top(queue').sequence}
          /\ queue' = queue \cup {Numbered(k, sequence)}
        BY <1>2 DEF PushMove, Accept
    <2>3. Top(queue') \in Event
        BY <2>1, <2>2, GrownUnique, TopIsLeast
    <2>4. announced' \subseteq Nat
        BY <2>2, <2>3 DEF TypeOK, Event
    <2> QED BY <2>1, <2>2, <2>4, AcceptType DEF TypeOK
<1>3. CASE PushFull
    BY <1>3 DEF TypeOK, PushFull, config, sleepers
<1>4. ASSUME NEW k1 \in EventKinds, NEW k2 \in EventKinds,
             NEW moved \in BOOLEAN, PushBatch(k1, k2, moved)
      PROVE  TypeOK'
    <2> DEFINE B == Batch(k1, k2)
    <2>1. B \subseteq Event /\ IsFiniteSet(B) /\ Cardinality(B) \in 0 .. 2
        BY BatchType DEF TypeOK
    <2>2. \A e \in B :
              Top(queue \cup {f \in B : f.sequence <= e.sequence}).sequence \in Nat
        BY BatchTopType
    <2>3. Numbers(B) \subseteq Nat
        BY <2>1 DEF Numbers, Event
    <2> HIDE DEF B
    <2>4. IsFiniteSet(queue \cup B)
        BY <2>1, FS_Union DEF TypeOK
    <2>5. announced' \subseteq Nat
        BY <1>4, <2>2, <2>3 DEF PushBatch, B, TypeOK
    <2>6. /\ queue' = queue \cup B
          /\ sequence' = sequence + Cardinality(B)
          /\ totalPushed' = totalPushed + Cardinality(B)
          /\ totalDropped' = totalDropped + (2 - Cardinality(B))
          /\ NotifyAll
          /\ UNCHANGED <<config, totalPopped, popped, cleared>>
        BY <1>4 DEF PushBatch, B
    <2>7. waiting' \subseteq Threads /\ woken' \subseteq Threads
          /\ waiting' \cap woken' = {}
        BY <2>6, NotifyType
    <2> QED BY <2>1, <2>4, <2>5, <2>6, <2>7 DEF TypeOK, config
<1>5. ASSUME NEW t \in Threads, TakeAtOnce(t) PROVE TypeOK'
    BY <1>5, TopInQueue, RemoveType DEF TypeOK, TakeAtOnce, RemoveTop, sleepers
<1>6. ASSUME NEW t \in Threads, Sleep(t) PROVE TypeOK'
    BY <1>6 DEF TypeOK, Sleep, Idle, config
<1>7. ASSUME NEW t \in Threads, Recheck(t) PROVE TypeOK'
    <2>1. CASE queue # {}
        <3>1. RemoveTop /\ waiting' = waiting \ {t} /\ woken' = woken \ {t}
            BY <1>7, <2>1 DEF Recheck
        <3> QED BY <3>1, TopInQueue, RemoveType DEF TypeOK, RemoveTop
    <2>2. CASE queue = {}
        BY <1>7, <2>2 DEF TypeOK, Recheck, RemoveTop, config
    <2> QED BY <2>1, <2>2
<1>8. ASSUME NEW t \in Threads, Timeout(t) PROVE TypeOK'
    <2>1. CASE queue # {}
        <3>1. RemoveTop /\ waiting' = waiting \ {t} /\ woken' = woken \ {t}
            BY <1>8, <2>1 DEF Timeout
        <3> QED BY <3>1, TopInQueue, RemoveType DEF TypeOK, RemoveTop
    <2>2. CASE queue = {}
        BY <1>8, <2>2 DEF TypeOK, Timeout, RemoveTop, config
    <2> QED BY <2>1, <2>2
<1>9. ASSUME NEW S \in SUBSET queue, Remove(S), UNCHANGED sleepers PROVE TypeOK'
    BY <1>9, RemoveType DEF TypeOK, sleepers
<1>10. CASE Clear
    <2>1. Numbers(queue) \subseteq Nat
        BY DEF TypeOK, Numbers, Event
    <2>2. IsFiniteSet({})
        BY FS_EmptySet
    <2> QED BY <1>10, <2>1, <2>2 DEF TypeOK, Clear, config, sleepers
<1>11. ASSUME NEW n \in MaxSizes, SetMaxSize(n) PROVE TypeOK'
    BY <1>11 DEF TypeOK, SetMaxSize, sleepers
<1>12. ASSUME NEW b \in BOOLEAN, SetBlocking(b) \/ SetEnabled(b) PROVE TypeOK'
    <2>1. waiting' \subseteq Threads /\ woken' \subseteq Threads
          /\ waiting' \cap woken' = {}
        BY <1>12, NotifyType DEF SetBlocking, SetEnabled
    <2> QED BY <1>12, <2>1 DEF TypeOK, SetBlocking, SetEnabled
<1>13. CASE UNCHANGED vars
    BY <1>13 DEF TypeOK, vars, config, sleepers
<1>14. CASE Produce
    BY <1>1, <1>2, <1>3, <1>4, <1>14 DEF Produce
<1>15. CASE Consume
    BY <1>5, <1>6, <1>7, <1>8, <1>9, <1>10, <1>15
       DEF Consume, Wake, SpuriousWake, GetEventsBefore, GetEventsByType,
           GetEventsByPriority
<1>16. CASE Configure
    BY <1>11, <1>12, <1>16 DEF Configure
<1> QED BY <1>13, <1>14, <1>15, <1>16 DEF Next

-----------------------------------------------------------------------------
(***************************************************************************)
(* Numbers.                                                                *)
(***************************************************************************)

LEMMA NumbersUnion ==
    ASSUME NEW S, NEW T PROVE Numbers(S \cup T) = Numbers(S) \cup Numbers(T)
BY DEF Numbers

\* The events in S leave the queue, and their numbers leave its numbers.
LEMMA NumbersRemoved ==
    ASSUME NumbersApart, NEW S \in SUBSET queue
    PROVE  /\ Numbers(queue \ S) = Numbers(queue) \ Numbers(S)
           /\ Numbers(S) \subseteq Numbers(queue)
BY DEF NumbersApart, Numbers

\* Events with the next n numbers join the queue.
LEMMA NumbersAdded ==
    ASSUME TypeOK, NumbersApart, NEW S \in SUBSET Event, NEW n \in Nat,
           Numbers(S) = sequence .. sequence + n - 1,
           \A e, f \in S : e.sequence = f.sequence => e = f,
           queue' = queue \cup S, sequence' = sequence + n,
           sequence' <= MaxEvents, UNCHANGED <<popped, cleared>>
    PROVE  NumbersApart'
<1>1. sequence \in Nat
    BY DEF TypeOK
<1>2. Numbers(queue') = Numbers(queue) \cup (sequence .. sequence + n - 1)
    BY NumbersUnion
<1>3. 0 .. sequence + n - 1
         = (0 .. sequence - 1) \cup (sequence .. sequence + n - 1)
    BY <1>1
<1>4. (0 .. sequence - 1) \cap (sequence .. sequence + n - 1) = {}
    BY <1>1
<1>5. Numbers(queue') \cup popped' \cup cleared' = 0 .. sequence' - 1
    <2>1. sequence' - 1 = sequence + n - 1
        BY <1>1
    <2> QED BY <1>2, <1>3, <2>1 DEF NumbersApart
<1>6. Numbers(queue') \cap (popped' \cup cleared') = {}
    BY <1>2, <1>4 DEF NumbersApart
<1>7. ASSUME NEW e \in queue', NEW f \in queue', e.sequence = f.sequence
      PROVE  e = f
    <2>1. CASE e \in queue /\ f \in queue
        BY <1>7, <2>1 DEF NumbersApart
    <2>2. CASE e \in S /\ f \in S
        BY <1>7, <2>2
    <2>3. \A x \in queue, y \in S : x.sequence # y.sequence
        BY <1>4 DEF NumbersApart, Numbers
    <2> QED BY <1>7, <2>1, <2>2, <2>3
<1> QED BY <1>5, <1>6, <1>7 DEF NumbersApart

LEMMA AcceptNumbers ==
    ASSUME TypeOK, NumbersApart, NEW k \in EventKinds, sequence < MaxEvents,
           Accept(Numbered(k, sequence))
    PROVE  NumbersApart'
<1>1. sequence \in Nat
    BY DEF TypeOK
<1> DEFINE e == Numbered(k, sequence)
<1>2. e \in Event /\ e.sequence = sequence
    BY <1>1, NumberedType
<1>3. queue' = queue \cup {e} /\ sequence' = sequence + 1
      /\ UNCHANGED <<popped, cleared>>
    BY DEF Accept
<1> HIDE DEF e
<1>4. Numbers({e}) = {sequence}
    BY <1>2 DEF Numbers
<1>5. sequence .. sequence + 1 - 1 = {sequence}
    BY <1>1
<1>6. sequence' <= MaxEvents
    BY <1>1, <1>3, EventQueueAssumption
<1> DEFINE S == {e}
           n == 1
<1>7. /\ S \in SUBSET Event /\ n \in Nat
      /\ Numbers(S) = sequence .. sequence + n - 1
      /\ \A f, g \in S : f.sequence = g.sequence => f = g
      /\ queue' = queue \cup S /\ sequence' = sequence + n
    BY <1>2, <1>3, <1>4, <1>5
<1> HIDE DEF S, n
<1> QED BY <1>3, <1>6, <1>7, NumbersAdded

LEMMA RemoveNumbers ==
    ASSUME NumbersApart, NEW S \in SUBSET queue, Remove(S)
    PROVE  NumbersApart'
<1>1. queue' = queue \ S /\ popped' = popped \cup Numbers(S)
      /\ UNCHANGED <<sequence, cleared>>
    BY DEF Remove
<1>2. Numbers(queue') = Numbers(queue) \ Numbers(S)
      /\ Numbers(S) \subseteq Numbers(queue)
    BY <1>1, NumbersRemoved
<1>3. \A e, f \in queue' : e.sequence = f.sequence => e = f
    BY <1>1 DEF NumbersApart
<1> QED BY <1>1, <1>2, <1>3 DEF NumbersApart

LEMMA NumbersStep ==
    ASSUME TypeOK, NumbersApart, [Next]_vars
    PROVE  NumbersApart'
<1>1. ASSUME NEW k \in EventKinds, PushCopy(k) \/ PushMove(k) PROVE NumbersApart'
    BY <1>1, AcceptNumbers DEF PushCopy, PushMove
<1>2. ASSUME NEW k1 \in EventKinds, NEW k2 \in EventKinds,
             NEW moved \in BOOLEAN, PushBatch(k1, k2, moved)
      PROVE  NumbersApart'
    <2>1. /\ queue' = queue \cup Batch(k1, k2)
          /\ sequence' = sequence + Cardinality(Batch(k1, k2))
          /\ sequence + Cardinality(Batch(k1, k2)) <= MaxEvents
          /\ UNCHANGED <<popped, cleared>>
        BY <1>2 DEF PushBatch
    <2>2. sequence \in Nat
        BY DEF TypeOK
    <2>3. /\ Batch(k1, k2) \in SUBSET Event
          /\ Cardinality(Batch(k1, k2)) \in Nat
          /\ Numbers(Batch(k1, k2))
                = sequence .. sequence + Cardinality(Batch(k1, k2)) - 1
          /\ \A e, f \in Batch(k1, k2) : e.sequence = f.sequence => e = f
        BY <2>2, BatchType
    <2> DEFINE B == Batch(k1, k2)
               n == Cardinality(B)
    <2>4. /\ B \in SUBSET Event /\ n \in Nat
          /\ Numbers(B) = sequence .. sequence + n - 1
          /\ \A e, f \in B : e.sequence = f.sequence => e = f
          /\ queue' = queue \cup B /\ sequence' = sequence + n
          /\ sequence' <= MaxEvents /\ UNCHANGED <<popped, cleared>>
        BY <2>1, <2>3
    <2> HIDE DEF B, n
    <2> QED BY <2>4, NumbersAdded
<1>3. ASSUME NEW S \in SUBSET queue, Remove(S) PROVE NumbersApart'
    BY <1>3, RemoveNumbers
<1>4. CASE RemoveTop
    BY <1>3, <1>4, TopInQueue DEF RemoveTop
<1>5. CASE Clear
    <2>1. Numbers({}) = {}
        BY DEF Numbers
    <2> QED BY <1>5, <2>1 DEF NumbersApart, Clear
<1>6. CASE UNCHANGED <<queue, sequence, popped, cleared>>
    BY <1>6 DEF NumbersApart
<1>7. CASE Produce
    BY <1>1, <1>2, <1>6, <1>7 DEF Produce, PushFull
<1>8. CASE Consume
    BY <1>3, <1>4, <1>5, <1>6, <1>8
       DEF Consume, TakeAtOnce, Sleep, Wake, SpuriousWake, Recheck, Timeout,
           GetEventsBefore, GetEventsByType, GetEventsByPriority
<1>9. CASE Configure
    BY <1>6, <1>9 DEF Configure, SetMaxSize, SetBlocking, SetEnabled
<1>10. CASE UNCHANGED vars
    BY <1>6, <1>10 DEF vars
<1> QED BY <1>7, <1>8, <1>9, <1>10 DEF Next

-----------------------------------------------------------------------------
(***************************************************************************)
(* Wake-ups.                                                               *)
(***************************************************************************)

LEMMA WokenFinite ==
    ASSUME TypeOK
    PROVE  /\ IsFiniteSet(woken) /\ Cardinality(woken) \in Nat
           /\ Cardinality(queue) \in Nat
BY FS_Subset, FS_CardinalityType, EventQueueAssumption DEF TypeOK

LEMMA AcceptWakes ==
    ASSUME TypeOK, NoLostWakeup, NEW e, Accept(e)
    PROVE  NoLostWakeup'
<1>1. queue' = queue \cup {e} /\ NotifyOne
    BY DEF Accept
<1>2. Cardinality(queue') <= Cardinality(queue) + 1
      /\ Cardinality(queue') \in Nat
    <2>1. IsFiniteSet(queue \cup {e})
          /\ Cardinality(queue \cup {e})
               = IF e \in queue THEN Cardinality(queue) ELSE Cardinality(queue) + 1
        BY FS_AddElement DEF TypeOK
    <2>2. Cardinality(queue \cup {e}) \in Nat
        BY <2>1, FS_CardinalityType
    <2> QED BY <1>1, <2>1, <2>2, WokenFinite
<1>3. CASE waiting = {} /\ UNCHANGED sleepers
    BY <1>3 DEF NoLostWakeup, sleepers
<1>4. ASSUME NEW t \in waiting, waiting' = waiting \ {t}, woken' = woken \cup {t}
      PROVE  NoLostWakeup'
    <2>1. t \notin woken
        BY DEF TypeOK
    <2>2. Cardinality(woken') = Cardinality(woken) + 1
        BY <1>4, <2>1, WokenFinite, FS_AddElement
    <2>3. Cardinality(queue) <= Cardinality(woken)
        BY <1>4 DEF NoLostWakeup
    <2> QED BY <1>2, <2>2, <2>3, WokenFinite DEF NoLostWakeup
<1> QED BY <1>1, <1>3, <1>4 DEF NotifyOne

\* A thread that stops being a sleeper and takes the top of the heap.
LEMMA TakeWakes ==
    ASSUME TypeOK, NumbersApart, NoLostWakeup, NEW t, RemoveTop,
           waiting' = waiting \ {t}, woken' = woken \ {t}
    PROVE  NoLostWakeup'
<1>1. queue' = queue \ {Top(queue)} /\ Top(queue) \in queue
    BY TopInQueue DEF RemoveTop, Remove
<1>2. Cardinality(queue') = Cardinality(queue) - 1
    BY <1>1, FS_RemoveElement DEF TypeOK
<1>3. Cardinality(woken') >= Cardinality(woken) - 1
    <2>1. Cardinality(woken \ {t})
            = IF t \in woken THEN Cardinality(woken) - 1 ELSE Cardinality(woken)
        BY WokenFinite, FS_RemoveElement
    <2> QED BY <2>1, WokenFinite
<1>4. Cardinality(woken') \in Nat
    <2>1. IsFiniteSet(woken')
        BY WokenFinite, FS_RemoveElement
    <2> QED BY <2>1, FS_CardinalityType
<1> QED BY <1>2, <1>3, <1>4, WokenFinite DEF NoLostWakeup

LEMMA RemoveWakes ==
    ASSUME TypeOK, NoLostWakeup, NEW S, Remove(S), UNCHANGED sleepers
    PROVE  NoLostWakeup'
<1>1. queue' = queue \ S
    BY DEF Remove
<1>2. Cardinality(queue') <= Cardinality(queue) /\ Cardinality(queue') \in Nat
    BY <1>1, FS_Subset, FS_CardinalityType DEF TypeOK
<1> QED BY <1>2, WokenFinite DEF NoLostWakeup, sleepers

\* Nobody waits for an event in an empty queue.
LEMMA EmptyWakes ==
    ASSUME queue' = {}, IsFiniteSet(woken') PROVE NoLostWakeup'
BY FS_EmptySet, FS_CardinalityType DEF NoLostWakeup

LEMMA WakeStep ==
    ASSUME TypeOK, NumbersApart, NoLostWakeup, [Next]_vars
    PROVE  NoLostWakeup'
<1>1. ASSUME NEW e, Accept(e) PROVE NoLostWakeup'
    BY <1>1, AcceptWakes
<1>2. CASE NotifyAll
    BY <1>2 DEF NotifyAll, NoLostWakeup
<1>3. ASSUME NEW S, Remove(S), UNCHANGED sleepers PROVE NoLostWakeup'
    BY <1>3, RemoveWakes
<1>4. ASSUME NEW t \in Threads, Sleep(t) PROVE NoLostWakeup'
    <2>1. queue' = {} /\ woken' = woken
        BY <1>4 DEF Sleep
    <2> QED BY <2>1, EmptyWakes, WokenFinite
<1>5. ASSUME NEW t \in Threads, Recheck(t) \/ Timeout(t) PROVE NoLostWakeup'
    <2>1. CASE queue # {}
        BY <1>5, <2>1, TakeWakes DEF Recheck, Timeout
    <2>2. CASE queue = {}
        <3>1. queue' = {} /\ woken' = woken \ {t}
            BY <1>5, <2>2 DEF Recheck, Timeout, RemoveTop
        <3> QED BY <3>1, EmptyWakes, WokenFinite, FS_RemoveElement
    <2> QED BY <2>1, <2>2
<1>6. CASE Clear
    BY <1>6, EmptyWakes, WokenFinite DEF Clear, sleepers
<1>7. CASE UNCHANGED <<queue, sleepers>>
    BY <1>7 DEF NoLostWakeup, sleepers
<1>8. CASE Produce
    BY <1>1, <1>2, <1>7, <1>8 DEF Produce, PushCopy, PushMove, PushFull, PushBatch
<1>9. CASE Consume
    BY <1>3, <1>4, <1>5, <1>6, <1>9
       DEF Consume, TakeAtOnce, RemoveTop, Wake, SpuriousWake,
           GetEventsBefore, GetEventsByType, GetEventsByPriority
<1>10. CASE Configure
    BY <1>2, <1>7, <1>10 DEF Configure, SetMaxSize, SetBlocking, SetEnabled
<1>11. CASE UNCHANGED vars
    BY <1>7, <1>11 DEF vars
<1> QED BY <1>8, <1>9, <1>10, <1>11 DEF Next

-----------------------------------------------------------------------------
(***************************************************************************)
(* Theorems.                                                               *)
(***************************************************************************)

LEMMA InitInv == Init => IInv
<1>1. IsFiniteSet({}) /\ Numbers({}) = {}
    BY FS_EmptySet DEF Numbers
<1>2. 0 .. 0 - 1 = {}
    OBVIOUS
<1> QED BY <1>1, <1>2, EventQueueAssumption
        DEF Init, IInv, TypeOK, NumbersApart, NoLostWakeup

\* event_queue.cpp, every operation of EventQueue: the inductive invariant.
LEMMA Invariance == Spec => []IInv
<1>1. IInv /\ [Next]_vars => IInv'
    BY TypeStep, NumbersStep, WakeStep DEF IInv
<1> QED BY InitInv, <1>1, PTL DEF Spec

\* Type correctness of the queue, whatever threads use it and however.
THEOREM TypeCorrect == Spec => []TypeOK
BY Invariance, PTL DEF IInv

\* No wake-up is lost by push, pop and the two forms of tryPop, however many
\* consumers sleep: while one is asleep, no event lacks a consumer on its way.
THEOREM NoWakeupIsLost == Spec => []NoLostWakeup
BY Invariance, PTL DEF IInv

\* Every accepted event is in exactly one place: the queue, the hands of a
\* consumer, or what clear() threw away.
THEOREM NumbersStayApart == Spec => []NumbersApart
BY Invariance, PTL DEF IInv

-----------------------------------------------------------------------------
(***************************************************************************)
(* EventQueue implements Delivery.                                         *)
(***************************************************************************)

LEMMA NumbersAreItems ==
    ASSUME TypeOK, NumbersApart
    PROVE  Numbers(queue) \cup popped \cup cleared \subseteq 0 .. MaxEvents - 1
BY EventQueueAssumption DEF TypeOK, NumbersApart

LEMMA DeliveryStep ==
    ASSUME IInv, IInv', [Next]_vars
    PROVE  [Mailbox!Next]_(Mailbox!vars)
<1> USE DEF IInv
<1> DEFINE Item == 0 .. MaxEvents - 1
<1>1. ASSUME NEW S, queue' = queue \cup S, Numbers(S) \cap
                 (Numbers(queue) \cup popped \cup cleared) = {},
             UNCHANGED <<popped, cleared>>
      PROVE  Mailbox!Next
    <2>1. Numbers(queue') = Numbers(queue) \cup Numbers(S)
        BY <1>1, NumbersUnion
    <2>2. Numbers(S) \in SUBSET Item
        <3>1. Numbers(queue') \subseteq Item
            <4>1. sequence' \in Nat /\ sequence' <= MaxEvents
                  /\ Numbers(queue') \subseteq 0 .. sequence' - 1
                BY DEF TypeOK, NumbersApart
            <4> QED BY <4>1, EventQueueAssumption
        <3> QED BY <2>1, <3>1
    <2>3. Mailbox!Accept(Numbers(S))
        BY <1>1, <2>1 DEF Mailbox!Accept
    <2> QED BY <2>2, <2>3 DEF Mailbox!Next
<1>2. ASSUME NEW S \in SUBSET queue, Remove(S) PROVE Mailbox!Next
    <2>1. Numbers(S) \in SUBSET Item
        BY NumbersRemoved, NumbersAreItems
    <2>2. Mailbox!Deliver(Numbers(S))
        BY <1>2, NumbersRemoved DEF Mailbox!Deliver, Remove
    <2> QED BY <2>1, <2>2 DEF Mailbox!Next
<1>3. CASE Clear
    <2>1. Numbers({}) = {}
        BY DEF Numbers
    <2>2. Numbers(queue) \in SUBSET Item
        BY NumbersAreItems
    <2>3. Mailbox!Discard(Numbers(queue))
        BY <1>3, <2>1 DEF Mailbox!Discard, Clear
    <2> QED BY <2>2, <2>3 DEF Mailbox!Next
<1>4. CASE UNCHANGED <<queue, popped, cleared>>
    BY <1>4 DEF Mailbox!vars
<1>5. CASE Produce
    <2>1. ASSUME NEW k \in EventKinds, Accept(Numbered(k, sequence))
          PROVE  Mailbox!Next
        <3> DEFINE e == Numbered(k, sequence)
        <3>1. e.sequence = sequence
            BY NumberedType DEF TypeOK
        <3> HIDE DEF e
        <3>2. Numbers({e}) = {sequence}
            BY <3>1 DEF Numbers
        <3>3. sequence \notin 0 .. sequence - 1
            BY DEF TypeOK
        <3>4. queue' = queue \cup {e} /\ UNCHANGED <<popped, cleared>>
            BY <2>1 DEF Accept, e
        <3> QED BY <1>1, <3>2, <3>3, <3>4 DEF NumbersApart
    <2>2. ASSUME NEW k1 \in EventKinds, NEW k2 \in EventKinds,
                 NEW moved \in BOOLEAN, PushBatch(k1, k2, moved)
          PROVE  Mailbox!Next
        <3> DEFINE B == Batch(k1, k2)
                   n == Cardinality(B)
        <3>1. Numbers(B) = sequence .. sequence + n - 1 /\ n \in Nat
            BY BatchType DEF TypeOK
        <3>2. queue' = queue \cup B /\ UNCHANGED <<popped, cleared>>
            BY <2>2 DEF PushBatch
        <3> HIDE DEF B, n
        <3>3. (sequence .. sequence + n - 1) \cap (0 .. sequence - 1) = {}
            BY <3>1 DEF TypeOK
        <3> QED BY <1>1, <3>1, <3>2, <3>3 DEF NumbersApart
    <2>3. PushFull => UNCHANGED <<queue, popped, cleared>>
        BY DEF PushFull
    <2> QED BY <1>4, <1>5, <2>1, <2>2, <2>3 DEF Produce, PushCopy, PushMove
<1>6. CASE Consume
    <2>1. RemoveTop => Mailbox!Next
        BY <1>2, TopInQueue DEF RemoveTop
    <2> QED BY <1>2, <1>3, <1>4, <1>6, <2>1
       DEF Consume, TakeAtOnce, Sleep, Wake, SpuriousWake, Recheck, Timeout,
           GetEventsBefore, GetEventsByType, GetEventsByPriority
<1>7. CASE Configure
    BY <1>4, <1>7 DEF Configure, SetMaxSize, SetBlocking, SetEnabled
<1>8. CASE UNCHANGED vars
    BY <1>4, <1>8 DEF vars
<1> QED BY <1>5, <1>6, <1>7, <1>8 DEF Next

\* The queue implements the exactly-once mailbox: no interleaving of pushes,
\* pops, timeouts, bulk getters and clear() delivers an event twice, drops an
\* accepted one, or brings one back.
THEOREM ImplementsDelivery == Spec => DeliversOnce
<1>1. Init => Mailbox!Init
    BY DEF Init, Numbers, Mailbox!Init
<1>2. IInv /\ IInv' /\ [Next]_vars => [Mailbox!Next]_(Mailbox!vars)
    BY DeliveryStep
<1> QED BY <1>1, <1>2, Invariance, PTL DEF Spec, DeliversOnce, Mailbox!Spec

-----------------------------------------------------------------------------
(***************************************************************************)
(* Statistics.                                                             *)
(***************************************************************************)

\* There are as many numbers as events that carry them.
LEMMA NumbersCardinality ==
    ASSUME TypeOK, NumbersApart, NEW S \in SUBSET queue
    PROVE  IsFiniteSet(Numbers(S)) /\ Cardinality(Numbers(S)) = Cardinality(S)
<1> DEFINE g == [e \in S |-> e.sequence]
<1>1. g \in Bijection(S, Numbers(S))
    BY DEF Bijection, Injection, Surjection, IsInjective, Numbers, NumbersApart
<1>2. ExistsBijection(S, Numbers(S))
    BY <1>1 DEF ExistsBijection
<1>3. IsFiniteSet(S)
    BY FS_Subset DEF TypeOK
<1> QED BY <1>2, <1>3, FS_Bijection

PoppedCounted == totalPushed = sequence /\ totalPopped = Cardinality(popped)

LEMMA PoppedFinite ==
    ASSUME TypeOK, NumbersApart
    PROVE  /\ IsFiniteSet(popped) /\ IsFiniteSet(cleared)
           /\ Cardinality(popped) \in Nat /\ Cardinality(cleared) \in Nat
<1>1. IsFiniteSet(0 .. sequence - 1)
    BY FS_Interval DEF TypeOK
<1>2. popped \in SUBSET (0 .. sequence - 1) /\ cleared \in SUBSET (0 .. sequence - 1)
    BY DEF NumbersApart
<1> QED BY <1>1, <1>2, FS_Subset, FS_CardinalityType

LEMMA CountStep ==
    ASSUME TypeOK, NumbersApart, PoppedCounted, [Next]_vars
    PROVE  PoppedCounted'
<1>1. ASSUME NEW S \in SUBSET queue, Remove(S) PROVE PoppedCounted'
    <2>1. Numbers(S) \cap popped = {}
        BY NumbersRemoved DEF NumbersApart
    <2>2. IsFiniteSet(Numbers(S)) /\ Cardinality(Numbers(S)) = Cardinality(S)
        BY NumbersCardinality
    <2>3. Cardinality(popped \cup Numbers(S))
            = Cardinality(popped) + Cardinality(Numbers(S))
                - Cardinality(popped \cap Numbers(S))
        BY <2>2, PoppedFinite, FS_Union
    <2>4. Cardinality(popped \cap Numbers(S)) = 0
        BY <2>1, FS_EmptySet
    <2>5. Cardinality(S) \in Nat
        BY FS_Subset, FS_CardinalityType DEF TypeOK
    <2>6. Cardinality(popped \cup Numbers(S)) = Cardinality(popped) + Cardinality(S)
        BY <2>2, <2>3, <2>4, <2>5, PoppedFinite
    <2> QED BY <1>1, <2>6 DEF PoppedCounted, Remove
<1>2. CASE RemoveTop
    BY <1>1, <1>2, TopInQueue DEF RemoveTop
<1>3. CASE UNCHANGED <<totalPushed, sequence, totalPopped, popped>>
    BY <1>3 DEF PoppedCounted
<1>4. CASE Produce
    BY <1>3, <1>4 DEF Produce, PushCopy, PushMove, Accept, PushFull, PushBatch,
                      PoppedCounted
<1>5. CASE Consume
    BY <1>1, <1>2, <1>3, <1>5
       DEF Consume, TakeAtOnce, Sleep, Wake, SpuriousWake, Recheck, Timeout,
           GetEventsBefore, GetEventsByType, GetEventsByPriority, Clear
<1>6. CASE Configure
    BY <1>3, <1>6 DEF Configure, SetMaxSize, SetBlocking, SetEnabled
<1>7. CASE UNCHANGED vars
    BY <1>3, <1>7 DEF vars
<1> QED BY <1>4, <1>5, <1>6, <1>7 DEF Next

\* The numbers below "sequence" are those queued, handed out and cleared.
LEMMA CountersAddUp ==
    ASSUME TypeOK, NumbersApart, PoppedCounted PROVE CountersExact
<1> DEFINE Q == Numbers(queue)
<1>1. IsFiniteSet(Q) /\ Cardinality(Q) = Cardinality(queue)
    BY NumbersCardinality
<1>2. Cardinality(0 .. sequence - 1) = sequence
    BY FS_Interval DEF TypeOK
<1>3. 0 .. sequence - 1 = (Q \cup popped) \cup cleared
    BY DEF NumbersApart
<1>4. Q \cap popped = {} /\ (Q \cup popped) \cap cleared = {}
    BY DEF NumbersApart
<1>5. Cardinality(queue) \in Nat
    BY FS_CardinalityType DEF TypeOK
<1> HIDE DEF Q
<1>6. /\ IsFiniteSet(Q \cup popped)
      /\ Cardinality(Q \cup popped)
            = Cardinality(Q) + Cardinality(popped) - Cardinality(Q \cap popped)
    BY <1>1, PoppedFinite, FS_Union
<1>7. Cardinality((Q \cup popped) \cup cleared)
            = Cardinality(Q \cup popped) + Cardinality(cleared)
                - Cardinality((Q \cup popped) \cap cleared)
    BY <1>6, PoppedFinite, FS_Union
<1>8. /\ Cardinality(Q \cap popped) = 0
      /\ Cardinality((Q \cup popped) \cap cleared) = 0
    BY <1>4, FS_EmptySet
<1>9. sequence = Cardinality(queue) + Cardinality(popped) + Cardinality(cleared)
    <2>1. sequence = Cardinality((Q \cup popped) \cup cleared)
        BY <1>2, <1>3
    <2> QED BY <1>1, <1>5, <1>6, <1>7, <1>8, <2>1, PoppedFinite
<1> QED BY <1>5, <1>9, PoppedFinite DEF PoppedCounted, CountersExact

\* totalPushed() and totalPopped() account for every event, and what they and
\* size() do not explain is what clear() threw away.
THEOREM CountersAreExact == Spec => []CountersExact
<1>1. Init => PoppedCounted
    BY FS_EmptySet DEF Init, PoppedCounted
<1>2. IInv /\ PoppedCounted /\ [Next]_vars => PoppedCounted'
    BY CountStep DEF IInv
<1>3. Spec => []PoppedCounted
    BY <1>1, <1>2, Invariance, PTL DEF Spec
<1>4. IInv /\ PoppedCounted => CountersExact
    BY CountersAddUp DEF IInv
<1> QED BY <1>3, <1>4, Invariance, PTL

-----------------------------------------------------------------------------
(***************************************************************************)
(* Order.                                                                  *)
(***************************************************************************)

\* pop, tryPop and the bulk getters, in any mixture, keep equal events first
\* in, first out.
THEOREM KeepsFIFO == Spec => FIFOWithinClass
<1> DEFINE A == \A e \in queue \ queue', f \in queue' :
                    /\ e.priority = f.priority
                    /\ e.type = f.type
                    /\ e.time = f.time
                    => e.sequence < f.sequence
<1>1. ASSUME IInv, Next PROVE A
    <2> SUFFICES ASSUME NEW e \in queue \ queue', NEW f \in queue',
                        e.priority = f.priority, e.type = f.type, e.time = f.time
                 PROVE  e.sequence < f.sequence
        OBVIOUS
    <2>1. CASE RemoveTop
        <3>1. e = Top(queue) /\ f \in queue \ {Top(queue)} /\ queue # {}
            BY <2>1 DEF RemoveTop, Remove
        <3>2. Precedes(e, f)
            BY <1>1, <3>1, TopIsLeast DEF IInv, TypeOK, NumbersApart
        <3>3. e \in Event /\ f \in Event
            BY <1>1, <3>1 DEF IInv, TypeOK
        <3> QED BY <3>2, <3>3 DEF Precedes, Event
    <2>2. CASE \E k \in EventKinds : \/ GetEventsBefore(k.time)
                                     \/ GetEventsByType(k.type)
                                     \/ GetEventsByPriority(k.priority)
        BY <2>2 DEF GetEventsBefore, GetEventsByType, GetEventsByPriority, Remove
    <2>3. CASE Clear
        BY <2>3 DEF Clear
    <2>4. CASE queue \subseteq queue'
        BY <2>4
    <2>5. CASE Produce
        BY <2>4, <2>5 DEF Produce, PushCopy, PushMove, Accept, PushFull, PushBatch
    <2>6. CASE Configure
        BY <2>4, <2>6 DEF Configure, SetMaxSize, SetBlocking, SetEnabled
    <2>7. CASE Consume
        BY <2>1, <2>2, <2>3, <2>4, <2>7
           DEF Consume, TakeAtOnce, Sleep, Wake, SpuriousWake, Recheck, Timeout
    <2> QED BY <1>1, <2>5, <2>6, <2>7 DEF Next
<1>2. IInv /\ [Next]_vars => [A]_vars
    BY <1>1
<1> QED BY <1>2, Invariance, PTL DEF Spec, FIFOWithinClass
================================================================================
