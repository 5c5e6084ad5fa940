---------------------------- MODULE FmiMasterProofs ----------------------------
(***************************************************************************)
(* What holds of FmiMaster for any number of FMUs, any step sizes and      *)
(* limits, any events and capacities, and any bounds.                      *)
(*                                                                         *)
(* The master changes the event queue by the queue's own operations only   *)
(* (UsesQueue), so that what is proved of EventQueue holds of the queue it *)
(* has.  What is left to prove is about the master and its FMUs            *)
(* (MasterInv) and about what it was told of the queue (DueInv, Awake).    *)
(***************************************************************************)
EXTENDS FmiMaster, SetLemmas

QP == INSTANCE EventQueueProofs WITH
    Poppers <- {"master"}, TimedPoppers <- {}, MaxSizes <- Capacities

-----------------------------------------------------------------------------
(***************************************************************************)
(* The queue.  Queue and QP name the same operators.                       *)
(***************************************************************************)

\* The assumption of EventQueue holds of the master's queue.
LEMMA QueueAssumption ==
    /\ QP!IsFiniteSet(QP!Threads)
    /\ {"master"} \cap {} = {}
    /\ \A k \in EventKinds : k.time \in Nat /\ k.priority \in Nat
    /\ Capacities \subseteq Nat
    /\ Capacities # {}
    /\ MaxEvents \in Nat
    /\ MaxDropped \in Nat
<1>1. {"master"} \cup {} = {"master"}
    OBVIOUS
<1>2. IsFiniteSet({"master"} \cup {})
    BY <1>1, FS_Singleton
<1>3. QP!IsFiniteSet(QP!Threads)
    BY <1>2 DEF QP!IsFiniteSet, IsFiniteSet, QP!Threads
<1> QED BY <1>3, FmiMasterAssumption

LEMMA SameInit == Queue!Init => QP!Init
BY DEF Queue!Init, QP!Init

LEMMA SameProduce == Queue!Produce => QP!Produce
BY DEF Queue!Produce, QP!Produce, Queue!PushCopy, QP!PushCopy, Queue!PushMove,
       QP!PushMove, Queue!PushFull, QP!PushFull, Queue!PushBatch, QP!PushBatch,
       Queue!Batch, QP!Batch, Queue!Room, QP!Room, Queue!Accept, QP!Accept,
       Queue!NotifyOne, QP!NotifyOne, Queue!NotifyAll, QP!NotifyAll,
       Queue!Numbered, QP!Numbered, Queue!Numbers, QP!Numbers, Queue!config,
       QP!config, Queue!sleepers, QP!sleepers, Queue!Top, QP!Top,
       Queue!Precedes, QP!Precedes, Queue!Cardinality, QP!Cardinality

LEMMA SameTake == Queue!TakeAtOnce("master") => QP!TakeAtOnce("master")
BY DEF Queue!TakeAtOnce, QP!TakeAtOnce, Queue!Idle, QP!Idle, Queue!RemoveTop,
       QP!RemoveTop, Queue!Remove, QP!Remove, Queue!Numbers, QP!Numbers,
       Queue!config, QP!config, Queue!sleepers, QP!sleepers, Queue!Top, QP!Top,
       Queue!Precedes, QP!Precedes, Queue!Cardinality, QP!Cardinality

LEMMA SameSleep == Queue!Sleep("master") => QP!Sleep("master")
BY DEF Queue!Sleep, QP!Sleep, Queue!Idle, QP!Idle, Queue!config, QP!config

LEMMA SameWake == Queue!Wake("master") => QP!Wake("master")
BY DEF Queue!Wake, QP!Wake, Queue!Recheck, QP!Recheck, Queue!RemoveTop,
       QP!RemoveTop, Queue!Remove, QP!Remove, Queue!Numbers, QP!Numbers,
       Queue!config, QP!config, Queue!Top, QP!Top, Queue!Precedes, QP!Precedes,
       Queue!Cardinality, QP!Cardinality

LEMMA SameInvariants ==
    /\ QP!TypeOK => Queue!TypeOK
    /\ QP!NumbersApart => Queue!NumbersApart
<1>1. QP!TypeOK => Queue!TypeOK
    BY DEF QP!TypeOK, Queue!TypeOK, QP!IsFiniteSet, Queue!IsFiniteSet, QP!Threads,
           Queue!Threads, QP!Event, Queue!Event
<1>2. QP!NumbersApart => Queue!NumbersApart
    BY DEF QP!NumbersApart, Queue!NumbersApart, QP!Numbers, Queue!Numbers
<1> QED BY <1>1, <1>2

\* A step of the master or of a producer is a step of the queue, or leaves it.
LEMMA QueueStep == [Next]_vars => [QP!Next]_(QP!vars)
<1> SUFFICES ASSUME [Next]_vars PROVE [QP!Next]_(QP!vars)
    OBVIOUS
<1>1. CASE Produce
    <2>1. QP!Produce
        BY <1>1, SameProduce DEF Produce
    <2> QED BY <2>1 DEF QP!Next
<1>2. CASE Pop
    <2>1. "master" \in QP!Threads
        BY DEF QP!Threads
    <2>2. \/ QP!TakeAtOnce("master") \/ QP!Sleep("master") \/ QP!Wake("master")
        BY <1>2, SameTake, SameSleep, SameWake DEF Pop
    <2>3. QP!Consume
        BY <2>1, <2>2 DEF QP!Consume
    <2> QED BY <2>3 DEF QP!Next
<1>3. CASE UNCHANGED queueVars
    BY <1>3 DEF queueVars, QP!vars, QP!config, QP!sleepers
<1>4. CASE \/ Loop \/ BeginStep \/ TakeStep \/ AskEmpty \/ Peek \/ HandleEvent
           \/ Initialize \/ (\E f \in Fmus : InitializeFails(f))
           \/ RunSimulation \/ (\E n \in StepSizes : DoStep(n)) \/ Terminate
           \/ UNCHANGED vars
    BY <1>3, <1>4
    DEF Loop, BeginStep, TakeStep, AskEmpty, Peek, HandleEvent, Initialize,
        InitializeFails, RunSimulation, DoStep, Terminate, Call, vars
<1> QED BY <1>1, <1>2, <1>4 DEF Next, Master

LEMMA UsesQueueProofs == Spec => QP!Spec
<1>1. Init => QP!Init
    BY SameInit DEF Init
<1> QED BY <1>1, QueueStep, PTL DEF Spec, QP!Spec

\* The master and the threads that push use the event queue through its own
\* operations (fmi_co_simulation_master.cpp:1299-1303), so that the queue of a
\* co-simulation is an EventQueue.
THEOREM UsesQueue == Spec => Queue!Spec
<1>1. Init => Queue!Init
    BY DEF Init
<1>2. [Next]_vars => [Queue!Next]_(Queue!vars)
    <2> SUFFICES ASSUME [Next]_vars PROVE [Queue!Next]_(Queue!vars)
        OBVIOUS
    <2>1. CASE Produce
        BY <2>1 DEF Produce, Queue!Next
    <2>2. CASE Pop
        <3>1. "master" \in Queue!Threads
            BY DEF Queue!Threads
        <3>2. Queue!TakeAtOnce("master") \/ Queue!Sleep("master") \/ Queue!Wake("master")
            BY <2>2 DEF Pop
        <3> QED BY <3>1, <3>2 DEF Queue!Consume, Queue!Next
    <2>3. CASE UNCHANGED queueVars
        BY <2>3 DEF queueVars, Queue!vars, Queue!config, Queue!sleepers
    <2>4. CASE \/ Loop \/ BeginStep \/ TakeStep \/ AskEmpty \/ Peek \/ HandleEvent
               \/ Initialize \/ (\E f \in Fmus : InitializeFails(f))
               \/ RunSimulation \/ (\E n \in StepSizes : DoStep(n)) \/ Terminate
               \/ UNCHANGED vars
        BY <2>3, <2>4
        DEF Loop, BeginStep, TakeStep, AskEmpty, Peek, HandleEvent, Initialize,
            InitializeFails, RunSimulation, DoStep, Terminate, Call, vars
    <2> QED BY <2>1, <2>2, <2>4 DEF Next, Master
<1> QED BY <1>1, <1>2, PTL DEF Spec, Queue!Spec

QueueInv == Queue!TypeOK /\ Queue!NumbersApart

\* What is proved of EventQueue holds of the master's queue.
LEMMA QueueInvariance == Spec => []QueueInv
<1>1. QP!Spec => [](QP!TypeOK /\ QP!NumbersApart)
    BY QueueAssumption, QP!TypeCorrect, QP!NumbersStayApart, PTL
<1>2. QP!TypeOK /\ QP!NumbersApart => QueueInv
    BY SameInvariants DEF QueueInv
<1> QED BY UsesQueueProofs, <1>1, <1>2, PTL

\* The top of the queue is one of its events.  None is more urgent, and none as
\* urgent as it is before it.
LEMMA TopIsQueued ==
    ASSUME QueueInv, queue # {}
    PROVE  /\ Queue!Top(queue) \in queue
           /\ \A e \in queue :
                 /\ Queue!Top(queue).priority <= e.priority
                 /\ e.priority = Queue!Top(queue).priority =>
                       Queue!Top(queue).time <= e.time
<1>1. /\ queue \in SUBSET QP!Event
      /\ \A e, f \in queue : e.sequence = f.sequence => e = f
    BY DEF QueueInv, Queue!TypeOK, Queue!NumbersApart, Queue!Event, QP!Event
<1>2. /\ QP!Top(queue) \in queue
      /\ \A f \in queue \ {QP!Top(queue)} : QP!Precedes(QP!Top(queue), f)
    BY <1>1, QueueAssumption, QP!TopIsLeast
<1>3. Queue!Top(queue) = QP!Top(queue)
    BY DEF Queue!Top, QP!Top, Queue!Precedes, QP!Precedes
<1>4. \A e \in queue : e.time \in Nat /\ e.priority \in Nat
    BY <1>1 DEF QP!Event
<1> DEFINE t == QP!Top(queue)
<1>5. ASSUME NEW e \in queue
      PROVE  t.priority <= e.priority /\ (e.priority = t.priority => t.time <= e.time)
    <2>1. CASE e = t
        BY <2>1, <1>4
    <2>2. CASE e # t
        <3>1. QP!Precedes(t, e)
            BY <1>2, <2>2
        <3>2. t \in queue
            BY <1>2
        <3> HIDE DEF t
        <3> QED BY <3>1, <3>2, <1>4 DEF QP!Precedes
    <2> QED BY <2>1, <2>2
<1> QED BY <1>2, <1>3, <1>5

\* A producer takes no event away.
LEMMA ProduceAdds == ASSUME Queue!Produce PROVE queue \subseteq queue'
<1>1. ASSUME NEW k \in EventKinds, Queue!PushCopy(k) \/ Queue!PushMove(k)
      PROVE  queue' = queue \cup {Queue!Numbered(k, sequence)}
    BY <1>1 DEF Queue!PushCopy, Queue!PushMove, Queue!Accept
<1>2. CASE Queue!PushFull
    BY <1>2 DEF Queue!PushFull
<1>3. ASSUME NEW k1 \in EventKinds, NEW k2 \in EventKinds, NEW moved \in BOOLEAN,
             Queue!PushBatch(k1, k2, moved)
      PROVE  queue' = queue \cup Queue!Batch(k1, k2)
    BY <1>3 DEF Queue!PushBatch
<1> QED BY <1>1, <1>2, <1>3 DEF Queue!Produce

-----------------------------------------------------------------------------
(***************************************************************************)
(* The master's own invariant.                                             *)
(***************************************************************************)

FmuStates == {"Instantiated", "InitializationMode", "Initialized",
              "StepCompleted", "StepFailed", "Terminated", "Error"}

\* Between a step's beginning and its end.
Stepping == {"events", "peek", "pop", "handle", "fmus"}

ControlTypes ==
    /\ pc \in {"idle", "loop", "step"} \cup Stepping
    /\ inRun \in BOOLEAN /\ initialized \in BOOLEAN
    /\ terminated \in BOOLEAN /\ running \in BOOLEAN
    /\ stepped \in BOOLEAN /\ early \in BOOLEAN
    /\ event \in Queue!Event \cup {NoEvent} /\ seen \subseteq Queue!Event

NumberTypes ==
    /\ requested \in Nat /\ stepSize \in Nat
    /\ actualStep \in 0 .. MaxStep
    /\ clock \in 0 .. StopTime
    /\ totalSteps \in Nat /\ successfulSteps \in Nat /\ failedSteps \in Nat
    /\ failures \in 0 .. MaxFailures /\ calls \in 0 .. MaxCalls

FmuTypes ==
    /\ fmuState \in [Fmus -> FmuStates]
    /\ fmuTime \in [Fmus -> 0 .. StopTime]

\* A step that has begun ends at the stop time at the latest.
StepFits == pc \in Stepping => clock + actualStep <= StopTime

\* The FMUs are where the master is as long as no step has failed.
Together == stepped => \A f \in Fmus : fmuTime[f] = clock

\* The master terminates its FMUs with itself.
AllTerminated == terminated => \A f \in Fmus : fmuState[f] = "Terminated"

\* Each step that was begun has been counted once.
Counted ==
    totalSteps = successfulSteps + failedSteps + IF pc \in Stepping THEN 1 ELSE 0

MasterInv ==
    /\ ControlTypes /\ NumberTypes /\ FmuTypes
    /\ StepFits /\ Together /\ AllTerminated /\ Counted

LEMMA TypesOfParts ==
    TypeOK <=> Queue!TypeOK /\ ControlTypes /\ NumberTypes /\ FmuTypes
BY DEF TypeOK, ControlTypes, NumberTypes, FmuTypes, FmuStates, Stepping

\* Least and Clamp keep a step between 0 and what is left.
LEMMA StepSize ==
    ASSUME NEW n \in Nat, NEW left \in Nat
    PROVE  /\ Clamp(n) \in Nat
           /\ Least(Clamp(n), left) \in 0 .. MaxStep
           /\ Least(Clamp(n), left) <= left
BY FmiMasterAssumption DEF Clamp, Least

\* The FMUs after a step: those that have ended are where they were.
LEMMA FmusStepped ==
    ASSUME FmuTypes, NumberTypes, NEW done \in SUBSET Fmus, StepFmus(done),
           clock + actualStep <= StopTime, failures' <= MaxFailures
    PROVE  /\ FmuTypes'
           /\ failures' \in 0 .. MaxFailures
           /\ \A f \in done : fmuState[f] \notin Ended /\ fmuTime'[f] = clock + actualStep
           /\ \A f \in Fmus \ done : fmuTime'[f] = fmuTime[f]
           /\ \A f \in Fmus : fmuState[f] \in Ended => fmuState'[f] = fmuState[f]
<1> DEFINE live == {f \in Fmus : fmuState[f] \notin Ended}
<1>1. /\ done \subseteq live
      /\ fmuState' = [f \in Fmus |-> IF f \in done THEN "StepCompleted"
                                     ELSE IF f \in live THEN "StepFailed"
                                     ELSE fmuState[f]]
      /\ fmuTime' = [f \in Fmus |-> IF f \in done THEN clock + actualStep
                                                  ELSE fmuTime[f]]
      /\ failures' = failures + Cardinality(live \ done)
    BY DEF StepFmus
<1>2. fmuState' \in [Fmus -> FmuStates]
    BY <1>1 DEF FmuTypes, FmuStates
<1>3. clock + actualStep \in 0 .. StopTime
    BY FmiMasterAssumption DEF NumberTypes
<1>4. fmuTime' \in [Fmus -> 0 .. StopTime]
    BY <1>1, <1>3 DEF FmuTypes
<1>5. Cardinality(live \ done) \in Nat
    <2>1. IsFiniteSet(Fmus)
        BY FS_Interval, FmiMasterAssumption DEF Fmus
    <2> QED BY <2>1, FS_Subset, FS_CardinalityType
<1>6. failures' \in 0 .. MaxFailures
    <2> HIDE DEF live
    <2> QED BY <1>1, <1>5, FmiMasterAssumption DEF NumberTypes
<1> QED BY <1>1, <1>2, <1>4, <1>6 DEF FmuTypes, FmuStates

LEMMA LoopStep == ASSUME MasterInv, Loop PROVE MasterInv'
<1>1. /\ pc = "loop" /\ (pc' = "step" \/ pc' = "idle")
      /\ inRun' \in BOOLEAN /\ running' \in BOOLEAN /\ requested' \in Nat
      /\ UNCHANGED <<actualStep, event, stepSize, clock, initialized, terminated,
                     totalSteps, successfulSteps, failedSteps, fmuState, fmuTime,
                     failures, calls, stepped, seen, early>>
    BY DEF Loop, EndRun, MasterInv, ControlTypes, NumberTypes, statVars, fmuVars, ghostVars
<1>2. ControlTypes' /\ NumberTypes' /\ FmuTypes'
    BY <1>1 DEF MasterInv, ControlTypes, NumberTypes, FmuTypes
<1>3. StepFits' /\ Together' /\ AllTerminated' /\ Counted'
    BY <1>1 DEF MasterInv, StepFits, Together, AllTerminated, Counted, Stepping
<1> QED BY <1>2, <1>3 DEF MasterInv

LEMMA BeginStepStep == ASSUME MasterInv, BeginStep PROVE MasterInv'
<1>1. /\ pc = "step"
      /\ actualStep' = Least(Clamp(requested), StopTime - clock)
      /\ UNCHANGED <<requested, event, stepSize, clock, initialized, terminated,
                     successfulSteps, failedSteps, fmuState, fmuTime,
                     failures, calls, stepped, seen, early>>
    BY DEF BeginStep, fmuVars, ghostVars
<1>2. \/ pc' \in {"idle", "loop"} /\ totalSteps' = totalSteps
      \/ pc' = "events" /\ totalSteps' = totalSteps + 1
    BY DEF BeginStep, Return, EndRun
<1>3. inRun' \in BOOLEAN /\ running' \in BOOLEAN
    BY DEF BeginStep, Return, EndRun, MasterInv, ControlTypes
<1>4. actualStep' \in 0 .. MaxStep /\ actualStep' <= StopTime - clock
    BY <1>1, StepSize, FmiMasterAssumption DEF MasterInv, NumberTypes
<1>5. ControlTypes' /\ FmuTypes'
    BY <1>1, <1>2, <1>3 DEF MasterInv, ControlTypes, FmuTypes, Stepping
<1>6. NumberTypes'
    BY <1>1, <1>2, <1>4 DEF MasterInv, NumberTypes
<1>7. StepFits'
    BY <1>1, <1>4, FmiMasterAssumption DEF MasterInv, NumberTypes, StepFits
<1>8. Together' /\ AllTerminated'
    BY <1>1 DEF MasterInv, Together, AllTerminated
<1>9. Counted'
    BY <1>1, <1>2 DEF MasterInv, NumberTypes, Counted, Stepping
<1> QED BY <1>5, <1>6, <1>7, <1>8, <1>9 DEF MasterInv

LEMMA TakeStepStep == ASSUME MasterInv, TakeStep PROVE MasterInv'
<1>1. PICK done \in SUBSET Fmus :
         /\ StepFmus(done)
         /\ failures' <= MaxFailures
         /\ IF done = Fmus
              THEN /\ clock' = clock + actualStep
                   /\ successfulSteps' = successfulSteps + 1
                   /\ stepped' = TRUE
                   /\ Return(TRUE)
                   /\ UNCHANGED <<requested, failedSteps>>
              ELSE /\ failedSteps' = failedSteps + 1
                   /\ stepped' = FALSE
                   /\ IF VariableStep /\ actualStep > 2 * MinStep
                        THEN pc' = "step" /\ requested' = actualStep \div 2
                             /\ UNCHANGED <<inRun, running>>
                        ELSE Return(FALSE) /\ UNCHANGED requested
                   /\ UNCHANGED <<clock, successfulSteps>>
    BY DEF TakeStep
<1>2. /\ pc = "fmus"
      /\ UNCHANGED <<actualStep, event, stepSize, initialized, terminated,
                     totalSteps, calls, seen, early>>
    BY DEF TakeStep
<1>3. clock + actualStep \in 0 .. StopTime /\ clock \in 0 .. StopTime
    BY <1>2, FmiMasterAssumption DEF MasterInv, NumberTypes, StepFits, Stepping
<1>4. /\ FmuTypes'
      /\ failures' \in 0 .. MaxFailures
      /\ \A f \in done : fmuState[f] \notin Ended /\ fmuTime'[f] = clock + actualStep
      /\ \A f \in Fmus : fmuState[f] \in Ended => fmuState'[f] = fmuState[f]
    BY <1>1, <1>3, FmusStepped DEF MasterInv
<1>5. pc' \in {"idle", "loop", "step"} /\ inRun' \in BOOLEAN /\ running' \in BOOLEAN
    BY <1>1 DEF Return, EndRun, MasterInv, ControlTypes
<1>6. requested' = requested \/ requested' = actualStep \div 2
    BY <1>1
<1>7. requested' \in Nat
    <2>1. actualStep \in Nat /\ requested \in Nat
        BY FmiMasterAssumption DEF MasterInv, NumberTypes
    <2>2. actualStep \div 2 \in Nat
        BY <2>1
    <2> QED BY <1>6, <2>1, <2>2
<1>13. /\ clock' \in 0 .. StopTime
       /\ \/ successfulSteps' = successfulSteps + 1 /\ UNCHANGED failedSteps
          \/ failedSteps' = failedSteps + 1 /\ UNCHANGED successfulSteps
    BY <1>1, <1>3
<1>8. ControlTypes'
    BY <1>1, <1>2, <1>5 DEF MasterInv, ControlTypes
<1>9. NumberTypes'
    BY <1>2, <1>4, <1>7, <1>13 DEF MasterInv, NumberTypes
<1>10. StepFits' /\ Counted'
    BY <1>2, <1>5, <1>13 DEF MasterInv, NumberTypes, StepFits, Counted, Stepping
<1>11. Together'
    BY <1>1, <1>4 DEF MasterInv, Together
<1>12. AllTerminated'
    BY <1>2, <1>4 DEF MasterInv, AllTerminated, Ended
<1> QED BY <1>4, <1>8, <1>9, <1>10, <1>11, <1>12 DEF MasterInv

\* A step of processEvents leaves all but the event and the FMUs' ends alone.
LEMMA EventsStep ==
    ASSUME MasterInv, pc \in Stepping, UNCHANGED eventFrame, ControlTypes',
           pc' \in Stepping, stepSize' \in Nat, fmuState' \in [Fmus -> FmuStates],
           terminated' => \A f \in Fmus : fmuState'[f] = "Terminated"
    PROVE  MasterInv'
<1>1. UNCHANGED <<inRun, requested, actualStep, clock, totalSteps, successfulSteps,
                  failedSteps, fmuTime, failures, calls, stepped>>
    BY DEF eventFrame, statVars
<1>2. NumberTypes' /\ FmuTypes'
    BY <1>1 DEF MasterInv, NumberTypes, FmuTypes
<1>3. StepFits' /\ Together' /\ AllTerminated' /\ Counted'
    BY <1>1 DEF MasterInv, StepFits, Together, AllTerminated, Counted
<1> QED BY <1>2, <1>3 DEF MasterInv

LEMMA PopStep ==
    ASSUME QueueInv, MasterInv, Pop PROVE MasterInv'
<1>1. /\ pc = "pop"
      /\ UNCHANGED eventFrame /\ UNCHANGED <<stepSize, fmuState>>
      /\ UNCHANGED <<inRun, stepped, initialized, terminated, running>>
    BY DEF Pop, eventFrame, flagVars
<1>2. /\ pc' \in {"pop", "handle"} /\ early' \in BOOLEAN
      /\ event' \in Queue!Event \cup {NoEvent} /\ seen' \subseteq Queue!Event
    <2>1. CASE queue = {}
        BY <1>1, <2>1 DEF Pop, MasterInv, ControlTypes
    <2>2. CASE queue # {}
        <3>1. Queue!Top(queue) \in Queue!Event
            BY <2>2, TopIsQueued DEF QueueInv, Queue!TypeOK
        <3>2. /\ pc' = "handle" /\ event' = Queue!Top(queue) /\ seen' = {}
              /\ early' = (early \/ TooEarly(Queue!Top(queue)))
            BY <2>2 DEF Pop
        <3>3. early' \in BOOLEAN
            BY <3>2
        <3> QED BY <3>1, <3>2, <3>3
    <2> QED BY <2>1, <2>2
<1>3. ControlTypes'
    BY <1>1, <1>2 DEF MasterInv, ControlTypes, Stepping
<1> QED BY <1>1, <1>2, <1>3, EventsStep
        DEF MasterInv, NumberTypes, FmuTypes, AllTerminated, Stepping

LEMMA AskStep == ASSUME QueueInv, MasterInv, AskEmpty \/ Peek PROVE MasterInv'
<1>1. /\ pc \in Stepping /\ pc' \in {"fmus", "peek", "pop"}
      /\ UNCHANGED eventFrame /\ UNCHANGED <<stepSize, fmuState>>
      /\ UNCHANGED <<event, early, inRun, stepped, initialized, terminated, running>>
    BY DEF AskEmpty, Peek, eventFrame, flagVars, Stepping
<1>3. seen' \subseteq Queue!Event
    <2>1. seen' = seen \/ seen' = queue
        BY DEF AskEmpty, Peek
    <2> QED BY <2>1 DEF QueueInv, Queue!TypeOK, MasterInv, ControlTypes
<1>2. ControlTypes'
    BY <1>1, <1>3 DEF MasterInv, ControlTypes, Stepping
<1> QED BY <1>1, <1>2, EventsStep
        DEF MasterInv, NumberTypes, FmuTypes, AllTerminated, Stepping

\* terminate() leaves every FMU terminated.
LEMMA Terminated ==
    ASSUME MasterInv, DoTerminate
    PROVE  /\ fmuState' \in [Fmus -> FmuStates]
           /\ terminated' = TRUE
           /\ \A f \in Fmus : fmuState'[f] = "Terminated"
           /\ initialized' \in BOOLEAN /\ running' \in BOOLEAN
BY DEF DoTerminate, MasterInv, FmuTypes, FmuStates, AllTerminated, ControlTypes

LEMMA HandleStep == ASSUME MasterInv, HandleEvent PROVE MasterInv'
<1>1. /\ pc = "handle" /\ pc' \in {"events", "fmus"} /\ event' = NoEvent
      /\ UNCHANGED eventFrame /\ UNCHANGED <<seen, early, inRun, stepped>>
    BY DEF HandleEvent, eventFrame
<1>2. stepSize' \in Nat
    <2>1. \A n \in StepSizes : Clamp(n) \in Nat
        BY FmiMasterAssumption DEF Clamp
    <2> QED BY <2>1 DEF HandleEvent, MasterInv, NumberTypes
<1>3. /\ fmuState' \in [Fmus -> FmuStates]
      /\ terminated' => \A f \in Fmus : fmuState'[f] = "Terminated"
      /\ initialized' \in BOOLEAN /\ terminated' \in BOOLEAN /\ running' \in BOOLEAN
    <2>1. CASE DoTerminate
        BY <2>1, Terminated
    <2>2. CASE UNCHANGED <<flagVars, fmuState>>
        BY <2>2 DEF flagVars, MasterInv, FmuTypes, AllTerminated, ControlTypes
    <2> QED BY <2>1, <2>2 DEF HandleEvent
<1>4. ControlTypes'
    BY <1>1, <1>3 DEF MasterInv, ControlTypes, Stepping
<1> QED BY <1>1, <1>2, <1>3, <1>4, EventsStep DEF Stepping

\* What every call of the master leaves alone.
LEMMA CallKeeps ==
    ASSUME MasterInv, Call
    PROVE  /\ pc = "idle" /\ calls' \in 0 .. MaxCalls
           /\ UNCHANGED <<fmuTime, failures, seen, early, actualStep, event>>
BY FmiMasterAssumption DEF MasterInv, NumberTypes, Call

LEMMA InitializedStep ==
    ASSUME MasterInv, Call, NEW states \in [Fmus -> FmuStates],
           NEW success \in BOOLEAN, Initialized(states, success),
           UNCHANGED <<pc, inRun, requested, running>>
    PROVE  MasterInv'
<1>1. /\ pc = "idle" /\ pc' = "idle" /\ calls' \in 0 .. MaxCalls
      /\ UNCHANGED <<fmuTime, failures, seen, early, actualStep, event, inRun, requested, running>>
    BY CallKeeps
<1>2. /\ fmuState' = states /\ clock' = 0 /\ stepSize' \in Nat
      /\ totalSteps' = 0 /\ successfulSteps' = 0 /\ failedSteps' = 0
      /\ initialized' = success /\ terminated' = FALSE /\ stepped' = FALSE
    BY FmiMasterAssumption DEF Initialized
<1>3. ControlTypes' /\ FmuTypes'
    BY <1>1, <1>2 DEF MasterInv, ControlTypes, FmuTypes
<1>4. NumberTypes'
    BY <1>1, <1>2, FmiMasterAssumption DEF MasterInv, NumberTypes
<1>5. StepFits' /\ Together' /\ AllTerminated' /\ Counted'
    BY <1>1, <1>2 DEF StepFits, Together, AllTerminated, Counted, Stepping
<1> QED BY <1>3, <1>4, <1>5 DEF MasterInv

LEMMA InitializeStep == ASSUME MasterInv, Initialize PROVE MasterInv'
<1>1. [f \in Fmus |-> "Initialized"] \in [Fmus -> FmuStates]
    BY DEF FmuStates
<1> QED BY <1>1, InitializedStep DEF Initialize

LEMMA InitializeFailsStep ==
    ASSUME MasterInv, NEW f \in Fmus, InitializeFails(f) PROVE MasterInv'
<1> DEFINE before  == <<fmuState, [g \in Fmus |-> "InitializationMode"]>>
           passed(r) == CASE r = 1 -> fmuState[f]
                          [] r = 2 -> "InitializationMode"
                          [] r = 3 -> "Initialized"
           past(r)   == IF r = 3 THEN before[2] ELSE before[1]
           states(r, b) == [g \in Fmus |-> CASE g < f /\ r > 1 -> passed(r)
                                             [] g = f /\ b    -> "Error"
                                             [] OTHER         -> past(r)[g]]
<1>1. PICK round \in 1 .. 3, broken \in BOOLEAN : Initialized(states(round, broken), FALSE)
    BY DEF InitializeFails
<1>2. passed(round) \in FmuStates
    <2>1. round = 1 \/ round = 2 \/ round = 3
        OBVIOUS
    <2>2. fmuState[f] \in FmuStates
        BY DEF MasterInv, FmuTypes
    <2> QED BY <2>1, <2>2, Zenon DEF FmuStates
<1>3. \A g \in Fmus : past(round)[g] \in FmuStates
    BY DEF MasterInv, FmuTypes, FmuStates
<1>4. "Error" \in FmuStates
    BY DEF FmuStates
<1>5. \A g \in Fmus : states(round, broken)[g] \in FmuStates
    <2> HIDE DEF passed, past
    <2> QED BY <1>2, <1>3, <1>4, Zenon
<1>6. states(round, broken) \in [Fmus -> FmuStates]
    BY <1>5
<1> QED BY <1>1, <1>6, InitializedStep DEF InitializeFails

\* The calls that take no step of their own.
LEMMA CallStep ==
    ASSUME MasterInv, RunSimulation \/ (\E n \in StepSizes : DoStep(n)) \/ Terminate
    PROVE  MasterInv'
<1>1. /\ pc = "idle" /\ calls' \in 0 .. MaxCalls
      /\ pc' \in {"idle", "loop", "step"}
      /\ UNCHANGED <<fmuTime, failures, seen, early, actualStep, event, stepSize, clock, stepped>>
    BY CallKeeps DEF RunSimulation, DoStep, Terminate
<1>2. inRun' \in BOOLEAN /\ requested' \in Nat
    BY FmiMasterAssumption DEF RunSimulation, DoStep, Terminate, MasterInv, ControlTypes, NumberTypes
<1>3. /\ fmuState' \in [Fmus -> FmuStates]
      /\ terminated' => \A f \in Fmus : fmuState'[f] = "Terminated"
      /\ initialized' \in BOOLEAN /\ terminated' \in BOOLEAN /\ running' \in BOOLEAN
    <2>1. CASE Terminate
        BY <2>1, Terminated DEF Terminate
    <2>2. CASE RunSimulation \/ (\E n \in StepSizes : DoStep(n))
        <3>1. UNCHANGED <<fmuState, initialized, terminated>> /\ running' \in {running, TRUE}
            BY <2>2 DEF RunSimulation, DoStep, flagVars
        <3> QED BY <3>1 DEF MasterInv, FmuTypes, AllTerminated, ControlTypes
    <2> QED BY <2>1, <2>2
<1>4. \/ totalSteps' = 0 /\ successfulSteps' = 0 /\ failedSteps' = 0
      \/ UNCHANGED <<totalSteps, successfulSteps, failedSteps>>
    BY DEF RunSimulation, DoStep, Terminate, statVars
<1>5. ControlTypes' /\ FmuTypes' /\ NumberTypes'
    BY <1>1, <1>2, <1>3, <1>4 DEF MasterInv, ControlTypes, FmuTypes, NumberTypes
<1>6. StepFits' /\ Together' /\ AllTerminated' /\ Counted'
    BY <1>1, <1>3, <1>4 DEF MasterInv, StepFits, Together, AllTerminated, Counted, Stepping
<1> QED BY <1>5, <1>6 DEF MasterInv

LEMMA MasterStep == ASSUME QueueInv, MasterInv, [Next]_vars PROVE MasterInv'
<1>1. CASE Loop \/ BeginStep \/ TakeStep
    BY <1>1, LoopStep, BeginStepStep, TakeStepStep
<1>2. CASE AskEmpty \/ Peek \/ Pop \/ HandleEvent
    BY <1>2, AskStep, PopStep, HandleStep
<1>3. CASE Initialize \/ \E f \in Fmus : InitializeFails(f)
    BY <1>3, InitializeStep, InitializeFailsStep
<1>4. CASE RunSimulation \/ (\E n \in StepSizes : DoStep(n)) \/ Terminate
    BY <1>4, CallStep
<1>5. CASE Produce \/ UNCHANGED vars
    <2>1. UNCHANGED <<pc, inRun, requested, actualStep, event, stepSize, clock, initialized,
                      terminated, running, totalSteps, successfulSteps, failedSteps,
                      fmuState, fmuTime, failures, calls, stepped, seen, early>>
        BY <1>5 DEF Produce, vars, stepVars, flagVars, statVars, fmuVars, ghostVars
    <2>2. ControlTypes' /\ NumberTypes' /\ FmuTypes'
        BY <2>1 DEF MasterInv, ControlTypes, NumberTypes, FmuTypes
    <2>3. StepFits' /\ Together' /\ AllTerminated' /\ Counted'
        BY <2>1 DEF MasterInv, StepFits, Together, AllTerminated, Counted
    <2> QED BY <2>2, <2>3 DEF MasterInv
<1> QED BY <1>1, <1>2, <1>3, <1>4, <1>5 DEF Next, Master

LEMMA MasterInit == Init => MasterInv
<1> SUFFICES ASSUME Init PROVE MasterInv
    OBVIOUS
<1>1. ControlTypes
    BY DEF Init, ControlTypes
<1>4. FmuTypes
    <2>1. 0 \in 0 .. StopTime
        BY FmiMasterAssumption
    <2> QED BY <2>1 DEF Init, FmuTypes, FmuStates
<1>2. NumberTypes
    BY FmiMasterAssumption DEF Init, NumberTypes
<1>3. StepFits /\ Together /\ AllTerminated /\ Counted
    BY DEF Init, StepFits, Together, AllTerminated, Counted, Stepping
<1> QED BY <1>1, <1>2, <1>3, <1>4 DEF MasterInv

LEMMA Invariance == Spec => [](QueueInv /\ MasterInv)
BY QueueInvariance, MasterInit, MasterStep, PTL DEF Spec

\* The master, its FMUs and its queue keep their types; no FMU and no clock
\* is ever past the stop time.
THEOREM TypeCorrect == Spec => []TypeOK
<1>1. QueueInv /\ MasterInv => TypeOK
    BY TypesOfParts DEF QueueInv, MasterInv
<1> QED BY Invariance, <1>1, PTL

\* After a step that succeeded, at once or after retries with smaller sizes,
\* every FMU is where the master is, and each step is counted once.
THEOREM StaysInStep == Spec => []InStep
<1>1. MasterInv => InStep
    BY DEF MasterInv, Together, Counted, Stepping, InStep
<1> QED BY Invariance, <1>1, PTL

\* An FMU that has ended is never stepped again, and the clock of a master
\* that was terminated stands still, although the step in which the Terminate
\* event arrived goes on.
THEOREM EndedStayEnded == Spec => EndedStay
<1> DEFINE A == /\ \A f \in Fmus : fmuState[f] \in Ended => fmuTime'[f] = fmuTime[f]
                /\ terminated /\ terminated' => clock' = clock
<1>1. ASSUME MasterInv, TakeStep PROVE A
    <2>1. PICK done \in SUBSET Fmus :
             /\ StepFmus(done)
             /\ failures' <= MaxFailures
             /\ done = Fmus \/ clock' = clock
        BY <1>1 DEF TakeStep
    <2>2. clock + actualStep <= StopTime
        BY <1>1 DEF MasterInv, StepFits, Stepping, TakeStep
    <2>3. /\ \A f \in done : fmuState[f] \notin Ended
          /\ \A f \in Fmus \ done : fmuTime'[f] = fmuTime[f]
        BY <1>1, <2>1, <2>2, FmusStepped DEF MasterInv
    <2>4. 1 \in Fmus
        BY FmiMasterAssumption DEF Fmus
    <2>5. terminated => fmuState[1] \in Ended
        BY <1>1, <2>4 DEF MasterInv, AllTerminated, Ended
    <2> QED BY <2>1, <2>3, <2>4, <2>5
<1>2. ASSUME Initialize \/ \E f \in Fmus : InitializeFails(f) PROVE A
    BY <1>2 DEF Initialize, InitializeFails, Initialized, Call
<1>3. ASSUME \/ Loop \/ BeginStep \/ AskEmpty \/ Peek \/ Pop \/ HandleEvent
             \/ RunSimulation \/ (\E n \in StepSizes : DoStep(n)) \/ Terminate
             \/ Produce \/ UNCHANGED vars
      PROVE  A
    <2>1. UNCHANGED <<fmuTime, clock>>
        BY <1>3
        DEF Loop, BeginStep, AskEmpty, Peek, Pop, HandleEvent, eventFrame, RunSimulation,
            DoStep, Terminate, Call, Produce, fmuVars, vars
    <2> QED BY <2>1
<1>4. MasterInv /\ [Next]_vars => [A]_vars
    BY <1>1, <1>2, <1>3 DEF Next, Master
<1> QED BY Invariance, <1>4, PTL DEF Spec, EndedStay

-----------------------------------------------------------------------------
(***************************************************************************)
(* Events before their time.  The master peeks and pops in two calls, and  *)
(* the event it pops need not be the one it has seen.  That one stays in   *)
(* the queue, and was at its top: only an event that was pushed since, and *)
(* that is due or more urgent, can overtake it.                            *)
(***************************************************************************)

Due ==
    /\ pc = "peek" => queue # {}
    /\ pc = "pop" => \E p \in queue : /\ p.time <= clock
                                    /\ \A k \in seen : p.priority <= k.priority

DueInv == Due /\ EventsOnTime

\* What is popped is due, or more urgent than all the master has seen.
LEMMA PopOnTime ==
    ASSUME QueueInv, MasterInv, Due, Pop PROVE ~ TooEarly(Queue!Top(queue))
<1>1. PICK p \in queue : p.time <= clock /\ \A k \in seen : p.priority <= k.priority
    BY DEF Pop, Due
<1> DEFINE top == Queue!Top(queue)
<1>2. /\ top \in queue
      /\ top.priority <= p.priority
      /\ p.priority = top.priority => top.time <= p.time
    BY <1>1, TopIsQueued
<1>3. /\ \A e \in queue : e.time \in Nat /\ e.priority \in Nat
      /\ \A e \in seen : e.priority \in Nat
      /\ clock \in Nat
    BY FmiMasterAssumption
    DEF QueueInv, Queue!TypeOK, Queue!Event, MasterInv, ControlTypes, NumberTypes
<1> HIDE DEF top
<1>4. ASSUME top.time > clock, NEW k \in seen, k.priority <= top.priority PROVE FALSE
    <2>1. p.priority = top.priority
        BY <1>1, <1>2, <1>3, <1>4
    <2> QED BY <2>1, <1>1, <1>2, <1>3, <1>4
<1> QED BY <1>4 DEF TooEarly, top

LEMMA DueStep ==
    ASSUME QueueInv, MasterInv, DueInv, [Next]_vars
    PROVE  DueInv'
<1>2. CASE Produce
    <2>1. queue \subseteq queue'
        BY <1>2, ProduceAdds DEF Produce
    <2>2. UNCHANGED <<pc, clock, seen, early>>
        BY <1>2 DEF Produce, ghostVars
    <2> QED BY <2>1, <2>2 DEF DueInv, Due, EventsOnTime
<1>3. CASE Pop
    <2>1. pc' = "handle" /\ early' = (early \/ TooEarly(Queue!Top(queue)))
        BY <1>3 DEF Pop, DueInv, Due
    <2> QED BY <1>3, <2>1, PopOnTime DEF DueInv, Due, EventsOnTime
<1>4. CASE AskEmpty
    BY <1>4 DEF AskEmpty, DueInv, Due, EventsOnTime, queueVars
<1>5. CASE Peek
    <2>1. queue # {} /\ UNCHANGED <<queue, clock, early>>
        BY <1>5 DEF Peek, DueInv, Due, queueVars, eventFrame
    <2>2. \/ pc' = "fmus"
          \/ pc' = "pop" /\ seen' = queue /\ Queue!Top(queue).time <= clock
        BY <1>5, <2>1 DEF Peek
    <2>3. /\ Queue!Top(queue) \in queue
          /\ \A k \in queue : Queue!Top(queue).priority <= k.priority
        BY <2>1, TopIsQueued
    <2> QED BY <2>1, <2>2, <2>3 DEF DueInv, Due, EventsOnTime
<1>6. CASE \/ Loop \/ BeginStep \/ TakeStep \/ HandleEvent
           \/ Initialize \/ (\E f \in Fmus : InitializeFails(f))
           \/ RunSimulation \/ (\E n \in StepSizes : DoStep(n)) \/ Terminate
    <2>1. UNCHANGED early
        BY <1>6
        DEF Loop, BeginStep, TakeStep, HandleEvent, Initialize, InitializeFails,
            RunSimulation, DoStep, Terminate, Call, ghostVars
    <2>2. pc' \notin {"peek", "pop"}
        BY <1>6
        DEF Loop, BeginStep, TakeStep, HandleEvent, Initialize, InitializeFails,
            RunSimulation, DoStep, Terminate, Call, Return, EndRun
    <2> QED BY <2>1, <2>2 DEF DueInv, Due, EventsOnTime
<1>7. CASE UNCHANGED vars
    BY <1>7 DEF vars, queueVars, ghostVars, DueInv, Due, EventsOnTime
<1> QED BY <1>2, <1>3, <1>4, <1>5, <1>6, <1>7 DEF Next, Master

\* An event that is handled before its time was pushed between the calls of
\* peek() and pop() (fmi_co_simulation_master.cpp:1302-1303) and is more urgent
\* than every event that was there: a Critical event of the future may, whatever
\* else is pushed waits for its time.
THEOREM NoEventEarly == Spec => []EventsOnTime
<1>1. Init => DueInv
    BY DEF Init, DueInv, Due, EventsOnTime
<1>2. QueueInv /\ MasterInv /\ DueInv /\ [Next]_vars => DueInv'
    BY DueStep
<1>3. DueInv => EventsOnTime
    BY DEF DueInv
<1> QED BY Invariance, <1>1, <1>2, <1>3, PTL DEF Spec

-----------------------------------------------------------------------------
(***************************************************************************)
(* What the master may rely on.                                            *)
(***************************************************************************)

\* Nobody sleeps, and an event the master was told of is still there.
Awake ==
    /\ waiting = {} /\ woken = {}
    /\ pc \in {"peek", "pop"} => queue # {}

\* A push finds nobody to signal.
LEMMA ProduceSignalsNobody ==
    ASSUME Queue!Produce, waiting = {}, woken = {}
    PROVE  waiting' = {} /\ woken' = {}
<1>1. ASSUME NEW k \in EventKinds, Queue!PushCopy(k) \/ Queue!PushMove(k)
      PROVE  waiting' = {} /\ woken' = {}
    BY <1>1
    DEF Queue!PushCopy, Queue!PushMove, Queue!Accept, Queue!NotifyOne, Queue!sleepers
<1>2. CASE Queue!PushFull
    BY <1>2 DEF Queue!PushFull, Queue!sleepers
<1>3. ASSUME NEW k1 \in EventKinds, NEW k2 \in EventKinds, NEW moved \in BOOLEAN,
             Queue!PushBatch(k1, k2, moved)
      PROVE  waiting' = {} /\ woken' = {}
    BY <1>3 DEF Queue!PushBatch, Queue!NotifyAll, Queue!sleepers
<1> QED BY <1>1, <1>2, <1>3 DEF Queue!Produce

LEMMA AwakeStep == ASSUME Awake, [Next]_vars PROVE Awake'
<1>1. CASE Produce
    <2>1. queue \subseteq queue' /\ pc' = pc
        BY <1>1, ProduceAdds DEF Produce
    <2>2. waiting' = {} /\ woken' = {}
        BY <1>1, ProduceSignalsNobody DEF Produce, Awake
    <2> QED BY <2>1, <2>2 DEF Awake
<1>2. CASE Pop
    <2>1. queue # {} /\ pc' = "handle"
        BY <1>2 DEF Pop, Awake
    <2>2. Queue!TakeAtOnce("master")
        BY <1>2, <2>1 DEF Pop, Awake, Queue!Sleep
    <2>3. UNCHANGED <<waiting, woken>>
        BY <2>2 DEF Queue!TakeAtOnce, Queue!sleepers
    <2> QED BY <2>1, <2>3 DEF Awake
<1>3. CASE AskEmpty \/ Peek
    <2>1. UNCHANGED <<queue, waiting, woken>> /\ pc' \in {"fmus", "peek", "pop"}
        BY <1>3 DEF AskEmpty, Peek, queueVars
    <2>2. pc' # "fmus" => queue # {}
        BY <1>3 DEF AskEmpty, Peek, Awake
    <2> QED BY <2>1, <2>2 DEF Awake
<1>4. CASE \/ Loop \/ BeginStep \/ TakeStep \/ HandleEvent
           \/ Initialize \/ (\E f \in Fmus : InitializeFails(f))
           \/ RunSimulation \/ (\E n \in StepSizes : DoStep(n)) \/ Terminate
    <2>1. UNCHANGED <<queue, waiting, woken>>
        BY <1>4
        DEF Loop, BeginStep, TakeStep, HandleEvent, Initialize, InitializeFails,
            RunSimulation, DoStep, Terminate, Call, queueVars
    <2>2. pc' \notin {"peek", "pop"}
        BY <1>4
        DEF Loop, BeginStep, TakeStep, HandleEvent, Initialize, InitializeFails,
            RunSimulation, DoStep, Terminate, Call, Return, EndRun
    <2> QED BY <2>1, <2>2 DEF Awake
<1>5. CASE UNCHANGED vars
    BY <1>5 DEF vars, queueVars, Awake
<1> QED BY <1>1, <1>2, <1>3, <1>4, <1>5 DEF Next, Master

\* The master never waits inside pop(), which blocks on an empty queue
\* (fmi_co_simulation_master.cpp:1299-1303): between the calls of empty(), peek()
\* and pop() other threads push, but only the master takes events.
THEOREM NeverWaitsForEvents == Spec => [](waiting = {} /\ woken = {})
<1>1. Init => Awake
    BY DEF Init, Queue!Init, Awake
<1>2. Awake => waiting = {} /\ woken = {}
    BY DEF Awake
<1> QED BY <1>1, <1>2, AwakeStep, PTL DEF Spec

\* The events that others push for the master are handed to it or are still in
\* the queue, each once: the queue of a co-simulation implements Delivery.
THEOREM EventsAreDelivered == Spec => Queue!DeliversOnce
<1>1. QP!Spec => QP!DeliversOnce
    BY QueueAssumption, QP!ImplementsDelivery
<1>2. QP!DeliversOnce => Queue!DeliversOnce
    <2>1. QP!Mailbox!Init => Queue!Mailbox!Init
        BY DEF QP!Mailbox!Init, Queue!Mailbox!Init, QP!Numbers, Queue!Numbers
    <2>2. [QP!Mailbox!Next]_(QP!Mailbox!vars) => [Queue!Mailbox!Next]_(Queue!Mailbox!vars)
        BY DEF QP!Mailbox!Next, Queue!Mailbox!Next, QP!Mailbox!vars, Queue!Mailbox!vars,
               QP!Numbers, Queue!Numbers, QP!Mailbox!Accept, Queue!Mailbox!Accept,
               QP!Mailbox!Deliver, Queue!Mailbox!Deliver, QP!Mailbox!Discard,
               Queue!Mailbox!Discard
    <2> QED BY <2>1, <2>2, PTL
            DEF QP!DeliversOnce, Queue!DeliversOnce, QP!Mailbox!Spec, Queue!Mailbox!Spec
<1> QED BY UsesQueueProofs, <1>1, <1>2, PTL

=============================================================================
