------------------------------- MODULE FmiMaster -------------------------------
(***************************************************************************)
(* The FMI co-simulation master (simulation/fmi/                           *)
(* fmi_co_simulation_master.{h,cpp}) over its FMUs and the event queue of  *)
(* module EventQueue, which other threads push into while it steps.        *)
(*                                                                         *)
(* The master runs on its caller's thread.  What it does between two calls *)
(* of the queue is one action; the queue's own calls are those of          *)
(* EventQueue.  The values of variables and the connections that copy them *)
(* are left out: a failed copy is only logged.  Times are integers, and    *)
(* half of a step is rounded down.                                         *)
(***************************************************************************)
EXTENDS Integers, FiniteSets

CONSTANTS
    NumFmus,          \* the FMUs are numbered from 1
    StopTime,         \* m_config.stopTime; startTime is 0
    StepSizes,        \* the sizes doStep and StepSizeChange events ask for
    MinStep, MaxStep, \* m_config.minStepSize and maxStepSize
    VariableStep,     \* m_config.variableStep
    EventKinds,       \* the events other threads push
    Capacities,       \* the queue's capacities
    MaxEvents, MaxDropped, \* bounds on the events accepted and dropped
    MaxFailures,      \* bound on the FMUs' failures
    MaxCalls          \* bound on the calls of the master

ASSUME FmiMasterAssumption ==
    /\ NumFmus \in Nat \ {0}
    /\ StopTime \in Nat /\ MinStep \in Nat \ {0} /\ MaxStep \in Nat
    /\ MinStep <= MaxStep
    /\ StepSizes \subseteq Nat /\ StepSizes # {}
    /\ VariableStep \in BOOLEAN
    /\ \A k \in EventKinds : k.time \in Nat /\ k.priority \in Nat
    /\ Capacities \subseteq Nat /\ Capacities # {}
    /\ MaxEvents \in Nat /\ MaxDropped \in Nat
    /\ MaxFailures \in Nat /\ MaxCalls \in Nat

Fmus == 1 .. NumFmus

VARIABLES
    \* The event queue:
    queue, maxSize, blocking, enabled, sequence, totalPushed, totalPopped,
    totalDropped, waiting, woken, announced, popped, cleared,
    \* The master:
    pc,               \* where its caller is
    inRun,            \* the caller is in runSimulation
    requested,        \* the step doStep is called with
    actualStep,       \* actualStep
    event,            \* the event popped last
    stepSize,         \* m_config.stepSize
    clock,            \* m_currentTime
    initialized, terminated, running,  \* m_initialized, m_terminated, m_running
    totalSteps, successfulSteps, failedSteps,  \* m_stats
    \* Its FMUs:
    fmuState,         \* m_state of each
    fmuTime,          \* m_currentTime of each
    \* Bookkeeping of the model:
    failures, calls,  \* the bounded failures and calls so far
    stepped,          \* the last step since initialize succeeded
    seen,             \* the events waiting when peek() found one due
    early             \* an event was handled early, but for those allowed below

Queue == INSTANCE EventQueue WITH
    Poppers <- {"master"}, TimedPoppers <- {}, MaxSizes <- Capacities

queueVars == <<queue, maxSize, blocking, enabled, sequence, totalPushed, totalPopped,
               totalDropped, waiting, woken, announced, popped, cleared>>
flagVars == <<initialized, terminated, running>>
statVars == <<totalSteps, successfulSteps, failedSteps>>
fmuVars == <<fmuState, fmuTime>>
stepVars == <<inRun, requested, actualStep, event>>
ghostVars == <<failures, calls, stepped, seen, early>>
vars == <<queueVars, pc, stepVars, stepSize, clock, flagVars, statVars, fmuVars, ghostVars>>

NoEvent == [time |-> 0, type |-> "Unknown", priority |-> 0, sequence |-> 0]

\* The FMUs have been added and instantiated.
Init ==
    /\ Queue!Init
    /\ pc = "idle" /\ inRun = FALSE
    /\ requested = 0 /\ actualStep = 0 /\ event = NoEvent
    /\ stepSize \in StepSizes
    /\ clock = 0
    /\ initialized = FALSE /\ terminated = FALSE /\ running = FALSE
    /\ totalSteps = 0 /\ successfulSteps = 0 /\ failedSteps = 0
    /\ fmuState = [f \in Fmus |-> "Instantiated"] /\ fmuTime = [f \in Fmus |-> 0]
    /\ failures = 0 /\ calls = 0 /\ stepped = FALSE
    /\ seen = {} /\ early = FALSE

-----------------------------------------------------------------------------
(***************************************************************************)
(* The FMUs.                                                               *)
(***************************************************************************)

\* FMUInstance::doStep refuses an FMU in one of these states.
Ended == {"Error", "Terminated"}

\* Mutation: FMUInstance::doStep does not look at the state.
StepFmusUnguarded(done) ==
    /\ fmuState' = [f \in Fmus |-> IF f \in done THEN "StepCompleted" ELSE "StepFailed"]
    /\ fmuTime' = [f \in Fmus |-> IF f \in done THEN clock + actualStep ELSE fmuTime[f]]
    /\ failures' = failures + Cardinality(Fmus \ done)

\* Mutation: an FMU's time is advanced, not set.
StepFmusAdvance(done) ==
    LET live == {f \in Fmus : fmuState[f] \notin Ended}
    IN  /\ done \subseteq live
        /\ fmuState' = [f \in Fmus |-> IF f \in done THEN "StepCompleted"
                                       ELSE IF f \in live THEN "StepFailed"
                                       ELSE fmuState[f]]
        /\ fmuTime' = [f \in Fmus |-> IF f \in done THEN fmuTime[f] + actualStep
                                                    ELSE fmuTime[f]]
        /\ failures' = failures + Cardinality(live \ done)

\* FMUInstance::doStep of every FMU, one after the other or each in a thread:
\* those in "done" succeed.  None is left out because another has failed.
StepFmus(done) ==
    LET live == {f \in Fmus : fmuState[f] \notin Ended}
    IN  /\ done \subseteq live
        /\ fmuState' = [f \in Fmus |-> IF f \in done THEN "StepCompleted"
                                       ELSE IF f \in live THEN "StepFailed"
                                       ELSE fmuState[f]]
        /\ fmuTime' = [f \in Fmus |-> IF f \in done THEN clock + actualStep
                                                    ELSE fmuTime[f]]
        /\ failures' = failures + Cardinality(live \ done)

\* terminate() of the master and of each FMU, whatever the FMU returns.
DoTerminate ==
    /\ terminated' = TRUE
    /\ IF terminated
         THEN UNCHANGED <<initialized, running, fmuState>>
         ELSE /\ initialized' = FALSE /\ running' = FALSE
              /\ fmuState' = [f \in Fmus |-> "Terminated"]

-----------------------------------------------------------------------------
(***************************************************************************)
(* The caller.                                                             *)
(***************************************************************************)

Call ==
    /\ pc = "idle"
    /\ calls < MaxCalls /\ calls' = calls + 1
    /\ UNCHANGED <<queueVars, fmuTime, failures, seen, early, actualStep, event>>

\* What initialize() has done when it returns.
Initialized(states, success) ==
    /\ fmuState' = states
    /\ clock' = 0
    /\ stepSize' \in StepSizes
    /\ totalSteps' = 0 /\ successfulSteps' = 0 /\ failedSteps' = 0
    /\ initialized' = success /\ terminated' = FALSE
    /\ stepped' = FALSE

\* An FMU can be set up only once: a standard one refuses it in any state but
\* the one it is instantiated in.
Initialize ==
    /\ Call
    /\ \A f \in Fmus : fmuState[f] = "Instantiated"
    /\ Initialized([f \in Fmus |-> "Initialized"], TRUE)
    /\ UNCHANGED <<pc, inRun, requested, running>>

\* FMU f fails in one of the three rounds over the FMUs; a failure may put it
\* in the error state.  The FMUs before it have done that round.
InitializeFails(f) ==
    /\ Call
    /\ \E round \in 1 .. 3, broken \in BOOLEAN :
          LET before == <<fmuState, [g \in Fmus |-> "InitializationMode"]>>
              passed == CASE round = 1 -> fmuState[f]
                          [] round = 2 -> "InitializationMode"
                          [] round = 3 -> "Initialized"
              past   == IF round = 3 THEN before[2] ELSE before[1]
          IN  /\ round > 1 => \A g \in Fmus : fmuState[g] = "Instantiated"
              /\ Initialized([g \in Fmus |->
                                CASE g < f /\ round > 1 -> passed
                                  [] g = f /\ broken    -> "Error"
                                  [] OTHER              -> past[g]], FALSE)
    /\ UNCHANGED <<pc, inRun, requested, running>>

RunSimulation ==
    /\ Call
    /\ initialized
    /\ running' = TRUE /\ inRun' = TRUE
    /\ totalSteps' = 0 /\ successfulSteps' = 0 /\ failedSteps' = 0
    /\ pc' = "loop"
    /\ UNCHANGED <<requested, stepSize, clock, initialized, terminated, fmuState, stepped>>

DoStep(size) ==
    /\ Call
    /\ requested' = size
    /\ pc' = "step"
    /\ UNCHANGED <<inRun, stepSize, clock, flagVars, statVars, fmuState, stepped>>

Terminate ==
    /\ Call
    /\ DoTerminate
    /\ UNCHANGED <<pc, inRun, requested, stepSize, clock, statVars, stepped>>

-----------------------------------------------------------------------------
(***************************************************************************)
(* runSimulation and doStep.                                               *)
(***************************************************************************)

EndRun == pc' = "idle" /\ inRun' = FALSE /\ running' = FALSE

\* doStep returns.  runSimulation goes on after a success only: a failed
\* step's actualStepSize is 0, which is never above the smallest step.
Return(success) ==
    IF ~ inRun THEN pc' = "idle" /\ UNCHANGED <<inRun, running>>
    ELSE IF success THEN pc' = "loop" /\ UNCHANGED <<inRun, running>>
    ELSE EndRun

Loop ==
    /\ pc = "loop"
    /\ IF clock < StopTime - MinStep
         THEN pc' = "step" /\ requested' = stepSize /\ UNCHANGED <<inRun, running>>
         ELSE EndRun /\ UNCHANGED requested
    /\ UNCHANGED <<queueVars, actualStep, event, stepSize, clock, initialized, terminated,
                   statVars, fmuVars, ghostVars>>

\* Mutation: the stop time is not looked at.
LeastFirst(a, b) == a

Least(a, b) == IF a < b THEN a ELSE b
Clamp(n) == IF n > MaxStep THEN MaxStep ELSE IF n < MinStep THEN MinStep ELSE n

BeginStep ==
    /\ pc = "step"
    /\ actualStep' = Least(Clamp(requested), StopTime - clock)
    /\ IF ~ initialized \/ terminated
         THEN Return(FALSE) /\ UNCHANGED totalSteps
       ELSE IF actualStep' <= 0
         THEN Return(TRUE) /\ UNCHANGED totalSteps
       ELSE pc' = "events" /\ totalSteps' = totalSteps + 1 /\ UNCHANGED <<inRun, running>>
    /\ UNCHANGED <<queueVars, requested, event, stepSize, clock, initialized, terminated,
                   successfulSteps, failedSteps, fmuVars, ghostVars>>

\* The FMUs are stepped.  A failed step is tried again with half of it, from
\* the same time: the FMUs that succeeded are not taken back.
TakeStep ==
    /\ pc = "fmus"
    /\ \E done \in SUBSET Fmus :
          /\ StepFmus(done)
          /\ failures' <= MaxFailures
          /\ IF done = Fmus
               THEN /\ clock' = clock + actualStep
                    /\ successfulSteps' = successfulSteps + 1
                    /\ stepped' = TRUE
                    /\ Return(TRUE)
                    /\ UNCHANGED <<requested, failedSteps>>
               ELSE /\ failedSteps' = failedSteps + 1
                    /\ stepped' = FALSE
                    /\ IF VariableStep /\ actualStep > 2 * MinStep
                         THEN pc' = "step" /\ requested' = actualStep \div 2
                              /\ UNCHANGED <<inRun, running>>
                         ELSE Return(FALSE) /\ UNCHANGED requested
                    /\ UNCHANGED <<clock, successfulSteps>>
    /\ UNCHANGED <<queueVars, actualStep, event, stepSize, initialized, terminated,
                   totalSteps, calls, seen, early>>

-----------------------------------------------------------------------------
(***************************************************************************)
(* processEvents: empty(), peek() and pop() are calls of their own.        *)
(***************************************************************************)

eventFrame == <<inRun, requested, actualStep, clock, statVars, fmuTime, failures, calls,
                stepped>>

\* Mutation: the loop relies on peek() alone.
AskNothing ==
    /\ pc = "events"
    /\ pc' = "peek"
    /\ UNCHANGED <<eventFrame, queueVars, event, stepSize, flagVars, fmuState, seen, early>>

AskEmpty ==
    /\ pc = "events"
    /\ pc' = IF queue = {} THEN "fmus" ELSE "peek"
    /\ UNCHANGED <<eventFrame, queueVars, event, stepSize, flagVars, fmuState, seen, early>>

\* Mutation: every event is popped, whatever its time.
PeekAny ==
    /\ pc = "peek"
    /\ pc' = "pop" /\ seen' = queue
    /\ UNCHANGED <<eventFrame, queueVars, event, stepSize, flagVars, fmuState, early>>

\* peek() of an empty queue is an event at time 0.
Peek ==
    /\ pc = "peek"
    /\ IF queue = {} \/ Queue!Top(queue).time <= clock
         THEN pc' = "pop" /\ seen' = queue
         ELSE pc' = "fmus" /\ UNCHANGED seen
    /\ UNCHANGED <<eventFrame, queueVars, event, stepSize, flagVars, fmuState, early>>

\* Event e is handled before its time, and not because it is more urgent than
\* every event the master has seen.
TooEarly(e) == e.time > clock /\ \E k \in seen : k.priority <= e.priority

Pop ==
    /\ pc = "pop"
    /\ IF "master" \in waiting \cup woken
         THEN "master" \in woken /\ Queue!Wake("master")
         ELSE Queue!TakeAtOnce("master") \/ Queue!Sleep("master")
    /\ IF queue = {}
         THEN UNCHANGED <<pc, event, seen, early>>
         ELSE /\ pc' = "handle"
              /\ event' = Queue!Top(queue)
              /\ early' = (early \/ TooEarly(Queue!Top(queue)))
              /\ seen' = {}
    /\ UNCHANGED <<eventFrame, stepSize, flagVars, fmuState>>

\* An event of any type but StepSizeChange and Terminate sets a variable or
\* does nothing.  doStep does not look at what processEvents returns.
HandleEvent ==
    /\ pc = "handle"
    /\ event' = NoEvent
    /\ IF event.type = "Terminate"
         THEN DoTerminate /\ pc' = "fmus"
         ELSE pc' = "events" /\ UNCHANGED <<flagVars, fmuState>>
    /\ IF event.type = "StepSizeChange"
         THEN stepSize' \in {Clamp(n) : n \in StepSizes}
         ELSE UNCHANGED stepSize
    /\ UNCHANGED <<eventFrame, queueVars, seen, early>>

-----------------------------------------------------------------------------
\* Another thread pushes.  The master is the queue's only consumer, and
\* nobody empties or disables it.
Produce ==
    /\ Queue!Produce
    /\ UNCHANGED <<pc, stepVars, stepSize, clock, flagVars, statVars, fmuVars, ghostVars>>

Master ==
    \/ Loop \/ BeginStep \/ TakeStep
    \/ AskEmpty \/ Peek \/ Pop \/ HandleEvent

Next ==
    \/ Master
    \/ Initialize \/ \E f \in Fmus : InitializeFails(f)
    \/ RunSimulation
    \/ \E n \in StepSizes : DoStep(n)
    \/ Terminate
    \/ Produce

Spec == Init /\ [][Next]_vars

\* The caller's thread goes on inside a call of the master, and an FMU's
\* doStep returns.
FairSpec == Spec /\ WF_vars(Master)

-----------------------------------------------------------------------------
(***************************************************************************)
(* Properties.                                                             *)
(***************************************************************************)

\* Types, and the queue's own type invariant.
TypeOK ==
    /\ Queue!TypeOK
    /\ pc \in {"idle", "loop", "step", "events", "peek", "pop", "handle", "fmus"}
    /\ inRun \in BOOLEAN /\ initialized \in BOOLEAN
    /\ terminated \in BOOLEAN /\ running \in BOOLEAN
    /\ requested \in Nat /\ stepSize \in Nat
    /\ actualStep \in 0 .. MaxStep
    /\ event \in Queue!Event \cup {NoEvent}
    /\ clock \in 0 .. StopTime
    /\ totalSteps \in Nat /\ successfulSteps \in Nat /\ failedSteps \in Nat
    /\ fmuState \in [Fmus -> {"Instantiated", "InitializationMode", "Initialized",
                              "StepCompleted", "StepFailed", "Terminated", "Error"}]
    /\ fmuTime \in [Fmus -> 0 .. StopTime]
    /\ failures \in 0 .. MaxFailures /\ calls \in 0 .. MaxCalls
    /\ stepped \in BOOLEAN /\ early \in BOOLEAN /\ seen \subseteq Queue!Event

\* The event that is popped need not be the one that peek() found due.  One that
\* is handled before its time was not there yet, and is more urgent than all that
\* were: a Critical event of the future can come in between, nothing else can.
EventsOnTime == ~ early

\* After a step that succeeded, also after one that was tried again with a
\* smaller size, every FMU is where the master is; and each step that was
\* begun has been counted once, as a success or as a failure.
InStep ==
    /\ stepped /\ pc \in {"idle", "loop"} => \A f \in Fmus : fmuTime[f] = clock
    /\ totalSteps = successfulSteps + failedSteps
                    + IF pc \in {"events", "peek", "pop", "handle", "fmus"} THEN 1 ELSE 0

\* What has ended stays where it is: an FMU that was terminated or is in
\* error never steps again, and a Terminate event stops the clock although
\* the step it arrives in goes on.
EndedStay ==
    [][/\ \A f \in Fmus : fmuState[f] \in Ended => fmuTime'[f] = fmuTime[f]
       /\ terminated /\ terminated' => clock' = clock]_vars

\* runSimulation() and doStep() return: retries come to an end, steps advance,
\* and pop() never waits for an event that nobody pushes.
RunEnds == pc # "idle" ~> pc = "idle"
=============================================================================
