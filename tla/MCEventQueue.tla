----------------------------- MODULE MCEventQueue -----------------------------
(* Small instances of EventQueue.                                          *)
EXTENDS EventQueue, TLC

CONSTANTS p1, p2, t1

MCPoppers == {p1, p2}
MCTimedPoppers == {t1}

\* An urgent late event and an ordinary early one.
MCEventKinds ==
    {[time |-> 2, type |-> "StateEvent", priority |-> 0],
     [time |-> 1, type |-> "TimeEvent", priority |-> 2]}

MCMaxSizes == {1, 3}

=============================================================================
