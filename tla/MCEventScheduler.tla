--------------------------- MODULE MCEventScheduler ---------------------------
(* Small instances of EventScheduler.                                      *)
EXTENDS EventScheduler, TLC

CONSTANTS c1, c2

MCClients == {c1, c2}
MCOneClient == {c1}

Once(t, p) ==
    [time |-> t, priority |-> p, guarded |-> FALSE, periodic |-> FALSE,
     period |-> 0, maxRepetitions |-> -1, executed |-> FALSE, cancelled |-> FALSE]

Periodic(t, p, per, max) ==
    [Once(t, p) EXCEPT !.periodic = TRUE, !.period = per, !.maxRepetitions = max]

\* An urgent event of later on, and two periodic ones that are repeated once: one
\* of now that has a precondition, and one with a negative period.
MCEventKinds ==
    {Once(1, 1), [Periodic(0, 5, 1, 1) EXCEPT !.guarded = TRUE],
     Periodic(1, 5, -1, 1)}

MCNewTimes == {1}
MCNoTimes == {}
MCAnyId == 1 .. 6
MCFirstId == {1}
MCNoIds == {}

\* A periodic event without a limit, an urgent one with a period of zero that is
\* repeated once, and an urgent one that is handed in as cancelled.
MCEndlessKinds ==
    {Periodic(0, 5, 1, -1), Periodic(1, 1, 0, 1),
     [Once(0, 1) EXCEPT !.cancelled = TRUE]}

\* An urgent event of later on, and an ordinary one that is due before it.
MCPlainKinds == {Once(2, 1), Once(1, 5)}

Symmetry == Permutations(MCClients)
=============================================================================
