---------------------------- MODULE MCAlarmManager ----------------------------
(* Small instances of AlarmManager.                                        *)
EXTENDS AlarmManager

Rule3(kind, low, high, deadband, loud) ==
    [kind |-> kind, point |-> "p", low |-> low, high |-> high,
     deadband |-> deadband, enabled |-> TRUE, loud |-> loud]

\* 0 clears it, 2 is in its hysteresis, 4 and 6 meet it and are farther apart
\* than its deadband.
MCOver == {Rule3("over", 0, 3, 2, TRUE)}
\* The same and an undervoltage rule that 4 meets and 6 does not clear.
MCBoth == MCOver \cup {Rule3("under", 5, 0, 2, FALSE)}
\* Without a sound or a deadband: every measurement that meets it makes an
\* alarm, and 0 clears it.
MCEager == {Rule3("over", 0, 3, 0, FALSE)}

MCOneRule == {1}
MCPoints == {"p"}
MCValues == {0, 4, 6}
MCTwoValues == {0, 4}
=============================================================================
