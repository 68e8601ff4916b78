---------------------------- MODULE MCAlarmBand ----------------------------
EXTENDS AlarmBand

\* Limit records over a few limits each, the default deadband (1 %) and a wide one.
MCChoices(ls, pcts) ==
    [criticalHigh : ls, warningHigh : ls, warningLow : ls,
     criticalLow : ls, deadbandPct : pcts]

\* Limits below, at and above zero.
MCLimits == MCChoices({Unset, -100, 0, 100, 200}, {1, 10})

MCValues == {-111, -110, -109, -102, -101, -100, -99, -98, -90, -89, -1, 0, 1, 50, 89, 90, 98, 99, 100, 101, 110, 111, 150, 180, 198, 199, 200, 201}
=============================================================================
