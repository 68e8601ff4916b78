--------------------------- MODULE MCAlarmEngine ---------------------------
EXTENDS AlarmEngine

CONSTANTS temp, product

Upper(warning, critical) ==
    [criticalHigh |-> critical, warningHigh |-> warning, warningLow |-> Unset,
     criticalLow |-> Unset, deadbandPct |-> 1]

\* Limits on temp, stricter while product reads 200; product is a virtual tag
\* without limits of its own.
MCTagConfigs ==
    [t \in {temp, product} |->
       IF t = product THEN {}
       ELSE {[default |-> Upper(100, 200), conditionTag |-> product,
              profiles |-> [v \in {200} |-> Upper(Unset, 99)]]}]

\* 99 is normal for a quiet tag and inside the deadband of an active warning.
MCValues == {0, 99, 200}
MCViews == {{product}, {temp, product}}
=============================================================================
