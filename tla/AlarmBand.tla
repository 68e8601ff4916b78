----------------------------- MODULE AlarmBand -----------------------------
(***************************************************************************)
(* One tag under fixed limits: poll cycle after poll cycle its value is    *)
(* graded again, and the grade of the last cycle decides whether the       *)
(* deadband applies (evaluate_alarms in admin/poller.py).  The question is *)
(* whether the deadband does what it is there for.                         *)
(***************************************************************************)
EXTENDS AlarmThresholds

CONSTANTS BandValues,          \* the numeric values a tag may be read with
          LimitChoices     \* the limit records an administrator may submit

ASSUME BandAssumption ==
    /\ BandValues \subseteq Int
    /\ Unset \notin Int
    /\ LimitChoices \subseteq Thresholds

VARIABLES limits,    \* alarmThresholds of the tag
          value,     \* value in the last evaluated cycle
          alarm      \* "normal", or the severity of the active alarm

bandVars == <<limits, value, alarm>>

BandTypeOK ==
    /\ limits \in LimitChoices
    /\ value \in BandValues
    /\ alarm \in Severities \cup {"normal"}

BandInit ==
    /\ limits \in {th \in LimitChoices : Accepted(th)}
    /\ value \in BandValues
    /\ alarm = Severity(limits, value, FALSE)

Evaluate(v) ==
    /\ value' = v
    /\ alarm' = Severity(limits, v, alarm # "normal")
    /\ UNCHANGED limits

BandNext == \E v \in BandValues : Evaluate(v)

BandSpec == BandInit /\ [][BandNext]_bandVars

-----------------------------------------------------------------------------
\* The limits a value is at or past, of a high and a low one, without deadband.
Crossed(v, high, low) ==
    {h \in {high} : AtOrAbove(h, v, 0, FALSE)} \cup {l \in {low} : AtOrBelow(l, v, 0, FALSE)}

CriticalCrossed(v) == Crossed(v, limits.criticalHigh, limits.criticalLow)
LimitsCrossed(v) == CriticalCrossed(v) \cup Crossed(v, limits.warningHigh, limits.warningLow)

\* Below zero the deadband points out of the band: it is a share of the limit.
OnlyBelowZero(reached) == reached # {} /\ \A limit \in reached : limit < 0

\* The deadband prevents chatter: while the value does not move, an active
\* alarm is not cleared by the next evaluation, unless every limit the value
\* has reached is below zero (the validation accepts such limits).
NoChatter ==
    [][value' = value /\ alarm # "normal"
          => alarm' # "normal" \/ OnlyBelowZero(LimitsCrossed(value))]_bandVars

\* Hysteresis holds alarms back from clearing, never from escalating: a value
\* past a critical limit is graded critical whatever alarm is active, unless
\* every critical limit it has reached is below zero.
CriticalNotMasked ==
    [][Severity(limits, value', FALSE) = "critical"
          => alarm' = "critical" \/ OnlyBelowZero(CriticalCrossed(value'))]_bandVars

\* A value strictly between the two warning limits raises nothing, on every
\* limit record the API accepts: the critical limits cannot lie inside the band.
InsideBandNoAlarm ==
    \A v \in BandValues :
        /\ limits.warningLow # Unset /\ limits.warningHigh # Unset
        /\ limits.warningLow < v /\ v < limits.warningHigh
        => Severity(limits, v, FALSE) = "normal"
=============================================================================
