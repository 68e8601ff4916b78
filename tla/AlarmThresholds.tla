-------------------------- MODULE AlarmThresholds --------------------------
(***************************************************************************)
(* The pure part of the alarm engine: which limits the API accepts for a   *)
(* tag (admin/routes/device_routes.py), which of a tag's limits are in     *)
(* force in a poll cycle, and how a value is graded against them           *)
(* (admin/poller.py, evaluate_alarms).                                     *)
(*                                                                         *)
(* A limit is an integer or Unset.  The deadband is a percentage, so the   *)
(* code's comparison  value >= th * (1 - deadbandPct)  is the integer      *)
(* comparison  100 * value >= th * (100 - deadbandPct): no rounding.       *)
(***************************************************************************)
EXTENDS Integers

CONSTANTS Unset,      \* an absent limit
          Offline,    \* a tag that was not read "ok" with a numeric value
          NoTag       \* an absent conditionTag

Limit == Int \cup {Unset}

Thresholds == [criticalHigh : Limit, warningHigh : Limit,
               warningLow : Limit, criticalLow : Limit, deadbandPct : 0..100]

Severities == {"critical", "warning"}

-----------------------------------------------------------------------------
\* a <= b wherever both limits are set
Ordered(a, b) == (a # Unset /\ b # Unset) => a <= b

\* What _validate_threshold_values lets through: only adjacent pairs that are
\* both present are compared.
Accepted(th) ==
    /\ Ordered(th.criticalLow, th.warningLow)
    /\ Ordered(th.warningHigh, th.criticalHigh)
    /\ Ordered(th.warningLow, th.warningHigh)

\* resolve_thresholds: the profile whose whenValue is the condition tag's live
\* value, else the tag's own limits.
Resolve(tagCfg, reading) ==
    IF /\ tagCfg.conditionTag # NoTag
       /\ reading[tagCfg.conditionTag] # Offline
       /\ reading[tagCfg.conditionTag] \in DOMAIN tagCfg.profiles
    THEN tagCfg.profiles[reading[tagCfg.conditionTag]]
    ELSE tagCfg.default

-----------------------------------------------------------------------------
\* A slip in a hysteresis helper, for the mutation check.
Slip_DeadbandOutward(limit, value, pct, active) ==
    limit # Unset /\ 100 * value >= limit * (IF active THEN 100 + pct ELSE 100)

\* _hyst_high / _hyst_low: an active alarm holds until the value has moved back
\* past the limit by the deadband.
AtOrAbove(limit, value, pct, active) ==
    limit # Unset /\ 100 * value >= limit * (IF active THEN 100 - pct ELSE 100)

AtOrBelow(limit, value, pct, active) ==
    limit # Unset /\ 100 * value <= limit * (IF active THEN 100 + pct ELSE 100)

\* Slip, for the mutation check: the warning limits tested before the critical ones.
Slip_WarningFirst(th, value, active) ==
    IF \/ AtOrAbove(th.warningHigh, value, th.deadbandPct, active)
       \/ AtOrBelow(th.warningLow, value, th.deadbandPct, active)
    THEN "warning"
    ELSE IF \/ AtOrAbove(th.criticalHigh, value, th.deadbandPct, active)
            \/ AtOrBelow(th.criticalLow, value, th.deadbandPct, active)
         THEN "critical" ELSE "normal"

\* The severity evaluate_alarms assigns to a value; active says whether some
\* alarm, of either severity, is already raised for the tag.
Severity(th, value, active) ==
    IF \/ AtOrAbove(th.criticalHigh, value, th.deadbandPct, active)
       \/ AtOrBelow(th.criticalLow, value, th.deadbandPct, active)
    THEN "critical"
    ELSE IF \/ AtOrAbove(th.warningHigh, value, th.deadbandPct, active)
            \/ AtOrBelow(th.warningLow, value, th.deadbandPct, active)
         THEN "warning" ELSE "normal"

\* The side it is on: at either severity the high limit is tested first.
Condition(th, value, active) ==
    IF \/ AtOrAbove(th.criticalHigh, value, th.deadbandPct, active)
       \/ /\ Severity(th, value, active) = "warning"
          /\ AtOrAbove(th.warningHigh, value, th.deadbandPct, active)
    THEN "high" ELSE "low"
=============================================================================
