---------------------------- MODULE AlarmProofs -----------------------------
(***************************************************************************)
(* Theorems about alarms: the deadband of one tag under fixed limits       *)
(* (AlarmBand), for every set of values and limit records; then the alarm  *)
(* engine (AlarmEngine), for any sets of tags, values, limits and          *)
(* operators and any bounds.                                               *)
(***************************************************************************)
EXTENDS AlarmEngine, AlarmBand, TLAPS

-----------------------------------------------------------------------------
(* AlarmBand.                                                              *)

\* At or above zero the deadband points inward: a value past a limit is past it
\* for an active alarm too.
LEMMA DeadbandInward ==
    ASSUME NEW limit \in Limit, limit = Unset \/ limit >= 0, Unset \notin Int,
           NEW v \in Int, NEW pct \in 0..100
    PROVE  /\ AtOrAbove(limit, v, pct, FALSE) => AtOrAbove(limit, v, pct, TRUE)
           /\ AtOrBelow(limit, v, pct, FALSE) => AtOrBelow(limit, v, pct, TRUE)
<1>1. CASE limit = Unset
  BY <1>1 DEF AtOrAbove, AtOrBelow
<1>2. CASE limit # Unset
  <2>1. limit \in Nat
    BY <1>2 DEF Limit
  <2>2. limit * pct >= 0
    BY <2>1
  <2>3. /\ limit * (100 - pct) = limit * 100 - limit * pct
        /\ limit * (100 + pct) = limit * 100 + limit * pct
    BY <2>1
  <2>4. limit * (100 - pct) <= limit * 100 /\ limit * 100 <= limit * (100 + pct)
    BY <2>1, <2>2, <2>3
  <2> DEFINE lo == limit * (100 - pct)  hi == limit * (100 + pct)
  <2>5. lo \in Int /\ hi \in Int
    BY <2>1
  <2> QED BY <2>1, <2>4, <2>5 DEF AtOrAbove, AtOrBelow
<1> QED BY <1>1, <1>2

LEMMA NotCrossed ==
    ASSUME NEW high \in Limit, NEW low \in Limit, NEW v \in Int, NEW pct \in 0..100,
           ~AtOrAbove(high, v, pct, FALSE), ~AtOrBelow(low, v, pct, FALSE)
    PROVE  Crossed(v, high, low) = {}
BY DEF Crossed, AtOrAbove, AtOrBelow

\* When a value has reached one of two limits, it is past one of them for an
\* active alarm too, unless those it has reached are below zero.
LEMMA CrossedIsKept ==
    ASSUME NEW high \in Limit, NEW low \in Limit, Unset \notin Int,
           NEW v \in Int, NEW pct \in 0..100,
           AtOrAbove(high, v, pct, FALSE) \/ AtOrBelow(low, v, pct, FALSE)
    PROVE  /\ Crossed(v, high, low) # {}
           /\ \/ AtOrAbove(high, v, pct, TRUE) \/ AtOrBelow(low, v, pct, TRUE)
              \/ OnlyBelowZero(Crossed(v, high, low))
<1>1. /\ AtOrAbove(high, v, pct, FALSE) <=> AtOrAbove(high, v, 0, FALSE)
      /\ AtOrBelow(low, v, pct, FALSE) <=> AtOrBelow(low, v, 0, FALSE)
  BY DEF AtOrAbove, AtOrBelow
<1>2. /\ AtOrAbove(high, v, pct, FALSE) => high \in Int /\ high \in Crossed(v, high, low)
      /\ AtOrBelow(low, v, pct, FALSE) => low \in Int /\ low \in Crossed(v, high, low)
  BY <1>1 DEF Crossed, AtOrAbove, AtOrBelow, Limit
<1>3. CASE OnlyBelowZero(Crossed(v, high, low))
  BY <1>2, <1>3
<1>4. CASE ~OnlyBelowZero(Crossed(v, high, low))
  <2>1. PICK limit \in Crossed(v, high, low) : ~(limit < 0)
    BY <1>2, <1>4 DEF OnlyBelowZero
  <2>2. CASE limit = high /\ AtOrAbove(high, v, pct, FALSE)
    <3>1. high >= 0
      BY <1>2, <2>1, <2>2
    <3> QED
      BY <1>2, <2>2, <3>1, DeadbandInward
  <2>3. CASE limit = low /\ AtOrBelow(low, v, pct, FALSE)
    <3>1. low >= 0
      BY <1>2, <2>1, <2>3
    <3> QED
      BY <1>2, <2>3, <3>1, DeadbandInward
  <2> QED
    BY <1>1, <2>1, <2>2, <2>3 DEF Crossed
<1> QED BY <1>3, <1>4

\* The fields of a limit record.
LEMMA Fields ==
    ASSUME BandTypeOK
    PROVE  /\ limits.criticalHigh \in Limit /\ limits.criticalLow \in Limit
           /\ limits.warningHigh \in Limit /\ limits.warningLow \in Limit
           /\ limits.deadbandPct \in 0..100 /\ value \in Int /\ Unset \notin Int
<1>1. limits \in Thresholds /\ value \in Int /\ Unset \notin Int
  BY BandAssumption DEF BandTypeOK
<1> QED
  BY <1>1 DEF Thresholds

\* So what raises a critical alarm keeps it critical,
LEMMA CriticalIsKept ==
    ASSUME BandTypeOK, NEW v \in Int, Severity(limits, v, FALSE) = "critical"
    PROVE  Severity(limits, v, TRUE) = "critical" \/ OnlyBelowZero(CriticalCrossed(v))
<1>1. \/ AtOrAbove(limits.criticalHigh, v, limits.deadbandPct, FALSE)
      \/ AtOrBelow(limits.criticalLow, v, limits.deadbandPct, FALSE)
  BY DEF Severity
<1>2. \/ AtOrAbove(limits.criticalHigh, v, limits.deadbandPct, TRUE)
      \/ AtOrBelow(limits.criticalLow, v, limits.deadbandPct, TRUE)
      \/ OnlyBelowZero(CriticalCrossed(v))
  BY <1>1, Fields, CrossedIsKept DEF CriticalCrossed
<1> QED
  BY <1>2 DEF Severity

\* and what raises an alarm keeps one raised.
LEMMA RaisedIsKept ==
    ASSUME BandTypeOK, NEW v \in Int, Severity(limits, v, FALSE) # "normal"
    PROVE  Severity(limits, v, TRUE) # "normal" \/ OnlyBelowZero(LimitsCrossed(v))
<1> DEFINE critical == Crossed(v, limits.criticalHigh, limits.criticalLow)
           warning == Crossed(v, limits.warningHigh, limits.warningLow)
           past(high, low, on) == \/ AtOrAbove(high, v, limits.deadbandPct, on)
                                  \/ AtOrBelow(low, v, limits.deadbandPct, on)
<1>1. SUFFICES ASSUME Severity(limits, v, TRUE) = "normal"
               PROVE  OnlyBelowZero(LimitsCrossed(v))
  OBVIOUS
<1>2. ~past(limits.criticalHigh, limits.criticalLow, TRUE)
      /\ ~past(limits.warningHigh, limits.warningLow, TRUE)
  BY <1>1 DEF Severity
<1>3. past(limits.criticalHigh, limits.criticalLow, FALSE)
      \/ past(limits.warningHigh, limits.warningLow, FALSE)
  BY DEF Severity
<1>4. critical = {} \/ OnlyBelowZero(critical)
  BY <1>2, Fields, NotCrossed, CrossedIsKept
<1>5. warning = {} \/ OnlyBelowZero(warning)
  BY <1>2, Fields, NotCrossed, CrossedIsKept
<1>6. critical # {} \/ warning # {}
  BY <1>3, Fields, CrossedIsKept
<1> QED
  BY <1>4, <1>5, <1>6 DEF OnlyBelowZero, LimitsCrossed, CriticalCrossed

LEMMA TypeStep == BandTypeOK /\ [BandNext]_bandVars => BandTypeOK'
  BY DEF BandTypeOK, BandNext, Evaluate, bandVars, Severity, Severities

LEMMA TypeStart == BandInit => BandTypeOK
  BY DEF BandTypeOK, BandInit, Severity, Severities

\* Limits, value and grade keep their types.
THEOREM BandTypes == BandSpec => []BandTypeOK
  BY TypeStart, TypeStep, PTL DEF BandSpec

\* The value that raised or held the alarm of the last cycle would hold it again.
Holds ==
    alarm # "normal" =>
        Severity(limits, value, TRUE) # "normal" \/ OnlyBelowZero(LimitsCrossed(value))

\* An alarm whose value does not move is never cleared, so the deadband does
\* what docs/INSTALLATION.md says of it, unless all the limits the value has
\* reached are below zero, which _validate_threshold_values lets through.
THEOREM DeadbandPreventsChatter == BandSpec => NoChatter
<1>1. BandInit /\ BandTypeOK => Holds
  BY Fields, RaisedIsKept DEF BandInit, Holds
<1>2. BandTypeOK /\ BandTypeOK' /\ Holds /\ [BandNext]_bandVars => Holds'
  <2> SUFFICES ASSUME BandTypeOK, BandTypeOK', Holds, [BandNext]_bandVars PROVE Holds'
    OBVIOUS
  <2>1. limits' = limits
    BY DEF BandNext, Evaluate, bandVars
  <2>2. CASE UNCHANGED bandVars
    BY <2>2 DEF bandVars, Holds, LimitsCrossed, CriticalCrossed
  <2>3. ASSUME NEW v \in BandValues, Evaluate(v)
        PROVE  Holds'
    <3>1. value' = v /\ alarm' = Severity(limits, v, alarm # "normal") /\ v \in Int
      BY <2>3, BandAssumption DEF Evaluate
    <3>2. CASE alarm # "normal"
      BY <2>1, <3>1, <3>2 DEF Holds
    <3>3. CASE alarm = "normal"
      <4>1. alarm' = Severity(limits, v, FALSE)
        BY <3>1, <3>3
      <4>2. alarm' # "normal" =>
               Severity(limits, v, TRUE) # "normal" \/ OnlyBelowZero(LimitsCrossed(v))
        BY <3>1, <4>1, RaisedIsKept
      <4> QED
        BY <2>1, <3>1, <4>2 DEF Holds, LimitsCrossed, CriticalCrossed
    <3> QED BY <3>2, <3>3
  <2> QED BY <2>2, <2>3 DEF BandNext
<1>3. Holds /\ [BandNext]_bandVars
      => [value' = value /\ alarm # "normal"
             => alarm' # "normal" \/ OnlyBelowZero(LimitsCrossed(value))]_bandVars
  <2> SUFFICES ASSUME Holds, NEW v \in BandValues, Evaluate(v), value' = value, alarm # "normal"
               PROVE  alarm' # "normal" \/ OnlyBelowZero(LimitsCrossed(value))
    BY DEF BandNext
  <2> QED BY DEF Evaluate, Holds
<1> QED BY <1>1, <1>2, <1>3, TypeStart, TypeStep, PTL DEF BandSpec, NoChatter

\* A value past a critical limit is graded critical, whatever alarm is active,
\* unless all the critical limits it has reached are below zero.
THEOREM CriticalIsNeverMasked == BandSpec => CriticalNotMasked
<1> DEFINE Unmasked ==
        Severity(limits, value', FALSE) = "critical"
            => alarm' = "critical" \/ OnlyBelowZero(CriticalCrossed(value'))
<1>1. BandTypeOK /\ [BandNext]_bandVars => [Unmasked]_bandVars
  <2> SUFFICES ASSUME BandTypeOK, NEW v \in BandValues, Evaluate(v),
                      Severity(limits, value', FALSE) = "critical"
               PROVE  alarm' = "critical" \/ OnlyBelowZero(CriticalCrossed(value'))
    BY DEF BandNext
  <2>1. value' = v /\ alarm' = Severity(limits, v, alarm # "normal") /\ v \in Int
    BY BandAssumption DEF Evaluate
  <2>2. CASE alarm # "normal"
    BY <2>1, <2>2, CriticalIsKept
  <2>3. CASE alarm = "normal"
    BY <2>1, <2>3
  <2> QED BY <2>2, <2>3
<1> QED BY <1>1, TypeStart, TypeStep, PTL DEF BandSpec, CriticalNotMasked

\* Between the two warning limits nothing is raised, on every record the
\* validation accepts, signed limits too.
THEOREM QuietInsideBand == BandSpec => []InsideBandNoAlarm
<1> DEFINE Valid == Accepted(limits)
<1>1. BandInit => Valid
  BY DEF BandInit
<1>2. Valid /\ [BandNext]_bandVars => Valid'
  BY DEF BandNext, Evaluate, bandVars
<1>3. BandTypeOK /\ Valid => InsideBandNoAlarm
  <2> SUFFICES ASSUME BandTypeOK, Valid, NEW v \in BandValues,
                      limits.warningLow # Unset, limits.warningHigh # Unset,
                      limits.warningLow < v, v < limits.warningHigh
               PROVE  Severity(limits, v, FALSE) = "normal"
    BY DEF InsideBandNoAlarm
  <2> DEFINE low == limits.warningLow  high == limits.warningHigh
             bottom == limits.criticalLow  top == limits.criticalHigh
  <2>1. /\ v \in Int /\ low \in Int /\ high \in Int
        /\ bottom \in Int \cup {Unset} /\ top \in Int \cup {Unset}
    BY BandAssumption DEF BandTypeOK, Thresholds, Limit
  <2>2. (bottom # Unset => bottom <= low) /\ (top # Unset => high <= top)
    BY DEF Accepted, Ordered
  <2>3. ~ AtOrAbove(high, v, limits.deadbandPct, FALSE) /\ ~ AtOrBelow(low, v, limits.deadbandPct, FALSE)
    BY <2>1 DEF AtOrAbove, AtOrBelow
  <2>4. ~ AtOrAbove(top, v, limits.deadbandPct, FALSE)
    BY <2>1, <2>2 DEF AtOrAbove
  <2>5. ~ AtOrBelow(bottom, v, limits.deadbandPct, FALSE)
    BY <2>1, <2>2 DEF AtOrBelow
  <2> QED BY <2>3, <2>4, <2>5 DEF Severity
<1> QED BY <1>1, <1>2, <1>3, TypeStart, TypeStep, PTL DEF BandSpec

-----------------------------------------------------------------------------
(* AlarmEngine.                                                            *)

-----------------------------------------------------------------------------
(* Type correctness.  The only part that is not local to a step is that an *)
(* occurrence number stays within its bound: Poll checked the bound, and   *)
(* the tag's alarm has not changed since, except for its acknowledged flag.*)

Bounded ==
    \A t \in Tags :
        /\ pc = "polled" \/ (pc = "evaluating" /\ t \in todo)
        /\ StartsOccurrence(t, cycleConfig[t], reading)
        => raised[t] < MaxOccurrences

TypeInv == TypeOK /\ Bounded

\* A severity is one of the three grades.
LEMMA SeverityType ==
    ASSUME NEW th, NEW v, NEW act
    PROVE  Severity(th, v, act) \in Severities \cup {"normal"}
  BY DEF Severity, Severities

\* A condition is one of the two sides.
LEMMA ConditionType ==
    ASSUME NEW th, NEW v, NEW act
    PROVE  Condition(th, v, act) \in {"high", "low"}
  BY DEF Condition

\* Reading the flags changes no alarm but for its flag.
LEMMA FlaggedAlarm ==
    ASSUME NEW a \in Alarm
    PROVE  /\ [a EXCEPT !.acknowledged = TRUE] \in Alarm
           /\ [a EXCEPT !.acknowledged = TRUE].id = a.id
           /\ [a EXCEPT !.acknowledged = TRUE].severity = a.severity
           /\ [a EXCEPT !.acknowledged = TRUE].condition = a.condition
           /\ [a EXCEPT !.acknowledged = TRUE].acknowledged = TRUE
           /\ [a EXCEPT !.acknowledged = TRUE] # NoAlarm
  BY EngineAssumption DEF Alarm

\* A new alarm is a well-formed alarm with a new number.
LEMMA NewAlarmType ==
    ASSUME TypeOK, NEW t \in Tags, NewAlarm(t), raised[t] < MaxOccurrences,
           Grade(t, cycleConfig[t], reading) # "normal"
    PROVE  /\ raised' \in [Tags -> 0..MaxOccurrences]
           /\ active' \in [Tags -> Alarm \cup {NoAlarm}]
           /\ raised'[t] = raised[t] + 1
           /\ active'[t] \in Alarm
           /\ active'[t].id = raised[t] + 1
           /\ active'[t].acknowledged = FALSE
           /\ \A u \in Tags : u # t => active'[u] = active[u] /\ raised'[u] = raised[u]
<1> DEFINE new == [id |-> raised[t] + 1, severity |-> Grade(t, cycleConfig[t], reading),
                   condition |-> Condition(Resolve(cycleConfig[t], reading), reading[t],
                                           active[t] # NoAlarm),
                   acknowledged |-> FALSE]
<1>1. raised[t] + 1 \in Occurrences
  BY EngineAssumption DEF TypeOK, Occurrences
<1>2. Grade(t, cycleConfig[t], reading) \in Severities
  BY SeverityType DEF Grade
<1>3. new \in Alarm
  BY <1>1, <1>2, ConditionType DEF Alarm
<1>4. active' = [active EXCEPT ![t] = new] /\ raised' = [raised EXCEPT ![t] = @ + 1]
  BY DEF NewAlarm
<1>5. new.id = raised[t] + 1 /\ new.acknowledged = FALSE
  OBVIOUS
<1> HIDE DEF new
<1>6. active' \in [Tags -> Alarm \cup {NoAlarm}] /\ active'[t] = new
      /\ \A u \in Tags : u # t => active'[u] = active[u]
  BY <1>3, <1>4 DEF TypeOK
<1>7. raised' \in [Tags -> 0..MaxOccurrences] /\ raised'[t] = raised[t] + 1
      /\ \A u \in Tags : u # t => raised'[u] = raised[u]
  BY <1>4, <1>1 DEF TypeOK, Occurrences
<1> QED BY <1>3, <1>5, <1>6, <1>7

\* An insert into alarm_history keeps the types and touches no other alarm.
LEMMA InsertType ==
    ASSUME TypeOK, NEW t \in Tags, InsertHistory(t), active[t] \in Alarm
    PROVE  /\ history' \in [Tags -> [Occurrences -> Nat]]
           /\ ackedInHistory' \in [Tags -> SUBSET Occurrences]
           /\ lost' \in [Tags -> SUBSET Occurrences]
           /\ faults' \in 0..MaxFaults
<1>1. active[t].id \in Occurrences
  BY DEF Alarm
<1>2. CASE /\ history' = [history EXCEPT ![t][active[t].id] = @ + 1]
           /\ ackedInHistory' = IF active[t].acknowledged
                                THEN [ackedInHistory EXCEPT ![t] = @ \cup {active[t].id}]
                                ELSE ackedInHistory
           /\ UNCHANGED <<lost, faults>>
  BY <1>1, <1>2 DEF TypeOK
<1>3. CASE /\ Fault
           /\ lost' = [lost EXCEPT ![t] = @ \cup {active[t].id}]
           /\ UNCHANGED <<history, ackedInHistory>>
  BY <1>1, <1>3, EngineAssumption DEF TypeOK, Fault
<1> QED BY <1>2, <1>3 DEF InsertHistory

\* An acknowledging UPDATE keeps the types and every row but for its flag.
LEMMA AckRowsType ==
    ASSUME TypeOK, NEW S \in SUBSET Tags, \A t \in S : table[t] # NoAlarm, AckRows(S)
    PROVE  /\ table' \in [Tags -> Alarm \cup {NoAlarm}]
           /\ acked' \in [Tags -> SUBSET Occurrences]
           /\ late' \subseteq Tags
           /\ \A t \in Tags :
                /\ table[t] = NoAlarm <=> table'[t] = NoAlarm
                /\ table[t] # NoAlarm => /\ table'[t].id = table[t].id
                                         /\ table'[t].severity = table[t].severity
                                         /\ table[t].acknowledged => table'[t].acknowledged
                /\ acked[t] \subseteq acked'[t]
                /\ t \in S => table[t].id \in acked'[t]
                /\ t \notin S => table'[t] = table[t]
<1>1. \A t \in S : table[t] \in Alarm
  BY DEF TypeOK
<1>2. \A t \in S : table[t].id \in Occurrences
  BY <1>1 DEF Alarm
<1>3. \A t \in S : /\ [table[t] EXCEPT !.acknowledged = TRUE] \in Alarm
                   /\ [table[t] EXCEPT !.acknowledged = TRUE].id = table[t].id
                   /\ [table[t] EXCEPT !.acknowledged = TRUE].severity = table[t].severity
                   /\ [table[t] EXCEPT !.acknowledged = TRUE].acknowledged = TRUE
                   /\ [table[t] EXCEPT !.acknowledged = TRUE] # NoAlarm
  BY <1>1, FlaggedAlarm
<1>4. table' = [t \in Tags |-> IF t \in S THEN [table[t] EXCEPT !.acknowledged = TRUE]
                               ELSE table[t]]
  BY DEF AckRows
<1>5. \A t \in Tags : table'[t] = IF t \in S THEN [table[t] EXCEPT !.acknowledged = TRUE]
                                  ELSE table[t]
  BY <1>4
<1>6. table' \in [Tags -> Alarm \cup {NoAlarm}]
  BY <1>4, <1>3 DEF TypeOK
<1>7. acked' = [t \in Tags |-> IF t \in S THEN acked[t] \cup {table[t].id} ELSE acked[t]]
      /\ late' = late \cup S
  BY DEF AckRows
<1>8. acked' \in [Tags -> SUBSET Occurrences]
  BY <1>7, <1>2 DEF TypeOK
<1>9. late' \subseteq Tags
  BY <1>7 DEF TypeOK
<1>10. ASSUME NEW t \in Tags
       PROVE  /\ table[t] = NoAlarm <=> table'[t] = NoAlarm
              /\ table[t] # NoAlarm => /\ table'[t].id = table[t].id
                                       /\ table'[t].severity = table[t].severity
                                       /\ table[t].acknowledged => table'[t].acknowledged
              /\ t \notin S => table'[t] = table[t]
  <2>1. CASE t \in S
    BY <2>1, <1>3, <1>5
  <2>2. CASE t \notin S
    BY <2>2, <1>5
  <2> QED BY <2>1, <2>2
<1>11. \A t \in Tags : acked[t] \subseteq acked'[t] /\ (t \in S => table[t].id \in acked'[t])
  BY <1>7
<1> QED BY <1>6, <1>8, <1>9, <1>10, <1>11

\* The grade of a tag depends on its alarm only through its presence, so a step
\* that keeps a tag's alarm and severity keeps what it would start.
LEMMA SameStart ==
    ASSUME NEW t \in Tags,
           active'[t] = NoAlarm <=> active[t] = NoAlarm,
           active[t] # NoAlarm => active'[t].severity = active[t].severity,
           cycleConfig' = cycleConfig, reading' = reading,
           StartsOccurrence(t, cycleConfig[t], reading)'
    PROVE  StartsOccurrence(t, cycleConfig[t], reading)
  BY DEF StartsOccurrence, Grade

LEMMA InitTypeInv == Init => TypeInv
<1> SUFFICES ASSUME Init PROVE TypeInv
  OBVIOUS
<1>a. [u \in Tags |-> NoLimits] \in Configs
  BY DEF Configs
<1>b. history \in [Tags -> [Occurrences -> Nat]]
  BY DEF Init
<1>c. raised \in [Tags -> 0..MaxOccurrences] /\ crashes \in 0..MaxCrashes /\ faults \in 0..MaxFaults
  BY EngineAssumption DEF Init
<1>d. active \in [Tags -> Alarm \cup {NoAlarm}] /\ table \in [Tags -> Alarm \cup {NoAlarm}]
  BY DEF Init, Nothing
<1>e. reading \in [Tags -> Values \cup {Offline}] /\ request \in [Operators -> Tags \cup {NoTag}]
  BY DEF Init
<1>f. /\ published \in [Tags -> SUBSET Occurrences] /\ lost \in [Tags -> SUBSET Occurrences]
      /\ acked \in [Tags -> SUBSET Occurrences] /\ ackedInHistory \in [Tags -> SUBSET Occurrences]
  BY DEF Init
<1>1. TypeOK
  BY <1>a, <1>b, <1>c, <1>d, <1>e, <1>f DEF Init, TypeOK, PollerStates
<1>2. Bounded
  BY DEF Init, Bounded
<1> QED BY <1>1, <1>2 DEF TypeInv

LEMMA StepTypeInv == TypeInv /\ [Next]_vars => TypeInv'
<1> SUFFICES ASSUME TypeOK, Bounded, [Next]_vars
             PROVE  TypeOK' /\ Bounded'
  BY DEF TypeInv
<1> USE DEF pollerVars, ghostVars
<1>a. [u \in Tags |-> NoLimits] \in Configs
      /\ [u \in Tags |-> Offline] \in [Tags -> Values \cup {Offline}]
  BY DEF Configs
<1>b. Nothing \in [Tags -> Alarm \cup {NoAlarm}]
  BY DEF Nothing
<1>1. ASSUME NEW t \in Tags, NEW c \in TagConfigs[t] \cup {NoLimits}, SetLimits(t, c)
      PROVE  TypeOK' /\ Bounded'
  <2>1. config' \in Configs
    <3>1. c \in AnyTagConfig \cup {NoLimits}
      BY DEF AnyTagConfig
    <3>2. config \in [Tags -> AnyTagConfig \cup {NoLimits}]
          /\ \A u \in Tags : config[u] \in TagConfigs[u] \cup {NoLimits}
      BY DEF TypeOK, Configs
    <3>3. config' = [config EXCEPT ![t] = c]
      BY <1>1 DEF SetLimits
    <3>4. config' \in [Tags -> AnyTagConfig \cup {NoLimits}]
      BY <3>1, <3>2, <3>3
    <3>5. \A u \in Tags : config'[u] \in TagConfigs[u] \cup {NoLimits}
      BY <3>2, <3>3
    <3> QED BY <3>4, <3>5 DEF Configs
  <2> QED BY <2>1, <1>1 DEF SetLimits, TypeOK, Bounded, StartsOccurrence, Grade
<1>2. CASE Load
  BY <1>2 DEF Load, TypeOK, Bounded, PollerStates
<1>3. CASE LoadFails
  <2>1. lost' \in [Tags -> SUBSET Occurrences]
    BY <1>3 DEF LoadFails, TypeOK, Alarm
  <2> QED BY <2>1, <1>3, <1>b, EngineAssumption DEF LoadFails, Fault, TypeOK, Bounded, PollerStates
<1>4. ASSUME NEW values \in [Tags -> Values \cup {Offline}], Poll(values)
      PROVE  TypeOK' /\ Bounded'
  <2>1. TypeOK'
    BY <1>4 DEF Poll, TypeOK, PollerStates
  <2>2. Bounded'
    BY <1>4 DEF Poll, Bounded, StartsOccurrence, Grade
  <2> QED BY <2>1, <2>2
<1>5. CASE NothingConfigured
  BY <1>5, <1>a DEF NothingConfigured, EndCycle, TypeOK, Bounded, PollerStates
<1>6. CASE ReloadAcks
  <2> DEFINE Flagged(t) == active[t] # NoAlarm /\ table[t] # NoAlarm /\ table[t].acknowledged
  <2>1. \A t \in Tags : active'[t] = IF Flagged(t) THEN [active[t] EXCEPT !.acknowledged = TRUE]
                                     ELSE active[t]
    BY <1>6 DEF ReloadAcks
  <2>2. ASSUME NEW t \in Tags
        PROVE  /\ active'[t] \in Alarm \cup {NoAlarm}
               /\ active'[t] = NoAlarm <=> active[t] = NoAlarm
               /\ active[t] # NoAlarm => active'[t].severity = active[t].severity
    <3>1. CASE Flagged(t)
      <4>1. active[t] \in Alarm
        BY <3>1 DEF TypeOK
      <4> QED BY <4>1, <3>1, <2>1, FlaggedAlarm
    <3>2. CASE ~Flagged(t)
      BY <3>2, <2>1 DEF TypeOK
    <3> QED BY <3>1, <3>2
  <2>3. active' \in [Tags -> Alarm \cup {NoAlarm}]
    BY <2>2, <1>6 DEF ReloadAcks
  <2>4. TypeOK'
    BY <2>3, <1>6 DEF ReloadAcks, TypeOK, PollerStates
  <2>5. Bounded'
    BY <2>2, <1>6, SameStart DEF ReloadAcks, Bounded
  <2> QED BY <2>4, <2>5
<1>7. CASE ReloadAcksFails
  <2>1. TypeOK'
    BY <1>7, EngineAssumption DEF ReloadAcksFails, Fault, TypeOK, PollerStates
  <2>2. Bounded'
    BY <1>7 DEF ReloadAcksFails, Bounded, StartsOccurrence, Grade
  <2> QED BY <2>1, <2>2
<1>8. ASSUME NEW t \in Tags, Skip(t) \/ WithinLimits(t) \/ Sustain(t)
      PROVE  TypeOK' /\ Bounded'
  <2>1. TypeOK'
    BY <1>8 DEF Skip, WithinLimits, Sustain, Graded, Reached, TypeOK
  <2>2. Bounded'
    BY <1>8 DEF Skip, WithinLimits, Sustain, Graded, Reached, Bounded, StartsOccurrence, Grade
  <2> QED BY <2>1, <2>2
<1>9. ASSUME NEW t \in Tags, Raise(t)
      PROVE  TypeOK' /\ Bounded'
  <2>1. raised[t] < MaxOccurrences
    BY <1>9 DEF Raise, Graded, Reached, Bounded, StartsOccurrence
  <2>2. /\ raised' \in [Tags -> 0..MaxOccurrences]
        /\ active' \in [Tags -> Alarm \cup {NoAlarm}]
        /\ \A u \in Tags : u # t => active'[u] = active[u] /\ raised'[u] = raised[u]
    BY <1>9, <2>1, NewAlarmType DEF Raise
  <2>3. TypeOK'
    BY <1>9, <2>2 DEF Raise, Graded, Reached, TypeOK
  <2>4. Bounded'
    BY <1>9, <2>2 DEF Raise, Graded, Reached, Bounded, StartsOccurrence, Grade
  <2> QED BY <2>3, <2>4
<1>10. ASSUME NEW t \in Tags, Escalate(t)
       PROVE  TypeOK' /\ Bounded'
  <2>1. raised[t] < MaxOccurrences
    BY <1>10 DEF Escalate, Graded, Reached, Bounded, StartsOccurrence
  <2>2. /\ raised' \in [Tags -> 0..MaxOccurrences]
        /\ active' \in [Tags -> Alarm \cup {NoAlarm}]
        /\ \A u \in Tags : u # t => active'[u] = active[u] /\ raised'[u] = raised[u]
    BY <1>10, <2>1, NewAlarmType DEF Escalate
  <2>3. active[t] \in Alarm
    BY <1>10 DEF Escalate, TypeOK
  <2>4. /\ history' \in [Tags -> [Occurrences -> Nat]]
        /\ ackedInHistory' \in [Tags -> SUBSET Occurrences]
        /\ lost' \in [Tags -> SUBSET Occurrences]
        /\ faults' \in 0..MaxFaults
    BY <1>10, <2>3, InsertType DEF Escalate
  <2>5. TypeOK'
    BY <1>10, <2>2, <2>4 DEF Escalate, Graded, Reached, TypeOK
  <2>6. Bounded'
    BY <1>10, <2>2 DEF Escalate, Graded, Reached, Bounded, StartsOccurrence, Grade
  <2> QED BY <2>5, <2>6
<1>11. ASSUME NEW t \in Tags, Clear(t)
       PROVE  TypeOK' /\ Bounded'
  <2>1. active[t] \in Alarm
    BY <1>11 DEF Clear, Ended, TypeOK
  <2>2. /\ history' \in [Tags -> [Occurrences -> Nat]]
        /\ ackedInHistory' \in [Tags -> SUBSET Occurrences]
        /\ lost' \in [Tags -> SUBSET Occurrences]
        /\ faults' \in 0..MaxFaults
    BY <1>11, <2>1, InsertType DEF Clear
  <2> QED BY <1>11, <2>2 DEF Clear, TypeOK, Bounded
<1>12. CASE Save
  <2>1. published' \in [Tags -> SUBSET Occurrences]
    BY <1>12 DEF Save, TypeOK, Alarm
  <2> QED BY <2>1, <1>12, <1>a DEF Save, EndCycle, TypeOK, Bounded, PollerStates
<1>13. CASE SaveFails
  BY <1>13, <1>a, EngineAssumption DEF SaveFails, Fault, EndCycle, TypeOK, Bounded, PollerStates
<1>14. CASE Crash
  BY <1>14, <1>a, <1>b, EngineAssumption DEF Crash, TypeOK, Bounded, PollerStates
<1>15. ASSUME NEW o \in Operators, NEW view \in Views, NEW t \in Tags, AckLookup(o, t, view)
       PROVE  TypeOK' /\ Bounded'
  BY <1>15 DEF AckLookup, TypeOK, Bounded, StartsOccurrence, Grade
<1>16. ASSUME NEW o \in Operators, AckUpdate(o)
       PROVE  TypeOK' /\ Bounded'
  <2> DEFINE S == {t \in {request[o]} : table[t] # NoAlarm}
  <2>1. S \in SUBSET Tags /\ (\A t \in S : table[t] # NoAlarm) /\ AckRows(S)
    BY <1>16 DEF AckUpdate, TypeOK
  <2>2. /\ table' \in [Tags -> Alarm \cup {NoAlarm}]
        /\ acked' \in [Tags -> SUBSET Occurrences]
        /\ late' \subseteq Tags
    BY <2>1, AckRowsType
  <2> QED BY <2>2, <1>16 DEF AckUpdate, TypeOK, Bounded, StartsOccurrence, Grade
<1>17. ASSUME NEW view \in Views, AckAll(view)
       PROVE  TypeOK' /\ Bounded'
  <2> DEFINE S == {t \in view : table[t] # NoAlarm /\ ~table[t].acknowledged}
  <2>1. S \in SUBSET Tags /\ (\A t \in S : table[t] # NoAlarm) /\ AckRows(S)
    BY <1>17, EngineAssumption DEF AckAll
  <2>2. /\ table' \in [Tags -> Alarm \cup {NoAlarm}]
        /\ acked' \in [Tags -> SUBSET Occurrences]
        /\ late' \subseteq Tags
    BY <2>1, AckRowsType
  <2> QED BY <2>2, <1>17 DEF AckAll, TypeOK, Bounded, StartsOccurrence, Grade
<1>18. CASE UNCHANGED vars
  BY <1>18 DEF vars, TypeOK, Bounded, StartsOccurrence, Grade
<1> QED
  BY <1>1, <1>2, <1>3, <1>4, <1>5, <1>6, <1>7, <1>8, <1>9, <1>10, <1>11, <1>12, <1>13, <1>14,
     <1>15, <1>16, <1>17, <1>18 DEF Next, PollerStep, ApiStep

\* Every variable keeps its type, in every behaviour and for every bound.
THEOREM TypeCorrect == Spec => []TypeOK
<1>1. Spec => []TypeInv
  BY InitTypeInv, StepTypeInv, PTL DEF Spec
<1>2. TypeInv => TypeOK
  BY DEF TypeInv
<1> QED BY <1>1, <1>2, PTL

-----------------------------------------------------------------------------
(* What each kind of step does to the alarms and their records.  Most      *)
(* steps of the engine only move the cycle forward.                        *)

Quiet ==
    /\ UNCHANGED <<active, table, history, raised, published, lost, acked, ackedInHistory, crashes>>
    /\ late' = late
    /\ pc' = "down" <=> pc = "down"
    /\ pc' \in {"idle", "polled"} /\ ~outOfStep' => pc \in {"idle", "polled"}
    /\ outOfStep => outOfStep'

AckStep(S) ==
    /\ S \in SUBSET Tags /\ \A t \in S : table[t] # NoAlarm
    /\ AckRows(S)
    /\ UNCHANGED <<pc, active, history, raised, published, lost, ackedInHistory, crashes, outOfStep>>

LEMMA StepCases ==
    ASSUME TypeOK, [Next]_vars
    PROVE  \/ Quiet
           \/ Load \/ LoadFails \/ ReloadAcks \/ Save \/ Crash
           \/ \E t \in Tags : Raise(t) \/ Escalate(t) \/ Clear(t)
           \/ \E S \in SUBSET Tags : AckStep(S)
<1> USE DEF pollerVars, ghostVars
<1>1. ASSUME NEW t \in Tags, NEW c \in TagConfigs[t] \cup {NoLimits}, SetLimits(t, c)
      PROVE  Quiet
  BY <1>1 DEF SetLimits, Quiet
<1>2. ASSUME NEW values \in [Tags -> Values \cup {Offline}], Poll(values)
      PROVE  Quiet
  BY <1>2 DEF Poll, Quiet
<1>3. CASE NothingConfigured
  BY <1>3 DEF NothingConfigured, EndCycle, Quiet
<1>4. CASE ReloadAcksFails
  BY <1>4 DEF ReloadAcksFails, Quiet
<1>5. ASSUME NEW t \in Tags, Skip(t) \/ WithinLimits(t) \/ Sustain(t)
      PROVE  Quiet
  BY <1>5 DEF Skip, WithinLimits, Sustain, Graded, Reached, Quiet
<1>6. CASE SaveFails
  BY <1>6 DEF SaveFails, Evaluated, EndCycle, Quiet
<1>7. ASSUME NEW o \in Operators, NEW view \in Views, NEW t \in Tags, AckLookup(o, t, view)
      PROVE  Quiet
  BY <1>7 DEF AckLookup, Quiet
<1>8. ASSUME NEW o \in Operators, AckUpdate(o)
      PROVE  \E S \in SUBSET Tags : AckStep(S)
  <2> DEFINE S == {t \in {request[o]} : table[t] # NoAlarm}
  <2>1. S \in SUBSET Tags /\ AckStep(S)
    BY <1>8 DEF AckUpdate, TypeOK, AckStep
  <2> QED BY <2>1
<1>9. ASSUME NEW view \in Views, AckAll(view)
      PROVE  \E S \in SUBSET Tags : AckStep(S)
  <2> DEFINE S == {t \in view : table[t] # NoAlarm /\ ~table[t].acknowledged}
  <2>1. S \in SUBSET Tags /\ AckStep(S)
    BY <1>9, EngineAssumption DEF AckAll, AckStep
  <2> QED BY <2>1
<1>10. CASE UNCHANGED vars
  BY <1>10 DEF vars, Quiet
<1> QED
  BY <1>1, <1>2, <1>3, <1>4, <1>5, <1>6, <1>7, <1>8, <1>9, <1>10 DEF Next, PollerStep, ApiStep

\* An insert adds at most one row, for the tag's active alarm, and hands that
\* occurrence over.
LEMMA InsertEffect ==
    ASSUME TypeOK, NEW t \in Tags, InsertHistory(t), active[t] \in Alarm
    PROVE  /\ \A u \in Tags, i \in Occurrences :
                ~(u = t /\ i = active[t].id) => history'[u][i] = history[u][i]
           /\ history'[t][active[t].id] \in
                {history[t][active[t].id], history[t][active[t].id] + 1}
           /\ \A u \in Tags : HandedOver(u) \subseteq HandedOver(u)'
           /\ active[t].id \in HandedOver(t)'
           /\ \A u \in Tags : \A i \in ackedInHistory'[u] :
                \/ i \in ackedInHistory[u]
                \/ u = t /\ i = active[t].id /\ active[t].acknowledged
<1>1. active[t].id \in Occurrences
  BY DEF Alarm
<1>2. CASE /\ history' = [history EXCEPT ![t][active[t].id] = @ + 1]
           /\ ackedInHistory' = IF active[t].acknowledged
                                THEN [ackedInHistory EXCEPT ![t] = @ \cup {active[t].id}]
                                ELSE ackedInHistory
           /\ UNCHANGED <<lost, faults>>
  <2>1. \A u \in Tags, i \in Occurrences :
            history'[u][i] = IF u = t /\ i = active[t].id THEN history[u][i] + 1
                             ELSE history[u][i]
    BY <1>2, <1>1 DEF TypeOK
  <2>2. \A u \in Tags, i \in Occurrences : history[u][i] \in Nat
    BY DEF TypeOK
  <2>3. \A u \in Tags : HandedOver(u) \subseteq HandedOver(u)'
    BY <1>2, <2>1, <2>2 DEF HandedOver
  <2>4. active[t].id \in HandedOver(t)'
    BY <1>1, <2>1, <2>2 DEF HandedOver
  <2>5. \A u \in Tags : \A i \in ackedInHistory'[u] :
            \/ i \in ackedInHistory[u]
            \/ u = t /\ i = active[t].id /\ active[t].acknowledged
    BY <1>2 DEF TypeOK
  <2> QED BY <1>1, <2>1, <2>3, <2>4, <2>5
<1>3. CASE /\ Fault
           /\ lost' = [lost EXCEPT ![t] = @ \cup {active[t].id}]
           /\ UNCHANGED <<history, ackedInHistory>>
  <2>1. \A u \in Tags : lost'[u] = IF u = t THEN lost[u] \cup {active[t].id} ELSE lost[u]
    BY <1>3 DEF TypeOK
  <2> QED BY <1>3, <2>1 DEF HandedOver
<1> QED BY <1>2, <1>3 DEF InsertHistory

\* Raising or escalating gives the tag a new, unacknowledged alarm.
LEMMA NewAlarmEffect ==
    ASSUME TypeInv, NEW t \in Tags, Raise(t) \/ Escalate(t)
    PROVE  /\ raised'[t] = raised[t] + 1
           /\ raised[t] \in Nat
           /\ active'[t] # NoAlarm
           /\ active'[t].id = raised[t] + 1
           /\ active'[t].id \in Occurrences
           /\ active'[t].acknowledged = FALSE
           /\ \A u \in Tags : u # t => active'[u] = active[u] /\ raised'[u] = raised[u]
           /\ UNCHANGED <<table, published, acked, crashes, outOfStep>>
           /\ pc = "evaluating" /\ pc' = "evaluating"
<1> USE DEF TypeInv
<1>1. /\ raised[t] < MaxOccurrences
      /\ Grade(t, cycleConfig[t], reading) # "normal"
      /\ NewAlarm(t)
  BY DEF Raise, Escalate, Graded, Reached, Bounded, StartsOccurrence
<1>2. /\ raised'[t] = raised[t] + 1
      /\ active'[t] \in Alarm
      /\ active'[t].id = raised[t] + 1
      /\ active'[t].acknowledged = FALSE
      /\ \A u \in Tags : u # t => active'[u] = active[u] /\ raised'[u] = raised[u]
  BY <1>1, NewAlarmType
<1>3. active'[t] # NoAlarm /\ active'[t].id \in Occurrences
  BY <1>2, EngineAssumption DEF Alarm
<1>4. /\ UNCHANGED <<table, published, acked, crashes, outOfStep>>
      /\ pc = "evaluating" /\ pc' = "evaluating"
  BY DEF Raise, Escalate, Graded, Reached
<1>5. raised[t] \in Nat
  BY EngineAssumption DEF TypeOK
<1> QED BY <1>2, <1>3, <1>4, <1>5

-----------------------------------------------------------------------------
(* The safety invariant.                                                   *)

LEMMA InitSafetyInv == Init => SafetyInv
  BY DEF Init, Nothing, SafetyInv, Numbered, RowsHandedOver, HistoryComplete, ActiveNotArchived,
         HistoryOncePerLife, AcksComeFromTable, TableIsMemory, AckNotInvented,
         FlagsKnown

\* What an active or published alarm's number may be.
LEMMA AlarmIds ==
    ASSUME TypeOK
    PROVE  /\ \A t \in Tags : active[t] # NoAlarm => active[t] \in Alarm /\ active[t].id \in Occurrences
           /\ \A t \in Tags : table[t] # NoAlarm => table[t] \in Alarm /\ table[t].id \in Occurrences
           /\ \A t \in Tags, i \in Occurrences : history[t][i] \in Nat
           /\ \A t \in Tags : raised[t] \in Nat /\ published[t] \subseteq Occurrences
           /\ crashes \in Nat
           /\ Occurrences \subseteq Nat
<1>1. Occurrences \subseteq Nat /\ crashes \in Nat
  BY EngineAssumption DEF TypeOK, Occurrences
<1>2. \A a \in Alarm : a.id \in Occurrences
  BY DEF Alarm
<1>3. ASSUME NEW t \in Tags
      PROVE  /\ active[t] \in Alarm \cup {NoAlarm} /\ table[t] \in Alarm \cup {NoAlarm}
             /\ published[t] \in SUBSET Occurrences
             /\ raised[t] \in 0..MaxOccurrences
             /\ history[t] \in [Occurrences -> Nat]
  BY <1>3 DEF TypeOK
<1>4. \A t \in Tags : raised[t] \in Nat
  BY <1>3, EngineAssumption
<1> QED BY <1>1, <1>2, <1>3, <1>4

\* ... and numbers it above everything issued for the tag before.
LEMMA NewAlarmNumbered ==
    ASSUME TypeInv, Numbered, NEW t \in Tags, Raise(t) \/ Escalate(t), NEW u \in Tags
    PROVE  /\ raised[u] \in Nat /\ raised'[u] \in Nat /\ raised[u] <= raised'[u]
           /\ active'[u] # NoAlarm => active'[u].id <= raised'[u]
           /\ table'[u] # NoAlarm => table'[u].id <= raised'[u]
           /\ \A i \in published'[u] : i <= raised'[u]
<1> USE DEF TypeInv
<1>1. /\ raised[u] \in Nat /\ raised'[u] \in Nat /\ raised[u] <= raised'[u]
      /\ active'[u] # NoAlarm => active'[u].id <= raised'[u]
  <2>1. CASE u = t
    <3>1. raised'[t] = raised[t] + 1 /\ raised[t] \in Nat /\ active'[t].id = raised[t] + 1
      BY NewAlarmEffect
    <3> QED BY <2>1, <3>1
  <2>2. CASE u # t
    <3>1. active'[u] = active[u] /\ raised'[u] = raised[u]
      BY <2>2, NewAlarmEffect
    <3>2. raised[u] \in Nat /\ (active[u] # NoAlarm => active[u].id <= raised[u])
      BY AlarmIds DEF Numbered
    <3> QED BY <3>1, <3>2
  <2> QED BY <2>1, <2>2
<1>2. table' = table /\ published' = published
  BY NewAlarmEffect
<1>3. table[u] # NoAlarm => table[u].id \in Nat /\ table[u].id <= raised[u]
  BY AlarmIds DEF Numbered
<1>4. \A i \in published[u] : i \in Nat /\ i <= raised[u]
  BY AlarmIds DEF Numbered
<1> QED BY <1>1, <1>2, <1>3, <1>4

\* Reloading the flags changes nothing of an alarm but its flag, and sets that
\* only where the row has it.
LEMMA ReloadEffect ==
    ASSUME TypeOK, ReloadAcks, NEW t \in Tags
    PROVE  /\ active'[t] = NoAlarm <=> active[t] = NoAlarm
           /\ active[t] # NoAlarm => /\ active'[t].id = active[t].id
                                     /\ active'[t].severity = active[t].severity
           /\ active'[t] = active[t] \/ (table[t] # NoAlarm /\ table[t].acknowledged)
<1>1. active'[t] = IF active[t] # NoAlarm /\ table[t] # NoAlarm /\ table[t].acknowledged
                   THEN [active[t] EXCEPT !.acknowledged = TRUE] ELSE active[t]
  BY DEF ReloadAcks
<1>2. active[t] # NoAlarm => active[t] \in Alarm
  BY AlarmIds
<1>3. CASE active[t] # NoAlarm /\ table[t] # NoAlarm /\ table[t].acknowledged
  BY <1>1, <1>2, <1>3, FlaggedAlarm
<1>4. CASE ~(active[t] # NoAlarm /\ table[t] # NoAlarm /\ table[t].acknowledged)
  BY <1>1, <1>4
<1> QED BY <1>3, <1>4

\* After the reload every acknowledged row is acknowledged in memory too.
LEMMA ReloadAcksAll ==
    ASSUME TypeOK, ReloadAcks, NEW t \in Tags, active'[t] # NoAlarm, table[t] # NoAlarm,
           table[t].acknowledged
    PROVE  active'[t].acknowledged
<1>1. active'[t] = IF active[t] # NoAlarm THEN [active[t] EXCEPT !.acknowledged = TRUE] ELSE active[t]
  BY DEF ReloadAcks
<1>2. active[t] # NoAlarm => active[t] \in Alarm
  BY AlarmIds
<1> QED BY <1>1, <1>2, FlaggedAlarm

LEMMA NumberedStep ==
    ASSUME TypeInv, TypeOK', Numbered, [Next]_vars PROVE Numbered'
<1> USE DEF TypeInv
<1>0. TypeOK
  OBVIOUS
<1>1. CASE Quiet
  BY <1>1 DEF Quiet, Numbered
<1>2. CASE Load
  BY <1>2 DEF Load, Numbered
<1>3. CASE LoadFails
  BY <1>3 DEF LoadFails, Nothing, Numbered
<1>4. CASE ReloadAcks
  BY <1>4, ReloadEffect DEF ReloadAcks, Numbered
<1>5. CASE Save
  BY <1>5 DEF Save, Numbered
<1>6. CASE Crash
  BY <1>6 DEF Crash, Nothing, Numbered
<1>7. ASSUME NEW t \in Tags, Raise(t)
      PROVE  Numbered'
  <2>1. history' = history
    BY <1>7 DEF Raise
  <2>2. \A u \in Tags, i \in Occurrences : history'[u][i] > 0 => i <= raised'[u]
    BY <2>1, <1>7, NewAlarmNumbered, AlarmIds DEF Numbered
  <2> QED BY <2>2, <1>7, NewAlarmNumbered DEF Numbered
<1>8. ASSUME NEW t \in Tags, Escalate(t)
      PROVE  Numbered'
  <2>1. InsertHistory(t) /\ active[t] \in Alarm /\ active[t] # NoAlarm
    BY <1>8, AlarmIds DEF Escalate
  <2>2. \A u \in Tags, i \in Occurrences :
            ~(u = t /\ i = active[t].id) => history'[u][i] = history[u][i]
    BY <2>1, InsertEffect
  <2>3. active[t].id <= raised[t]
    BY <2>1 DEF Numbered
  <2>4. \A u \in Tags, i \in Occurrences : history'[u][i] > 0 => i <= raised[u]
    BY <2>2, <2>3 DEF Numbered
  <2>5. \A u \in Tags, i \in Occurrences : history'[u][i] > 0 => i <= raised'[u]
    BY <2>4, <1>8, NewAlarmNumbered, AlarmIds
  <2> QED BY <2>5, <1>8, NewAlarmNumbered DEF Numbered
<1>9. ASSUME NEW t \in Tags, Clear(t)
      PROVE  Numbered'
  <2>1. InsertHistory(t) /\ active[t] \in Alarm /\ active[t] # NoAlarm
    BY <1>9, AlarmIds DEF Clear, Ended
  <2>2. \A u \in Tags, i \in Occurrences :
            ~(u = t /\ i = active[t].id) => history'[u][i] = history[u][i]
    BY <2>1, InsertEffect
  <2>3. active[t].id <= raised[t]
    BY <2>1 DEF Numbered
  <2>4. \A u \in Tags, i \in Occurrences : history'[u][i] > 0 => i <= raised[u]
    BY <2>2, <2>3 DEF Numbered
  <2>5. \A u \in Tags : active'[u] # NoAlarm => active'[u] = active[u]
    BY <1>9 DEF Clear, TypeOK
  <2> QED BY <2>4, <2>5, <1>9 DEF Clear, Numbered
<1>10. ASSUME NEW S \in SUBSET Tags, AckStep(S)
       PROVE  Numbered'
  BY <1>10, AckRowsType DEF AckStep, Numbered
<1> QED BY <1>1, <1>2, <1>3, <1>4, <1>5, <1>6, <1>7, <1>8, <1>9, <1>10, StepCases

-----------------------------------------------------------------------------
(* Nothing published is forgotten.                                         *)

\* What has been handed to the history stays handed over.
LEMMA HandedOverGrows ==
    ASSUME TypeInv, [Next]_vars, NEW u \in Tags
    PROVE  HandedOver(u) \subseteq HandedOver(u)'
<1> USE DEF TypeInv
<1>1. CASE history' = history /\ lost' = lost
  BY <1>1 DEF HandedOver
<1>2. CASE LoadFails
  BY <1>2 DEF LoadFails, HandedOver, TypeOK
<1>3. ASSUME NEW t \in Tags, Escalate(t) \/ Clear(t)
      PROVE  HandedOver(u) \subseteq HandedOver(u)'
  <2>1. InsertHistory(t) /\ active[t] \in Alarm
    BY <1>3, AlarmIds DEF Escalate, Clear, Ended
  <2> QED BY <2>1, InsertEffect
<1>4. Quiet \/ Load \/ ReloadAcks \/ Save \/ Crash => history' = history /\ lost' = lost
  BY DEF Quiet, Load, ReloadAcks, Save, Crash
<1>5. \A t \in Tags : Raise(t) => history' = history /\ lost' = lost
  BY DEF Raise
<1>6. \A S \in SUBSET Tags : AckStep(S) => history' = history /\ lost' = lost
  BY DEF AckStep
<1> QED BY <1>1, <1>2, <1>3, <1>4, <1>5, <1>6, StepCases

LEMMA RowsHandedOverStep ==
    ASSUME TypeInv, RowsHandedOver, [Next]_vars PROVE RowsHandedOver'
<1> USE DEF TypeInv
<1>0. \A u \in Tags : HandedOver(u) \subseteq HandedOver(u)'
  BY HandedOverGrows
<1>1. CASE Quiet
  BY <1>0, <1>1 DEF Quiet, RowsHandedOver
<1>2. CASE Load
  BY <1>2 DEF Load, RowsHandedOver
<1>3. CASE LoadFails
  BY <1>3, AlarmIds DEF LoadFails, RowsHandedOver, HandedOver
<1>4. CASE ReloadAcks
  BY <1>0, <1>4, ReloadEffect DEF ReloadAcks, RowsHandedOver
<1>5. CASE Save
  BY <1>5 DEF Save, RowsHandedOver
<1>6. CASE Crash
  BY <1>6 DEF Crash, RowsHandedOver
<1>7. ASSUME NEW t \in Tags, Raise(t)
      PROVE  RowsHandedOver'
  <2>1. active[t] = NoAlarm /\ table' = table /\ pc # "down"
        /\ \A u \in Tags : u # t => active'[u] = active[u]
    BY <1>7, NewAlarmEffect DEF Raise
  <2> QED BY <1>0, <2>1 DEF RowsHandedOver
<1>8. ASSUME NEW t \in Tags, Escalate(t)
      PROVE  RowsHandedOver'
  <2>1. table' = table /\ pc # "down" /\ \A u \in Tags : u # t => active'[u] = active[u]
    BY <1>8, NewAlarmEffect
  <2>2. active[t].id \in HandedOver(t)'
    BY <1>8, InsertEffect, AlarmIds DEF Escalate
  <2> QED BY <1>0, <2>1, <2>2 DEF RowsHandedOver
<1>9. ASSUME NEW t \in Tags, Clear(t)
      PROVE  RowsHandedOver'
  <2>1. table' = table /\ pc # "down" /\ \A u \in Tags : u # t => active'[u] = active[u]
    BY <1>9 DEF Clear, TypeOK
  <2>2. active[t].id \in HandedOver(t)'
    BY <1>9, InsertEffect, AlarmIds DEF Clear, Ended
  <2> QED BY <1>0, <2>1, <2>2 DEF RowsHandedOver
<1>10. ASSUME NEW S \in SUBSET Tags, AckStep(S)
       PROVE  RowsHandedOver'
  <2>1. \A u \in Tags : /\ table[u] = NoAlarm <=> table'[u] = NoAlarm
                        /\ table[u] # NoAlarm => table'[u].id = table[u].id
    BY <1>10, AckRowsType DEF AckStep
  <2> QED BY <1>0, <1>10, <2>1 DEF AckStep, RowsHandedOver
<1> QED BY <1>1, <1>2, <1>3, <1>4, <1>5, <1>6, <1>7, <1>8, <1>9, <1>10, StepCases

\* Only Save publishes, and only Save removes or replaces a row.
LEMMA SameRows ==
    ASSUME TypeInv, [Next]_vars, ~Save, NEW u \in Tags
    PROVE  /\ published' = published
           /\ table[u] = NoAlarm <=> table'[u] = NoAlarm
           /\ table[u] # NoAlarm => table'[u].id = table[u].id
<1> USE DEF TypeInv
<1>1. Quiet \/ Load \/ LoadFails \/ ReloadAcks \/ Crash => table' = table /\ published' = published
  BY DEF Quiet, Load, LoadFails, ReloadAcks, Crash
<1>2. \A t \in Tags : Raise(t) \/ Escalate(t) \/ Clear(t) => table' = table /\ published' = published
  BY DEF Raise, Escalate, Clear
<1>3. ASSUME NEW S \in SUBSET Tags, AckStep(S)
      PROVE  /\ published' = published
             /\ table[u] = NoAlarm <=> table'[u] = NoAlarm
             /\ table[u] # NoAlarm => table'[u].id = table[u].id
  BY <1>3, AckRowsType DEF AckStep
<1> QED BY <1>1, <1>2, <1>3, StepCases

LEMMA HistoryCompleteStep ==
    ASSUME TypeInv, RowsHandedOver, HistoryComplete, [Next]_vars PROVE HistoryComplete'
<1> DEFINE Kept(t, i) == (table[t] # NoAlarm /\ table[t].id = i) \/ i \in HandedOver(t)
<1>1. \A t \in Tags : \A i \in published[t] : Kept(t, i)
  BY AlarmIds DEF TypeInv, HistoryComplete, HandedOver
<1>2. \A t \in Tags : HandedOver(t) \subseteq HandedOver(t)'
  BY HandedOverGrows
<1>3. CASE Save
  <2>1. \A t \in Tags : table[t] # NoAlarm =>
            table[t].id \in HandedOver(t) \/ (active[t] # NoAlarm /\ active[t].id = table[t].id)
    BY <1>3 DEF Save, Evaluated, RowsHandedOver
  <2>2. table' = active
        /\ \A t \in Tags : published'[t] = IF active[t] = NoAlarm THEN published[t]
                                           ELSE published[t] \cup {active[t].id}
    BY <1>3 DEF Save
  <2>3. \A t \in Tags : \A i \in published'[t] : Kept(t, i)'
    BY <1>1, <1>2, <2>1, <2>2
  <2> QED BY <2>3 DEF HistoryComplete, HandedOver
<1>4. CASE ~Save
  <2>1. \A t \in Tags : \A i \in published'[t] : Kept(t, i)'
    BY <1>1, <1>2, <1>4, SameRows
  <2> QED BY <2>1 DEF HistoryComplete, HandedOver
<1> QED BY <1>3, <1>4

-----------------------------------------------------------------------------
(* The history gets each occurrence once in a life of the poller.          *)

LEMMA OnceStep ==
    ASSUME TypeInv, Numbered, ActiveNotArchived, HistoryOncePerLife, [Next]_vars
    PROVE  ActiveNotArchived' /\ HistoryOncePerLife'
<1> USE DEF TypeInv
<1>0. \A u \in Tags, i \in Occurrences : history[u][i] \in Nat /\ history[u][i] <= 1 + crashes
  BY AlarmIds DEF HistoryOncePerLife
<1>1. CASE Quiet
  BY <1>1 DEF Quiet, ActiveNotArchived, HistoryOncePerLife
<1>2. CASE Load
  BY <1>2, AlarmIds DEF Load, ActiveNotArchived, HistoryOncePerLife
<1>3. CASE LoadFails
  BY <1>3 DEF LoadFails, Nothing, ActiveNotArchived, HistoryOncePerLife
<1>4. CASE ReloadAcks
  BY <1>4, ReloadEffect DEF ReloadAcks, ActiveNotArchived, HistoryOncePerLife
<1>5. CASE Save
  BY <1>5 DEF Save, Evaluated, EndCycle, ActiveNotArchived, HistoryOncePerLife
<1>6. CASE Crash
  <2>1. crashes' = crashes + 1 /\ crashes \in Nat /\ history' = history /\ active' = Nothing
    BY <1>6, AlarmIds DEF Crash
  <2> QED BY <1>0, <2>1 DEF Nothing, ActiveNotArchived, HistoryOncePerLife
<1>7. ASSUME NEW t \in Tags, Raise(t)
      PROVE  ActiveNotArchived' /\ HistoryOncePerLife'
  <2>1. history' = history /\ crashes' = crashes
    BY <1>7, NewAlarmEffect DEF Raise
  <2>2. active'[t].id = raised[t] + 1 /\ raised[t] \in Nat /\ active'[t].id \in Occurrences
        /\ pc' = "evaluating" /\ \A u \in Tags : u # t => active'[u] = active[u]
    BY <1>7, NewAlarmEffect
  <2>3. history[t][raised[t] + 1] = 0
    BY <1>0, <2>2 DEF Numbered
  <2>4. ActiveNotArchived'
    BY <2>1, <2>2, <2>3, AlarmIds DEF ActiveNotArchived
  <2> QED BY <2>1, <2>4 DEF HistoryOncePerLife
<1>8. ASSUME NEW t \in Tags, Escalate(t)
      PROVE  ActiveNotArchived' /\ HistoryOncePerLife'
  <2>1. crashes' = crashes /\ active'[t].id = raised[t] + 1 /\ raised[t] \in Nat
        /\ active'[t].id \in Occurrences /\ pc' = "evaluating"
        /\ \A u \in Tags : u # t => active'[u] = active[u]
    BY <1>8, NewAlarmEffect
  <2>2. InsertHistory(t) /\ active[t] # NoAlarm /\ active[t] \in Alarm /\ active[t].id \in Occurrences
    BY <1>8, AlarmIds DEF Escalate
  <2>3. active[t].id \in Nat /\ active[t].id <= raised[t]
    BY <2>2, AlarmIds DEF Numbered
  <2>4. \A u \in Tags, i \in Occurrences :
            ~(u = t /\ i = active[t].id) => history'[u][i] = history[u][i]
    BY <2>2, InsertEffect
  <2>5. history'[t][active[t].id] \in {history[t][active[t].id], history[t][active[t].id] + 1}
    BY <2>2, InsertEffect
  <2>6. history[t][active[t].id] <= crashes /\ crashes \in Nat
    BY <2>2, AlarmIds DEF ActiveNotArchived
  <2>7. history'[t][raised[t] + 1] = 0
    BY <1>0, <2>1, <2>3, <2>4 DEF Numbered
  <2>8. \A u \in Tags : active'[u] # NoAlarm => history'[u][active'[u].id] <= crashes'
    <3>1. ASSUME NEW u \in Tags, u # t, active'[u] # NoAlarm
          PROVE  history'[u][active'[u].id] <= crashes'
      BY <2>1, <2>4, <3>1, AlarmIds DEF ActiveNotArchived
    <3>2. history'[t][active'[t].id] <= crashes'
      BY <2>1, <2>6, <2>7
    <3> QED BY <3>1, <3>2
  <2>9. HistoryOncePerLife'
    BY <1>0, <2>1, <2>2, <2>4, <2>5, <2>6 DEF HistoryOncePerLife
  <2> QED BY <2>1, <2>8, <2>9 DEF ActiveNotArchived
<1>9. ASSUME NEW t \in Tags, Clear(t)
      PROVE  ActiveNotArchived' /\ HistoryOncePerLife'
  <2>1. crashes' = crashes /\ pc' # "down" /\ active'[t] = NoAlarm
        /\ \A u \in Tags : u # t => active'[u] = active[u]
    BY <1>9 DEF Clear, TypeOK
  <2>2. InsertHistory(t) /\ active[t] # NoAlarm /\ active[t] \in Alarm /\ active[t].id \in Occurrences
    BY <1>9, AlarmIds DEF Clear, Ended
  <2>4. \A u \in Tags, i \in Occurrences :
            ~(u = t /\ i = active[t].id) => history'[u][i] = history[u][i]
    BY <2>2, InsertEffect
  <2>5. history'[t][active[t].id] \in {history[t][active[t].id], history[t][active[t].id] + 1}
    BY <2>2, InsertEffect
  <2>6. history[t][active[t].id] <= crashes /\ crashes \in Nat
    BY <2>2, AlarmIds DEF ActiveNotArchived
  <2>8. \A u \in Tags : active'[u] # NoAlarm => history'[u][active'[u].id] <= crashes'
    BY <2>1, <2>4, AlarmIds DEF ActiveNotArchived
  <2>9. HistoryOncePerLife'
    BY <1>0, <2>1, <2>2, <2>4, <2>5, <2>6 DEF HistoryOncePerLife
  <2> QED BY <2>1, <2>8, <2>9 DEF ActiveNotArchived
<1>10. ASSUME NEW S \in SUBSET Tags, AckStep(S)
       PROVE  ActiveNotArchived' /\ HistoryOncePerLife'
  BY <1>10 DEF AckStep, ActiveNotArchived, HistoryOncePerLife
<1> QED BY <1>1, <1>2, <1>3, <1>4, <1>5, <1>6, <1>7, <1>8, <1>9, <1>10, StepCases

-----------------------------------------------------------------------------
(* Acknowledgements.                                                       *)

LEMMA AcksComeFromTableStep ==
    ASSUME TypeInv, AcksComeFromTable, [Next]_vars PROVE AcksComeFromTable'
<1> USE DEF TypeInv
<1>1. CASE Quiet
  BY <1>1 DEF Quiet, AcksComeFromTable
<1>2. CASE Load \/ LoadFails \/ Crash
  BY <1>2 DEF Load, LoadFails, Crash, Nothing, AcksComeFromTable
<1>3. CASE ReloadAcks
  BY <1>3, ReloadEffect DEF ReloadAcks, AcksComeFromTable
<1>4. CASE Save
  BY <1>4 DEF Save, AcksComeFromTable
<1>5. ASSUME NEW t \in Tags, Raise(t) \/ Escalate(t)
      PROVE  AcksComeFromTable'
  <2>1. active'[t].acknowledged = FALSE /\ table' = table
        /\ \A u \in Tags : u # t => active'[u] = active[u]
    BY <1>5, NewAlarmEffect
  <2> QED BY <2>1 DEF AcksComeFromTable
<1>6. ASSUME NEW t \in Tags, Clear(t)
      PROVE  AcksComeFromTable'
  BY <1>6 DEF Clear, TypeOK, AcksComeFromTable
<1>7. ASSUME NEW S \in SUBSET Tags, AckStep(S)
      PROVE  AcksComeFromTable'
  BY <1>7, AckRowsType DEF AckStep, AcksComeFromTable
<1> QED BY <1>1, <1>2, <1>3, <1>4, <1>5, <1>6, <1>7, StepCases

LEMMA TableIsMemoryStep ==
    ASSUME TypeInv, TableIsMemory, [Next]_vars PROVE TableIsMemory'
<1> USE DEF TypeInv
<1>1. CASE Quiet
  BY <1>1 DEF Quiet, TableIsMemory
<1>2. CASE Load \/ Save
  BY <1>2 DEF Load, Save, TableIsMemory
<1>3. CASE LoadFails \/ Crash \/ ReloadAcks
  BY <1>3 DEF LoadFails, Crash, ReloadAcks, TableIsMemory
<1>4. ASSUME NEW t \in Tags, Raise(t) \/ Escalate(t)
      PROVE  TableIsMemory'
  <2>1. pc' = "evaluating"
    BY <1>4, NewAlarmEffect
  <2> QED BY <2>1 DEF TableIsMemory
<1>5. ASSUME NEW t \in Tags, Clear(t)
      PROVE  TableIsMemory'
  BY <1>5 DEF Clear, TableIsMemory
<1>6. ASSUME NEW S \in SUBSET Tags, AckStep(S)
      PROVE  TableIsMemory'
  <2>1. ASSUME NEW u \in Tags
        PROVE  /\ table[u] = NoAlarm <=> table'[u] = NoAlarm
               /\ table[u] # NoAlarm => /\ table'[u].id = table[u].id
                                        /\ table'[u].severity = table[u].severity
                                        /\ table[u].acknowledged => table'[u].acknowledged
    BY <1>6, AckRowsType DEF AckStep
  <2>2. UNCHANGED <<pc, active, outOfStep>>
    BY <1>6 DEF AckStep
  <2> QED BY <2>1, <2>2 DEF TableIsMemory
<1> QED BY <1>1, <1>2, <1>3, <1>4, <1>5, <1>6, StepCases

LEMMA AckNotInventedStep ==
    ASSUME TypeInv, TableIsMemory, AckNotInvented, [Next]_vars PROVE AckNotInvented'
<1> USE DEF TypeInv
<1>1. CASE Quiet
  BY <1>1 DEF Quiet, AckNotInvented
<1>2. CASE Load \/ Save \/ Crash
  BY <1>2 DEF Load, Save, Crash, Nothing, AckNotInvented
<1>3. CASE LoadFails
  BY <1>3 DEF LoadFails, AckNotInvented
<1>4. CASE ReloadAcks
  <2>1. UNCHANGED <<table, acked, ackedInHistory, outOfStep>> /\ pc = "polled"
    BY <1>4 DEF ReloadAcks
  <2>2. ASSUME NEW t \in Tags, ~outOfStep, active'[t] # NoAlarm, active'[t].acknowledged
        PROVE  active'[t].id \in acked[t]
    <3>1. CASE active'[t] = active[t]
      BY <2>2, <3>1 DEF AckNotInvented
    <3>2. CASE table[t] # NoAlarm /\ table[t].acknowledged
      <4>1. table[t].id = active[t].id /\ active[t] # NoAlarm
        BY <2>1, <2>2, <3>2 DEF TableIsMemory
      <4>2. active'[t].id = active[t].id
        BY <4>1, <1>4, ReloadEffect
      <4> QED BY <4>1, <4>2, <2>2, <3>2 DEF AckNotInvented
    <3> QED BY <3>1, <3>2, <1>4, ReloadEffect
  <2> QED BY <2>1, <2>2 DEF AckNotInvented
<1>5. ASSUME NEW t \in Tags, Raise(t)
      PROVE  AckNotInvented'
  <2>1. active'[t].acknowledged = FALSE /\ UNCHANGED <<table, acked, outOfStep>>
        /\ \A u \in Tags : u # t => active'[u] = active[u]
    BY <1>5, NewAlarmEffect
  <2>2. ackedInHistory' = ackedInHistory
    BY <1>5 DEF Raise
  <2> QED BY <2>1, <2>2 DEF AckNotInvented
<1>6. ASSUME NEW t \in Tags, Escalate(t) \/ Clear(t)
      PROVE  AckNotInvented'
  <2>1. InsertHistory(t) /\ active[t] # NoAlarm /\ active[t] \in Alarm
    BY <1>6, AlarmIds DEF Escalate, Clear, Ended
  <2>2. \A u \in Tags : \A i \in ackedInHistory'[u] :
            i \in ackedInHistory[u] \/ (u = t /\ i = active[t].id /\ active[t].acknowledged)
    BY <2>1, InsertEffect
  <2>3. UNCHANGED <<table, acked, outOfStep>>
    BY <1>6 DEF Escalate, Clear
  <2>4. /\ active'[t] = NoAlarm \/ active'[t].acknowledged = FALSE
        /\ \A u \in Tags : u # t => active'[u] = active[u]
    <3>1. CASE Escalate(t)
      BY <3>1, NewAlarmEffect
    <3>2. CASE Clear(t)
      BY <3>2 DEF Clear, TypeOK
    <3> QED BY <1>6, <3>1, <3>2
  <2> QED BY <2>1, <2>2, <2>3, <2>4 DEF AckNotInvented
<1>7. ASSUME NEW S \in SUBSET Tags, AckStep(S)
      PROVE  AckNotInvented'
  <2>1. UNCHANGED <<active, ackedInHistory, outOfStep>>
    BY <1>7 DEF AckStep
  <2>2. ASSUME NEW u \in Tags
        PROVE  /\ table[u] = NoAlarm <=> table'[u] = NoAlarm
               /\ table[u] # NoAlarm => table'[u].id = table[u].id
               /\ acked[u] \subseteq acked'[u]
               /\ u \in S => table[u].id \in acked'[u]
               /\ u \notin S => table'[u] = table[u]
    BY <1>7, AckRowsType DEF AckStep
  <2> QED BY <1>7, <2>1, <2>2 DEF AckStep, AckNotInvented
<1> QED BY <1>1, <1>2, <1>3, <1>4, <1>5, <1>6, <1>7, StepCases

LEMMA FlagsKnownStep ==
    ASSUME TypeInv, Numbered, FlagsKnown, [Next]_vars PROVE FlagsKnown'
<1> USE DEF TypeInv
<1>1. CASE Quiet
  BY <1>1 DEF Quiet, FlagsKnown
<1>2. CASE Load \/ LoadFails \/ Crash \/ Save
  BY <1>2 DEF Load, LoadFails, Crash, Save, Nothing, FlagsKnown
<1>3. CASE ReloadAcks
  BY <1>3, ReloadAcksAll DEF ReloadAcks, FlagsKnown
<1>4. ASSUME NEW t \in Tags, Raise(t) \/ Escalate(t)
      PROVE  FlagsKnown'
  <2>1. active'[t].id = raised[t] + 1 /\ raised[t] \in Nat /\ table' = table
        /\ pc = "evaluating" /\ \A u \in Tags : u # t => active'[u] = active[u]
    BY <1>4, NewAlarmEffect
  <2>2. table[t] # NoAlarm => active'[t].id # table[t].id
    BY <2>1, AlarmIds DEF Numbered
  <2>3. late' = late
    BY <1>4 DEF Raise, Escalate
  <2> QED BY <2>1, <2>2, <2>3 DEF FlagsKnown
<1>5. ASSUME NEW t \in Tags, Clear(t)
      PROVE  FlagsKnown'
  BY <1>5 DEF Clear, TypeOK, FlagsKnown
<1>6. ASSUME NEW S \in SUBSET Tags, AckStep(S)
      PROVE  FlagsKnown'
  <2>1. late' = late \cup S /\ UNCHANGED <<pc, active>>
    BY <1>6 DEF AckStep, AckRows
  <2>2. \A u \in Tags : u \notin S => table'[u] = table[u]
    BY <1>6, AckRowsType DEF AckStep
  <2> QED BY <2>1, <2>2 DEF FlagsKnown
<1> QED BY <1>1, <1>2, <1>3, <1>4, <1>5, <1>6, StepCases

-----------------------------------------------------------------------------
(* The theorems.                                                           *)

LEMMA StepSafetyInv ==
    TypeInv /\ TypeInv' /\ SafetyInv /\ [Next]_vars => SafetyInv'
  BY NumberedStep, RowsHandedOverStep, HistoryCompleteStep, OnceStep, AcksComeFromTableStep,
     TableIsMemoryStep, AckNotInventedStep, FlagsKnownStep DEF SafetyInv, TypeInv

LEMMA SafetyInvariant == Spec => [](TypeInv /\ SafetyInv)
  BY InitTypeInv, StepTypeInv, InitSafetyInv, StepSafetyInv, PTL DEF Spec

\* No published occurrence is forgotten: it is a row or it was handed to the
\* history, whatever crashes and SQLite faults came in between.
THEOREM NothingForgotten == Spec => []HistoryComplete
<1>1. SafetyInv => HistoryComplete
  BY DEF SafetyInv
<1> QED BY <1>1, SafetyInvariant, PTL

\* The history holds an occurrence at most once per life of the poller.
THEOREM ArchivedOnce == Spec => []HistoryOncePerLife
<1>1. SafetyInv => HistoryOncePerLife
  BY DEF SafetyInv
<1> QED BY <1>1, SafetyInvariant, PTL

\* An acknowledged flag belongs to an occurrence an operator acknowledged.
THEOREM AcksAreOperators == Spec => []AckNotInvented
<1>1. SafetyInv => AckNotInvented
  BY DEF SafetyInv
<1> QED BY <1>1, SafetyInvariant, PTL

\* Between cycles the published table is the engine's memory.
THEOREM PublishedIsMemory == Spec => []TableIsMemory
<1>1. SafetyInv => TableIsMemory
  BY DEF SafetyInv
<1> QED BY <1>1, SafetyInvariant, PTL

\* An acknowledgement in the table when the flags were reloaded is not lost.
THEOREM EarlyAcksKept == Spec => EarlyAckKept
<1> DEFINE Kept == \A t \in Tags : SameOccurrence(t) /\ table[t].acknowledged
                                    /\ ~table'[t].acknowledged => t \in late
<1>1. ASSUME TypeInv, SafetyInv, [Next]_vars
      PROVE  Kept
  <2> USE <1>1 DEF TypeInv
  <2>1. CASE table' = table
    BY <2>1
  <2>2. CASE Save
    BY <2>2 DEF Save, Evaluated, SafetyInv, FlagsKnown, SameOccurrence
  <2>3. ASSUME NEW S \in SUBSET Tags, AckStep(S)
        PROVE  Kept
    BY <2>3, AckRowsType DEF AckStep, SameOccurrence
  <2>4. Quiet \/ Load \/ LoadFails \/ ReloadAcks \/ Crash => table' = table
    BY DEF Quiet, Load, LoadFails, ReloadAcks, Crash
  <2>5. \A t \in Tags : Raise(t) \/ Escalate(t) \/ Clear(t) => table' = table
    BY DEF Raise, Escalate, Clear
  <2> QED BY <2>1, <2>2, <2>3, <2>4, <2>5, StepCases
<1>2. TypeInv /\ SafetyInv /\ [Next]_vars => [Kept]_vars
  BY <1>1
<1> QED BY <1>2, SafetyInvariant, PTL DEF Spec, EarlyAckKept

-----------------------------------------------------------------------------
(* The engine implements the board.                                        *)

\* A row of the board, from an alarm of the table.
LEMMA RowOfAlarm ==
    ASSUME NEW a \in Alarm \cup {NoAlarm}
    PROVE  /\ RowOf(a) \in BoardRow \cup {NoAlarm}
           /\ RowOf(a) = NoAlarm <=> a = NoAlarm
           /\ a # NoAlarm => /\ RowOf(a).id = a.id
                             /\ RowOf(a).severity = a.severity
                             /\ RowOf(a).acknowledged = a.acknowledged
<1>1. CASE a = NoAlarm
  BY <1>1 DEF RowOf
<1>2. CASE a # NoAlarm
  <2>1. RowOf(a) = [id |-> a.id, severity |-> a.severity, acknowledged |-> a.acknowledged]
    BY <1>2 DEF RowOf
  <2>2. RowOf(a) \in BoardRow
    BY <1>2, <2>1 DEF Alarm, BoardRow
  <2> QED BY <1>2, <2>1, <2>2, EngineAssumption
<1> QED BY <1>1, <1>2

\* A board row is its three fields.
LEMMA AckedRow ==
    ASSUME NEW x, NEW y, NEW z
    PROVE  [[id |-> x, severity |-> y, acknowledged |-> z] EXCEPT !.acknowledged = TRUE]
           = [id |-> x, severity |-> y, acknowledged |-> TRUE]
<1> DEFINE r == [id |-> x, severity |-> y, acknowledged |-> z]
           s == [r EXCEPT !.acknowledged = TRUE]
<1>1. r \in [id : {x}, severity : {y}, acknowledged : {z}]
  OBVIOUS
<1> HIDE DEF r
<1>2. s \in [id : {x}, severity : {y}, acknowledged : {TRUE}]
  BY <1>1, Zenon
<1> HIDE DEF s
<1>3. s = [id |-> x, severity |-> y, acknowledged |-> TRUE]
  BY <1>2
<1> QED BY <1>3 DEF s, r

\* Acknowledging a row acknowledges the board's row.
LEMMA RowOfAcked ==
    ASSUME NEW a \in Alarm
    PROVE  RowOf([a EXCEPT !.acknowledged = TRUE]) = [RowOf(a) EXCEPT !.acknowledged = TRUE]
<1> DEFINE b == [a EXCEPT !.acknowledged = TRUE]
<1>1. b # NoAlarm /\ b.id = a.id /\ b.severity = a.severity /\ b.acknowledged = TRUE
  BY FlaggedAlarm
<1>2. a # NoAlarm
  BY EngineAssumption
<1>3. RowOf(a) = [id |-> a.id, severity |-> a.severity, acknowledged |-> a.acknowledged]
  BY <1>2 DEF RowOf
<1>4. RowOf(b) = [id |-> a.id, severity |-> a.severity, acknowledged |-> TRUE]
  BY <1>1 DEF RowOf
<1>5. [RowOf(a) EXCEPT !.acknowledged = TRUE]
      = [id |-> a.id, severity |-> a.severity, acknowledged |-> TRUE]
  BY <1>3, AckedRow
<1> QED BY <1>4, <1>5

LEMMA InitBoard == Init => Board!BoardInit
  BY DEF Init, Nothing, Board!BoardInit, RowOf, HandedOver

rows == [t \in Tags |-> RowOf(table[t])]
handed == [t \in Tags |-> HandedOver(t)]

\* A step that leaves the rows alone archives, or stutters.
LEMMA QuietBoard ==
    ASSUME TypeInv, TypeInv', [Next]_vars, table' = table
    PROVE  Board!Archive
<1>1. \A t \in Tags : HandedOver(t) \subseteq HandedOver(t)'
  BY HandedOverGrows
<1>2. \A t \in Tags : HandedOver(t)' \in SUBSET Occurrences
  BY DEF TypeInv, TypeOK, HandedOver
<1> QED BY <1>1, <1>2 DEF Board!Archive

LEMMA StepBoard ==
    ASSUME TypeInv, TypeInv', SafetyInv, [Next]_vars
    PROVE  [Board!BoardNext]_(Board!boardVars)
<1>1. CASE table' = table
  BY <1>1, QuietBoard DEF Board!BoardNext
<1>2. CASE Save
  <2>1. table' = active /\ history' = history /\ lost' = lost
    BY <1>2 DEF Save
  <2>2. pc # "down"
    BY <1>2 DEF Save, Evaluated
  <2>3. \A t \in Tags : active[t] \in Alarm \cup {NoAlarm} /\ table[t] \in Alarm \cup {NoAlarm}
    BY DEF TypeInv, TypeOK
  <2>4. rows' \in [Tags -> BoardRow \cup {NoAlarm}]
    BY <2>1, <2>3, RowOfAlarm DEF rows
  <2>5. ASSUME NEW t \in Tags
        PROVE  \/ rows'[t] = NoAlarm /\ (rows[t] = NoAlarm \/ rows[t].id \in handed[t])
               \/ /\ rows'[t] # NoAlarm
                  /\ \/ rows[t] # NoAlarm /\ rows'[t].id = rows[t].id
                     \/ rows[t] = NoAlarm \/ rows[t].id \in handed[t]
                  /\ rows'[t].acknowledged => (rows[t] # NoAlarm /\ rows[t].acknowledged)
    <3>1. rows'[t] = RowOf(active[t]) /\ rows[t] = RowOf(table[t]) /\ handed[t] = HandedOver(t)
      BY <2>1 DEF rows, handed
    <3>2. table[t] # NoAlarm =>
             table[t].id \in HandedOver(t) \/ (active[t] # NoAlarm /\ active[t].id = table[t].id)
      BY <2>2 DEF SafetyInv, RowsHandedOver
    <3>3. active[t] # NoAlarm /\ active[t].acknowledged => table[t] # NoAlarm /\ table[t].acknowledged
      BY DEF SafetyInv, AcksComeFromTable
    <3> QED BY <2>3, <3>1, <3>2, <3>3, RowOfAlarm
  <2>6. handed' = handed
    BY <2>1 DEF handed, HandedOver
  <2>7. Board!Publish
    BY <2>4, <2>5, <2>6 DEF Board!Publish, Board!Replaced, Board!Row, BoardRow, rows, handed
  <2> QED BY <2>7 DEF Board!BoardNext
<1>3. ASSUME NEW S \in SUBSET Tags, AckStep(S)
      PROVE  [Board!BoardNext]_(Board!boardVars)
  <2>1. \A t \in Tags : table'[t] = IF t \in S THEN [table[t] EXCEPT !.acknowledged = TRUE]
                                    ELSE table[t]
    BY <1>3 DEF AckStep, AckRows
  <2>2. \A t \in S : table[t] # NoAlarm /\ table[t] \in Alarm
    BY <1>3 DEF AckStep, TypeInv, TypeOK
  <2>3. \A t \in S : RowOf(table[t]) # NoAlarm
    BY <2>2, RowOfAlarm
  <2>4. \A t \in Tags : RowOf(table'[t]) = IF t \in S THEN [RowOf(table[t]) EXCEPT !.acknowledged = TRUE]
                                           ELSE RowOf(table[t])
    BY <2>1, <2>2, RowOfAcked
  <2>5. S \in SUBSET {t \in Tags : rows[t] # NoAlarm}
    BY <2>3 DEF rows
  <2>6. rows' = [t \in Tags |-> IF t \in S THEN [rows[t] EXCEPT !.acknowledged = TRUE] ELSE rows[t]]
    BY <2>4 DEF rows
  <2>7. handed' = handed
    BY <1>3 DEF AckStep, handed, HandedOver
  <2>8. Board!Acknowledge
    BY <2>5, <2>6, <2>7 DEF Board!Acknowledge, rows, handed
  <2> QED BY <2>8 DEF Board!BoardNext
<1>4. Quiet \/ Load \/ LoadFails \/ ReloadAcks \/ Crash => table' = table
  BY DEF Quiet, Load, LoadFails, ReloadAcks, Crash
<1>5. \A t \in Tags : Raise(t) \/ Escalate(t) \/ Clear(t) => table' = table
  BY DEF Raise, Escalate, Clear
<1> QED BY <1>1, <1>2, <1>3, <1>4, <1>5, StepCases DEF TypeInv

\* Every behaviour of the engine, crashes and faults included, is a behaviour of
\* the board: rows are published, archived and acknowledged, and nothing else.
THEOREM EngineImplementsBoard == Spec => ImplementsBoard
<1>1. Init => Board!BoardInit
  BY InitBoard
<1>2. TypeInv /\ TypeInv' /\ SafetyInv /\ [Next]_vars => [Board!BoardNext]_(Board!boardVars)
  BY StepBoard
<1> QED BY <1>1, <1>2, SafetyInvariant, PTL DEF Spec, ImplementsBoard, Board!BoardSpec
=============================================================================
