---------------------------- MODULE AlarmEngine ----------------------------
(***************************************************************************)
(* The alarm engine: the poller process evaluates tag values against the   *)
(* configured limits (evaluate_alarms, save_alarms, load_alarms in         *)
(* admin/poller.py) while operators acknowledge through the API process    *)
(* (admin/routes/alarm_routes.py).  The two share nothing but the SQLite   *)
(* tables alarms and alarm_history.                                        *)
(*                                                                         *)
(* One poll cycle is: load_config and poll (Poll), reload the acknowledged *)
(* flags (ReloadAcks), one step per tag (Skip, WithinLimits, Sustain,      *)
(* Raise, Escalate), one step per cleared alarm (Clear), and the           *)
(* transaction that replaces the table (Save).  Each insert into           *)
(* alarm_history commits on its own.  The process may crash between any    *)
(* two steps; every restart begins with Load.  Any SQLite statement may    *)
(* fail; the code logs that and goes on.  Its fallback file alarms.json is *)
(* left out: a fault is one in which the fallback fails too.               *)
(*                                                                         *)
(* An alarm's timestamp identifies its occurrence; here it is the number   *)
(* of the occurrence among those raised for the tag.                       *)
(***************************************************************************)
EXTENDS AlarmThresholds, Naturals

CONSTANTS Tags,            \* device/alias pairs
          Values,          \* numeric values a tag may be read with
          TagConfigs,      \* TagConfigs[t]: limits an administrator may set for t
          NoLimits,        \* the tag has no alarmThresholds
          NoAlarm,         \* no entry under a key
          Operators,       \* concurrent acknowledge requests
          Views,           \* sets of tags a user's plants make visible
          MaxOccurrences,  \* bound: occurrences raised per tag
          MaxCrashes,      \* bound: crashes of the poller
          MaxFaults        \* bound: SQLite statements that fail

Occurrences == 1..MaxOccurrences

Alarm == [id : Occurrences, severity : Severities, condition : {"high", "low"},
          acknowledged : BOOLEAN]

\* What the API's readers need of it.
BoardRow == [id : Occurrences, severity : Severities, acknowledged : BOOLEAN]

\* alarmThresholds of one tag: its own limits, and profiles keyed by whenValue.
IsTagConfig(c) ==
    /\ DOMAIN c = {"default", "conditionTag", "profiles"}
    /\ c.default \in Thresholds
    /\ c.conditionTag \in Tags \cup {NoTag}
    /\ DOMAIN c.profiles \subseteq Int
    /\ \A v \in DOMAIN c.profiles : c.profiles[v] \in Thresholds

ASSUME EngineAssumption ==
    /\ Values \subseteq Int
    /\ Offline \notin Int
    /\ NoTag \notin Tags
    /\ \A t \in Tags : \A c \in TagConfigs[t] : IsTagConfig(c) /\ c # NoLimits
    /\ NoAlarm \notin Alarm /\ NoAlarm \notin BoardRow
    /\ Views \subseteq SUBSET Tags
    /\ MaxOccurrences \in Nat /\ MaxCrashes \in Nat /\ MaxFaults \in Nat

VARIABLES
    config,      \* config[t]: alarmThresholds of t in the config file, or NoLimits
    pc,          \* where the poller is in its cycle
    cycleConfig, \* the config object this cycle loaded
    reading,     \* reading[t]: this cycle's value, or Offline
    todo,        \* tags the evaluation loop has not reached
    normal,      \* normal_keys: tags read within limits this cycle
    active,      \* _alarms["active"]: in memory
    table,       \* the SQLite table alarms
    history,     \* history[t][i]: rows of alarm_history for occurrence i of t
    request,     \* request[o]: the tag an acknowledge request has looked up, or NoTag
    (* observation only: nothing in the code reads these *)
    raised,      \* raised[t]: occurrences raised so far
    published,   \* published[t]: occurrences that were ever a row of the table
    lost,        \* lost[t]: occurrences whose insert into alarm_history failed
    acked,       \* acked[t]: occurrences whose row an operator's UPDATE has hit
    ackedInHistory, \* ackedInHistory[t]: occurrences archived as acknowledged
    late,        \* tags acknowledged since this cycle's ReloadAcks
    crashes,     \* crashes so far
    faults,      \* SQLite failures so far
    outOfStep    \* a Load or a Save has failed

pollerVars == <<pc, cycleConfig, reading, todo, normal, active>>
ghostVars  == <<raised, published, lost, acked, ackedInHistory, late, crashes, faults, outOfStep>>
vars == <<config, pollerVars, table, history, request, ghostVars>>

AnyTagConfig == UNION {TagConfigs[t] : t \in Tags}

\* The alarmThresholds of every tag that has some.
Configs == {c \in [Tags -> AnyTagConfig \cup {NoLimits}] :
              \A t \in Tags : c[t] \in TagConfigs[t] \cup {NoLimits}}

PollerStates == {"down", "idle", "polled", "evaluating"}

TypeOK ==
    /\ config \in Configs
    /\ pc \in PollerStates
    /\ cycleConfig \in Configs
    /\ reading \in [Tags -> Values \cup {Offline}]
    /\ todo \subseteq Tags /\ normal \subseteq Tags
    /\ active \in [Tags -> Alarm \cup {NoAlarm}]
    /\ table \in [Tags -> Alarm \cup {NoAlarm}]
    /\ history \in [Tags -> [Occurrences -> Nat]]
    /\ request \in [Operators -> Tags \cup {NoTag}]
    /\ raised \in [Tags -> 0..MaxOccurrences]
    /\ published \in [Tags -> SUBSET Occurrences]
    /\ lost \in [Tags -> SUBSET Occurrences]
    /\ acked \in [Tags -> SUBSET Occurrences]
    /\ ackedInHistory \in [Tags -> SUBSET Occurrences]
    /\ late \subseteq Tags
    /\ crashes \in 0..MaxCrashes /\ faults \in 0..MaxFaults
    /\ outOfStep \in BOOLEAN

Nothing == [t \in Tags |-> NoAlarm]

Init ==
    /\ config \in Configs
    /\ pc = "down"
    /\ cycleConfig = [t \in Tags |-> NoLimits]
    /\ reading = [t \in Tags |-> Offline]
    /\ todo = {} /\ normal = {}
    /\ active = Nothing /\ table = Nothing
    /\ history = [t \in Tags |-> [i \in Occurrences |-> 0]]
    /\ request = [o \in Operators |-> NoTag]
    /\ raised = [t \in Tags |-> 0]
    /\ published = [t \in Tags |-> {}]
    /\ lost = [t \in Tags |-> {}]
    /\ acked = [t \in Tags |-> {}]
    /\ ackedInHistory = [t \in Tags |-> {}]
    /\ late = {}
    /\ crashes = 0 /\ faults = 0 /\ outOfStep = FALSE

-----------------------------------------------------------------------------
(* Configuration (set, change or remove alarmThresholds; delete the tag).  *)

SetLimits(t, c) ==
    /\ config' = [config EXCEPT ![t] = c]
    /\ UNCHANGED <<pollerVars, table, history, request, ghostVars>>

-----------------------------------------------------------------------------
(* The poller.  Cycle-local variables hold their initial values outside a  *)
(* cycle.  A definition named Slip_... is a plausible slip in the one of   *)
(* its name, for the mutation check, and is used nowhere in the model.     *)

Fault == faults < MaxFaults /\ faults' = faults + 1

EndCycle ==
    /\ pc' = "idle"
    /\ cycleConfig' = [t \in Tags |-> NoLimits]
    /\ reading' = [t \in Tags |-> Offline]
    /\ todo' = {} /\ normal' = {}

\* load_alarms at startup.
Load ==
    /\ pc = "down"
    /\ active' = table
    /\ late' = {}
    /\ pc' = "idle"
    /\ UNCHANGED <<config, cycleConfig, reading, todo, normal, table, history, request, raised,
                   published, lost, acked, ackedInHistory, crashes, faults, outOfStep>>

\* The SELECT failed and alarms.json cannot be read: the poller starts with an
\* empty memory, so what the table held can no longer be archived.
LoadFails ==
    /\ pc = "down"
    /\ Fault
    /\ active' = Nothing
    /\ lost' = [t \in Tags |-> IF table[t] = NoAlarm THEN lost[t] ELSE lost[t] \cup {table[t].id}]
    /\ outOfStep' = TRUE
    /\ pc' = "idle"
    /\ UNCHANGED <<config, cycleConfig, reading, todo, normal, table, history, request, raised,
                   published, acked, ackedInHistory, late, crashes>>

\* The grade of a tag in this cycle, given what is active in memory.
Grade(t, tagCfg, values) == Severity(Resolve(tagCfg, values), values[t], active[t] # NoAlarm)

StartsOccurrence(t, tagCfg, values) ==
    /\ tagCfg # NoLimits /\ values[t] # Offline
    /\ Grade(t, tagCfg, values) # "normal"
    /\ active[t] = NoAlarm \/ active[t].severity # Grade(t, tagCfg, values)

\* load_config and poll_once: any combination of values and unread tags.  The
\* last conjunct is the bound on occurrences.
Poll(values) ==
    /\ pc = "idle"
    /\ \A t \in Tags : StartsOccurrence(t, config[t], values) => raised[t] < MaxOccurrences
    /\ pc' = "polled"
    /\ cycleConfig' = config
    /\ reading' = values
    /\ UNCHANGED <<config, todo, normal, active, table, history, request, ghostVars>>

\* "if not threshold_map: return"
NothingConfigured ==
    /\ pc = "polled"
    /\ \A t \in Tags : cycleConfig[t] = NoLimits
    /\ EndCycle
    /\ UNCHANGED <<config, active, table, history, request, ghostVars>>

Slip_ReloadNothing ==
    /\ pc = "polled"
    /\ \E t \in Tags : cycleConfig[t] # NoLimits
    /\ late' = {}
    /\ todo' = Tags
    /\ pc' = "evaluating"
    /\ UNCHANGED <<config, cycleConfig, reading, normal, active, table, history, request, raised,
                   published, lost, acked, ackedInHistory, crashes, faults, outOfStep>>

\* SELECT ... WHERE acknowledged = 1: by key, whichever occurrence the row is.
ReloadAcks ==
    /\ pc = "polled"
    /\ \E t \in Tags : cycleConfig[t] # NoLimits
    /\ active' = [t \in Tags |->
                    IF active[t] # NoAlarm /\ table[t] # NoAlarm /\ table[t].acknowledged
                    THEN [active[t] EXCEPT !.acknowledged = TRUE] ELSE active[t]]
    /\ late' = {}
    /\ todo' = Tags
    /\ pc' = "evaluating"
    /\ UNCHANGED <<config, cycleConfig, reading, normal, table, history, request, raised,
                   published, lost, acked, ackedInHistory, crashes, faults, outOfStep>>

ReloadAcksFails ==
    /\ pc = "polled"
    /\ \E t \in Tags : cycleConfig[t] # NoLimits
    /\ Fault
    /\ todo' = Tags
    /\ pc' = "evaluating"
    /\ UNCHANGED <<config, cycleConfig, reading, normal, active, table, history, request, raised,
                   published, lost, acked, ackedInHistory, late, crashes, outOfStep>>

Reached(t) == pc = "evaluating" /\ t \in todo /\ todo' = todo \ {t}

Skip(t) ==
    /\ Reached(t)
    /\ cycleConfig[t] = NoLimits \/ reading[t] = Offline
    /\ UNCHANGED <<config, pc, cycleConfig, reading, normal, active, table, history, request,
                   ghostVars>>

Graded(t) == Reached(t) /\ cycleConfig[t] # NoLimits /\ reading[t] # Offline

WithinLimits(t) ==
    /\ Graded(t)
    /\ Grade(t, cycleConfig[t], reading) = "normal"
    /\ normal' = normal \cup {t}
    /\ UNCHANGED <<config, pc, cycleConfig, reading, active, table, history, request, ghostVars>>

\* Same severity: only value and lastUpdate of the alarm change.
Sustain(t) ==
    /\ Graded(t)
    /\ active[t] # NoAlarm
    /\ active[t].severity = Grade(t, cycleConfig[t], reading)
    /\ UNCHANGED <<config, pc, cycleConfig, reading, normal, active, table, history, request,
                   ghostVars>>

NewAlarm(t) ==
    /\ raised' = [raised EXCEPT ![t] = @ + 1]
    /\ active' = [active EXCEPT ![t] =
          [id |-> raised[t] + 1,
           severity |-> Grade(t, cycleConfig[t], reading),
           condition |-> Condition(Resolve(cycleConfig[t], reading), reading[t],
                                   active[t] # NoAlarm),
           acknowledged |-> FALSE]]

Raise(t) ==
    /\ Graded(t)
    /\ active[t] = NoAlarm
    /\ Grade(t, cycleConfig[t], reading) # "normal"
    /\ NewAlarm(t)
    /\ UNCHANGED <<config, pc, cycleConfig, reading, normal, table, history, request, published,
                   lost, acked, ackedInHistory, late, crashes, faults, outOfStep>>

\* _save_alarm_history_entry: an INSERT that commits at once, or is lost.
InsertHistory(t) ==
    \/ /\ history' = [history EXCEPT ![t][active[t].id] = @ + 1]
       /\ ackedInHistory' = IF active[t].acknowledged
                            THEN [ackedInHistory EXCEPT ![t] = @ \cup {active[t].id}]
                            ELSE ackedInHistory
       /\ UNCHANGED <<lost, faults>>
    \/ /\ Fault
       /\ lost' = [lost EXCEPT ![t] = @ \cup {active[t].id}]
       /\ UNCHANGED <<history, ackedInHistory>>

Slip_Escalate(t) ==
    /\ Graded(t)
    /\ active[t] # NoAlarm
    /\ Grade(t, cycleConfig[t], reading) \notin {"normal", active[t].severity}
    /\ NewAlarm(t)
    /\ UNCHANGED <<config, pc, cycleConfig, reading, normal, table, history, request, published,
                   lost, acked, ackedInHistory, late, crashes, faults, outOfStep>>

\* Another severity: the old alarm goes to the history, a new one begins.
Escalate(t) ==
    /\ Graded(t)
    /\ active[t] # NoAlarm
    /\ Grade(t, cycleConfig[t], reading) \notin {"normal", active[t].severity}
    /\ InsertHistory(t)
    /\ NewAlarm(t)
    /\ UNCHANGED <<config, pc, cycleConfig, reading, normal, table, request, published,
                   acked, late, crashes, outOfStep>>

\* Alarms read as normal, and orphans: alarms of tags without limits.
Ended(t) == active[t] # NoAlarm /\ (t \in normal \/ cycleConfig[t] = NoLimits)

Clear(t) ==
    /\ pc = "evaluating" /\ todo = {}
    /\ Ended(t)
    /\ InsertHistory(t)
    /\ active' = [active EXCEPT ![t] = NoAlarm]
    /\ UNCHANGED <<config, pc, cycleConfig, reading, todo, normal, table, request, raised,
                   published, acked, late, crashes, outOfStep>>

Evaluated == pc = "evaluating" /\ todo = {} /\ \A t \in Tags : ~Ended(t)

\* save_alarms: upsert every active alarm, delete every other row, commit.
Save ==
    /\ Evaluated
    /\ table' = active
    /\ published' = [t \in Tags |-> IF active[t] = NoAlarm THEN published[t]
                                    ELSE published[t] \cup {active[t].id}]
    /\ EndCycle
    /\ UNCHANGED <<config, active, history, request, raised, lost, acked, ackedInHistory, late,
                   crashes, faults, outOfStep>>

SaveFails ==
    /\ Evaluated
    /\ Fault
    /\ outOfStep' = TRUE
    /\ EndCycle
    /\ UNCHANGED <<config, active, table, history, request, raised, published, lost, acked,
                   ackedInHistory, late, crashes>>

\* The poller process ends; the container's entrypoint then stops the API too
\* and everything is started again.
Crash ==
    /\ pc # "down" /\ crashes < MaxCrashes
    /\ crashes' = crashes + 1
    /\ pc' = "down"
    /\ cycleConfig' = [t \in Tags |-> NoLimits]
    /\ reading' = [t \in Tags |-> Offline]
    /\ todo' = {} /\ normal' = {}
    /\ active' = Nothing
    /\ request' = [o \in Operators |-> NoTag]
    /\ UNCHANGED <<config, table, history, raised, published, lost, acked, ackedInHistory, late,
                   faults, outOfStep>>

-----------------------------------------------------------------------------
(* The API.  An acknowledge request looks the row up and then, after an    *)
(* await, updates it by key.                                               *)

AckLookup(o, t, view) ==
    /\ request[o] = NoTag
    /\ table[t] # NoAlarm          \* otherwise 404
    /\ t \in view                  \* otherwise 403
    /\ request' = [request EXCEPT ![o] = t]
    /\ UNCHANGED <<config, pollerVars, table, history, ghostVars>>

\* UPDATE alarms SET acknowledged = 1 ... for the rows of the tags S.
AckRows(S) ==
    /\ table' = [t \in Tags |-> IF t \in S THEN [table[t] EXCEPT !.acknowledged = TRUE]
                                ELSE table[t]]
    /\ acked' = [t \in Tags |-> IF t \in S THEN acked[t] \cup {table[t].id} ELSE acked[t]]
    /\ late' = late \cup S

AckUpdate(o) ==
    /\ request[o] # NoTag
    /\ AckRows({t \in {request[o]} : table[t] # NoAlarm})
    /\ request' = [request EXCEPT ![o] = NoTag]
    /\ UNCHANGED <<config, pollerVars, history, raised, published, lost, ackedInHistory, crashes,
                   faults, outOfStep>>

AckAll(view) ==
    /\ AckRows({t \in view : table[t] # NoAlarm /\ ~table[t].acknowledged})
    /\ UNCHANGED <<config, pollerVars, history, request, raised, published, lost, ackedInHistory,
                   crashes, faults, outOfStep>>

-----------------------------------------------------------------------------
PollerStep ==
    \/ Load \/ LoadFails
    \/ \E values \in [Tags -> Values \cup {Offline}] : Poll(values)
    \/ NothingConfigured
    \/ ReloadAcks \/ ReloadAcksFails
    \/ \E t \in Tags : Skip(t) \/ WithinLimits(t) \/ Sustain(t) \/ Raise(t) \/ Escalate(t)
    \/ \E t \in Tags : Clear(t)
    \/ Save \/ SaveFails
    \/ Crash

ApiStep ==
    \/ \E o \in Operators, view \in Views, t \in Tags : AckLookup(o, t, view)
    \/ \E o \in Operators : AckUpdate(o)
    \/ \E view \in Views : AckAll(view)

Next ==
    \/ \E t \in Tags : \E c \in TagConfigs[t] \cup {NoLimits} : SetLimits(t, c)
    \/ PollerStep
    \/ ApiStep

Spec == Init /\ [][Next]_vars

-----------------------------------------------------------------------------
\* No alarm is forgotten: an occurrence that was ever a row of the table is
\* still one or has been handed to alarm_history, whatever crashes and failed
\* transactions came between the steps of a cycle.
HistoryComplete ==
    \A t \in Tags : \A i \in published[t] :
        \/ table[t] # NoAlarm /\ table[t].id = i
        \/ history[t][i] > 0
        \/ i \in lost[t]

\* An occurrence is written to alarm_history at most once in each life of the
\* poller process: only a crash between the insert and Save can repeat it.
HistoryOncePerLife ==
    \A t \in Tags, i \in Occurrences : history[t][i] <= 1 + crashes

\* As long as every Load and Save has worked, an acknowledged flag, in memory,
\* in the table or in the history, belongs to an occurrence whose own row an
\* operator updated: a new or escalated alarm never inherits one.
AckNotInvented ==
    ~outOfStep =>
        \A t \in Tags :
            /\ active[t] # NoAlarm /\ active[t].acknowledged => active[t].id \in acked[t]
            /\ table[t] # NoAlarm /\ table[t].acknowledged => table[t].id \in acked[t]
            /\ ackedInHistory[t] \subseteq acked[t]

\* Between two cycles, until the flags are reloaded, the table the API serves is
\* the engine's own state, but for acknowledgements that have come in since.
TableIsMemory ==
    pc \in {"idle", "polled"} /\ ~outOfStep =>
        \A t \in Tags :
            /\ table[t] = NoAlarm <=> active[t] = NoAlarm
            /\ active[t] # NoAlarm =>
                 /\ table[t].id = active[t].id
                 /\ table[t].severity = active[t].severity
                 /\ active[t].acknowledged => table[t].acknowledged

SameOccurrence(t) ==
    table[t] # NoAlarm /\ table'[t] # NoAlarm /\ table[t].id = table'[t].id

\* An acknowledgement that was in the table when the cycle reloaded the flags
\* outlives the cycle: only one that came in later can be lost.
EarlyAckKept ==
    [][\A t \in Tags : SameOccurrence(t) /\ table[t].acknowledged /\ ~table'[t].acknowledged
          => t \in late]_vars

-----------------------------------------------------------------------------
(* The inductive invariant behind these, proved in AlarmProofs.            *)

HandedOver(t) == {i \in Occurrences : history[t][i] > 0} \cup lost[t]

\* Occurrence numbers are issued in order and never reused.
Numbered ==
    \A t \in Tags :
        /\ active[t] # NoAlarm => active[t].id <= raised[t]
        /\ table[t] # NoAlarm => table[t].id <= raised[t]
        /\ \A i \in published[t] : i <= raised[t]
        /\ \A i \in Occurrences : history[t][i] > 0 => i <= raised[t]

\* A row the engine no longer holds in memory has been handed over: this is what
\* lets Save delete or overwrite it.
RowsHandedOver ==
    pc # "down" =>
        \A t \in Tags : table[t] # NoAlarm =>
            \/ table[t].id \in HandedOver(t)
            \/ active[t] # NoAlarm /\ active[t].id = table[t].id

\* An active alarm has been archived in earlier lives of the process only.
ActiveNotArchived ==
    \A t \in Tags :
        /\ active[t] # NoAlarm => history[t][active[t].id] <= crashes
        /\ pc = "down" => \A i \in Occurrences : history[t][i] <= crashes

\* Memory learns of acknowledgements from the table, never the other way round.
AcksComeFromTable ==
    \A t \in Tags : active[t] # NoAlarm /\ active[t].acknowledged =>
                        table[t] # NoAlarm /\ table[t].acknowledged

\* Memory knows every acknowledgement that did not come in since it last reloaded.
FlagsKnown ==
    pc # "down" =>
        \A t \in Tags :
            /\ active[t] # NoAlarm /\ table[t] # NoAlarm /\ active[t].id = table[t].id
            /\ table[t].acknowledged
            => active[t].acknowledged \/ t \in late

SafetyInv ==
    /\ Numbered
    /\ RowsHandedOver
    /\ HistoryComplete
    /\ ActiveNotArchived
    /\ HistoryOncePerLife
    /\ AcksComeFromTable
    /\ TableIsMemory
    /\ AckNotInvented
    /\ FlagsKnown

-----------------------------------------------------------------------------
\* The detailed engine implements the board: the rows without their condition,
\* and the occurrences handed to alarm_history.
RowOf(a) == IF a = NoAlarm THEN NoAlarm
            ELSE [id |-> a.id, severity |-> a.severity, acknowledged |-> a.acknowledged]

Board == INSTANCE AlarmBoard WITH
            row <- [t \in Tags |-> RowOf(table[t])],
            archive <- [t \in Tags |-> HandedOver(t)]

ImplementsBoard == Board!BoardSpec
=============================================================================
