----------------------------- MODULE AlarmBoard -----------------------------
(***************************************************************************)
(* What the alarm engine promises to whoever reads the database (the API,  *)
(* the WebSocket bridge, the chat notifier): one row per tag in alarm, and *)
(* an archive of the occurrences that have ended.  A row never disappears  *)
(* and is never overwritten by a new occurrence before the old one has     *)
(* been handed to the archive.  Only an operator acknowledges.             *)
(***************************************************************************)
CONSTANTS Tags, Occurrences, Severities, NoAlarm

VARIABLES row,       \* row[t]: NoAlarm, or the published occurrence of t
          archive    \* archive[t]: the occurrences of t handed to alarm_history

boardVars == <<row, archive>>

Row == [id : Occurrences, severity : Severities, acknowledged : BOOLEAN]

BoardInit ==
    /\ row = [t \in Tags |-> NoAlarm]
    /\ archive = [t \in Tags |-> {}]

\* Occurrences have ended (cleared, escalated, their limits removed).
Archive ==
    /\ archive' \in [Tags -> SUBSET Occurrences]
    /\ \A t \in Tags : archive[t] \subseteq archive'[t]
    /\ UNCHANGED row

\* The whole table is replaced in one transaction.  A row may stay, leave once
\* archived, or give way to another occurrence once archived.  Publishing never
\* sets the acknowledged flag: at most it carries over what the row had.
Replaced(t) == row[t] = NoAlarm \/ row[t].id \in archive[t]

Publish ==
    /\ row' \in [Tags -> Row \cup {NoAlarm}]
    /\ \A t \in Tags :
          \/ row'[t] = NoAlarm /\ Replaced(t)
          \/ /\ row'[t] # NoAlarm
             /\ (row[t] # NoAlarm /\ row'[t].id = row[t].id) \/ Replaced(t)
             /\ row'[t].acknowledged => (row[t] # NoAlarm /\ row[t].acknowledged)
    /\ UNCHANGED archive

\* An operator acknowledges one published alarm, or every one in view.
Acknowledge ==
    /\ \E S \in SUBSET {t \in Tags : row[t] # NoAlarm} :
          row' = [t \in Tags |-> IF t \in S THEN [row[t] EXCEPT !.acknowledged = TRUE]
                                 ELSE row[t]]
    /\ UNCHANGED archive

BoardNext == Archive \/ Publish \/ Acknowledge

BoardSpec == BoardInit /\ [][BoardNext]_boardVars
=============================================================================
