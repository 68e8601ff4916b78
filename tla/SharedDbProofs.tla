--------------------------- MODULE SharedDbProofs ---------------------------
(***************************************************************************)
(* What the shared database promises, for any number of processes,         *)
(* requests, schema versions and crashes.  The invariants are four: types, *)
(* the migrations of SchemaWhole, the open transactions of NothingLeftOpen *)
(* and, for AnswersKept, where the rows of a request are at every stage of *)
(* it (RowsKept), which needs that only a started process serves.          *)
(***************************************************************************)
EXTENDS SharedDb, FiniteSetTheorems, TLAPS

\* The recorded versions are the first ones.
RecordedFirst == \E n \in 0 .. Versions : recorded = 1 .. n

\* A process that migrates to a version has seen the ones before it recorded,
\* and the tables of the statements it has run.
Migrates(p) ==
    boot[p].at \in {"script", "record", "recorded"} =>
        /\ boot[p].version \in 1 .. Versions
        /\ 1 .. (boot[p].version - 1) \subseteq recorded
        /\ boot[p].piece \in 1 .. Pieces
        /\ {boot[p].version} \X (1 .. (boot[p].piece - 1)) \subseteq tables
        /\ boot[p].at # "script" => {boot[p].version} \X (1 .. Pieces) \subseteq tables

Whole ==
    /\ tables \subseteq (1 .. Versions) \X (1 .. Pieces)
    /\ boot \in [Procs -> [at : {"down", "script", "record", "recorded", "up"},
                           version : 0 .. NotYet, piece : 0 .. Pieces]]
    /\ RecordedFirst
    /\ recorded \X (1 .. Pieces) \subseteq tables
    /\ \A p \in Procs : Migrates(p) /\ (Up(p) => recorded = 1 .. Versions)

LEMMA FromNext ==
    ASSUME DbAssumption, NEW v \in 1 .. NotYet, Whole, 1 .. (v - 1) \subseteq recorded,
           NEW p \in Procs, Boots(p, From(v))
    PROVE  /\ boot' \in [Procs -> [at : {"down", "script", "record", "recorded", "up"},
                                   version : 0 .. NotYet, piece : 0 .. Pieces]]
           /\ \A q \in Procs \ {p} : boot'[q] = boot[q]
           /\ boot'[p] = From(v)
<1>1. From(v) \in [at : {"down", "script", "record", "recorded", "up"},
                   version : 0 .. NotYet, piece : 0 .. Pieces]
  BY DEF From, DbAssumption, NotYet
<1> QED
  BY <1>1 DEF Boots, Whole

LEMMA FirstRecorded ==
    ASSUME Versions \in Nat, RecordedFirst
    PROVE  /\ Newest \in 0 .. Versions
           /\ recorded = 1 .. Newest
<1>1. PICK n \in 0 .. Versions : recorded = 1 .. n
  BY DEF RecordedFirst
<1>2. Cardinality(1 .. n) = n
  BY <1>1, FS_Interval
<1> QED
  BY <1>1, <1>2 DEF Newest

LEMMA InitWhole == Init => Whole
<1> SUFFICES ASSUME Init PROVE Whole
  OBVIOUS
<1>1. recorded = 1 .. 0
  BY DEF Init
<1>2. \A p \in Procs : boot[p].at = "down"
  BY DEF Init, Starting
<1> QED
  BY <1>1, <1>2, DbAssumption
     DEF Init, Whole, RecordedFirst, Migrates, Up, Starting, NotYet, DbAssumption

LEMMA StepWhole == Whole /\ [Next]_vars => Whole'
<1> SUFFICES ASSUME Whole, [Next]_vars PROVE Whole'
  OBVIOUS
<1> USE DbAssumption DEF DbAssumption
<1>0. ASSUME UNCHANGED schemaVars PROVE Whole'
  BY <1>0 DEF schemaVars, Whole, Migrates, RecordedFirst, Up
<1>1. ASSUME NEW p \in Procs, ReadVersion(p) PROVE Whole'
  <2>1. Newest \in 0 .. Versions /\ recorded = 1 .. Newest
    BY FirstRecorded DEF Whole
  <2>2. Newest + 1 \in 1 .. NotYet
    BY <2>1 DEF NotYet
  <2>3. /\ boot' \in [Procs -> [at : {"down", "script", "record", "recorded", "up"},
                                version : 0 .. NotYet, piece : 0 .. Pieces]]
        /\ \A q \in Procs \ {p} : boot'[q] = boot[q]
        /\ boot'[p] = From(Newest + 1)
    BY <1>1, <2>1, <2>2, FromNext DEF ReadVersion
  <2>4. UNCHANGED <<tables, recorded>>
    BY <1>1 DEF ReadVersion
  <2>5. Migrates(p)' /\ (Up(p) => recorded = 1 .. Versions)'
    BY <2>1, <2>3, <2>4 DEF Migrates, From, Up
  <2>6. \A q \in Procs \ {p} : Migrates(q)' /\ (Up(q) => recorded = 1 .. Versions)'
    BY <2>3, <2>4 DEF Migrates, Up, Whole
  <2> QED
    BY <2>3, <2>4, <2>5, <2>6 DEF Whole, RecordedFirst
<1>2. ASSUME NEW p \in Procs, CreateTable(p) PROVE Whole'
  <2>1. /\ boot[p].version \in 1 .. Versions
        /\ 1 .. (boot[p].version - 1) \subseteq recorded
        /\ boot[p].piece \in 1 .. Pieces
        /\ {boot[p].version} \X (1 .. (boot[p].piece - 1)) \subseteq tables
    BY <1>2 DEF Whole, Migrates, CreateTable
  <2>2. /\ tables' = tables \cup {<<boot[p].version, boot[p].piece>>}
        /\ recorded' = recorded
        /\ boot' = [boot EXCEPT ![p] = Following(boot[p])]
    BY <1>2 DEF CreateTable, Boots
  <2>3. Following(boot[p]) \in [at : {"script", "record"}, version : 0 .. NotYet,
                                piece : 0 .. Pieces]
    BY <1>2, <2>1 DEF Following, Whole, CreateTable
  <2>4. /\ boot'[p] = Following(boot[p])
        /\ \A q \in Procs \ {p} : boot'[q] = boot[q]
    BY <2>2 DEF Whole
  <2>5. ASSUME boot[p].piece < Pieces PROVE Migrates(p)'
    <3>1. boot'[p] = [boot[p] EXCEPT !.piece = @ + 1]
      BY <2>4, <2>5 DEF Following
    <3>2. /\ boot'[p].at = "script" /\ boot'[p].version = boot[p].version
          /\ boot'[p].piece = boot[p].piece + 1
      BY <1>2, <3>1 DEF Whole, CreateTable
    <3>3. 1 .. (boot'[p].piece - 1) = (1 .. (boot[p].piece - 1)) \cup {boot[p].piece}
      BY <2>1, <3>2
    <3>4. {boot'[p].version} \X (1 .. (boot'[p].piece - 1)) \subseteq tables'
      BY <2>1, <2>2, <3>2, <3>3
    <3> QED
      BY <2>1, <2>2, <2>5, <3>2, <3>4 DEF Migrates
  <2>6. ASSUME boot[p].piece = Pieces PROVE Migrates(p)'
    <3>1. boot'[p] = [boot[p] EXCEPT !.at = "record"]
      BY <2>4, <2>6 DEF Following
    <3>2. /\ boot'[p].at = "record" /\ boot'[p].version = boot[p].version
          /\ boot'[p].piece = boot[p].piece
      BY <1>2, <3>1 DEF Whole, CreateTable
    <3>3. 1 .. Pieces = (1 .. (boot[p].piece - 1)) \cup {boot[p].piece}
      BY <2>1, <2>6
    <3>4. {boot'[p].version} \X (1 .. Pieces) \subseteq tables'
      BY <2>1, <2>2, <3>2, <3>3
    <3> QED
      BY <2>1, <2>2, <3>2, <3>4 DEF Migrates
  <2>7. Migrates(p)' /\ ~Up(p)'
    <3>1. Migrates(p)'
      BY <2>1, <2>5, <2>6
    <3>2. ~Up(p)'
      BY <2>3, <2>4 DEF Up
    <3> QED
      BY <3>1, <3>2
  <2>8. \A q \in Procs \ {p} : Migrates(q)' /\ (Up(q) => recorded = 1 .. Versions)'
    BY <2>2, <2>4 DEF Migrates, Up, Whole
  <2>9. boot' \in [Procs -> [at : {"down", "script", "record", "recorded", "up"},
                             version : 0 .. NotYet, piece : 0 .. Pieces]]
    BY <2>2, <2>3 DEF Whole
  <2>10. tables' \subseteq (1 .. Versions) \X (1 .. Pieces)
    BY <2>1, <2>2 DEF Whole
  <2>11. (recorded \X (1 .. Pieces) \subseteq tables)'
    BY <2>2 DEF Whole
  <2>12. RecordedFirst'
    BY <2>2 DEF Whole, RecordedFirst
  <2> QED
    BY <2>7, <2>8, <2>9, <2>10, <2>11, <2>12 DEF Whole
<1>3. ASSUME NEW p \in Procs, InsertVersion(p) PROVE Whole'
  <2>1. /\ boot' = [boot EXCEPT ![p] = [boot[p] EXCEPT !.at = "recorded"]]
        /\ UNCHANGED <<tables, recorded>> /\ boot[p].at = "record"
    BY <1>3 DEF InsertVersion, Boots
  <2>2. /\ boot'[p].at = "recorded" /\ boot'[p].version = boot[p].version
        /\ boot'[p].piece = boot[p].piece
        /\ \A q \in Procs \ {p} : boot'[q] = boot[q]
    BY <2>1 DEF Whole
  <2>3. boot' \in [Procs -> [at : {"down", "script", "record", "recorded", "up"},
                             version : 0 .. NotYet, piece : 0 .. Pieces]]
    BY <2>1 DEF Whole
  <2>4. \A q \in Procs : Migrates(q)' /\ (Up(q) => recorded = 1 .. Versions)'
    BY <2>1, <2>2 DEF Whole, Migrates, Up
  <2> QED
    BY <2>1, <2>3, <2>4 DEF Whole, RecordedFirst
<1>4. ASSUME NEW p \in Procs, CommitVersion(p) PROVE Whole'
  <2> DEFINE v == boot[p].version
  <2>1. /\ v \in 1 .. Versions
        /\ 1 .. (v - 1) \subseteq recorded
        /\ {v} \X (1 .. Pieces) \subseteq tables
    BY <1>4 DEF Whole, Migrates, CommitVersion
  <2>2. recorded' = recorded \cup {v} /\ tables' = tables /\ Boots(p, From(v + 1))
    BY <1>4 DEF CommitVersion
  <2> HIDE DEF v
  <2>3. RecordedFirst'
    <3>1. PICK n \in 0 .. Versions : recorded = 1 .. n
      BY DEF Whole, RecordedFirst
    <3>2. n >= v - 1
      <4>1. CASE v = 1
        BY <4>1
      <4>2. CASE v > 1
        <5>1. v - 1 \in recorded
          BY <2>1, <4>2
        <5> QED
          BY <2>1, <3>1, <5>1
      <4> QED
        BY <2>1, <4>1, <4>2
    <3>3. CASE n >= v
      <4>1. recorded' = 1 .. n
        BY <2>1, <2>2, <3>1, <3>3
      <4> QED
        BY <4>1 DEF RecordedFirst
    <3>4. CASE n = v - 1
      <4>1. recorded' = 1 .. v
        BY <2>1, <2>2, <3>1, <3>4
      <4> QED
        BY <2>1, <4>1 DEF RecordedFirst
    <3> QED
      BY <2>1, <3>2, <3>3, <3>4
  <2>4. 1 .. v \subseteq recorded' /\ v + 1 \in 1 .. NotYet
    BY <2>1, <2>2 DEF NotYet
  <2>5. recorded' \subseteq 1 .. Versions
    BY <2>3 DEF RecordedFirst
  <2>6. From(v + 1) \in [at : {"script", "up"}, version : 0 .. NotYet, piece : 0 .. Pieces]
    BY <2>4 DEF From, NotYet
  <2>7. /\ boot' = [boot EXCEPT ![p] = From(v + 1)]
        /\ boot'[p] = From(v + 1)
        /\ \A q \in Procs \ {p} : boot'[q] = boot[q]
    BY <2>2 DEF Boots, Whole
  <2>8. boot' \in [Procs -> [at : {"down", "script", "record", "recorded", "up"},
                             version : 0 .. NotYet, piece : 0 .. Pieces]]
    BY <2>6, <2>7 DEF Whole
  <2>9. (recorded \X (1 .. Pieces) \subseteq tables)'
    BY <2>1, <2>2 DEF Whole
  <2>10. Migrates(p)'
    <3>1. CASE v = Versions
      <4>1. boot'[p].at = "up"
        BY <2>7, <3>1 DEF From
      <4> QED
        BY <4>1 DEF Migrates
    <3>2. CASE v < Versions
      <4>1. boot'[p] = [at |-> "script", version |-> v + 1, piece |-> 1]
        BY <2>1, <2>7, <3>2 DEF From
      <4>2. 1 .. ((v + 1) - 1) \subseteq recorded' /\ v + 1 \in 1 .. Versions
        BY <2>1, <2>4, <3>2
      <4>3. {v + 1} \X (1 .. (1 - 1)) = {}
        OBVIOUS
      <4> QED
        BY <4>1, <4>2, <4>3 DEF Migrates
    <3> QED
      BY <2>1, <3>1, <3>2
  <2>11. (Up(p) => recorded = 1 .. Versions)'
    <3>1. CASE v = Versions
      BY <2>4, <2>5, <3>1
    <3>2. CASE v < Versions
      <4>1. boot'[p].at = "script"
        BY <2>1, <2>7, <3>2 DEF From
      <4> QED
        BY <4>1 DEF Up
    <3> QED
      BY <2>1, <3>1, <3>2
  <2>12. \A q \in Procs \ {p} : Migrates(q)' /\ (Up(q) => recorded = 1 .. Versions)'
    BY <2>2, <2>5, <2>7 DEF Migrates, Up, Whole
  <2> QED
    BY <2>2, <2>3, <2>8, <2>9, <2>10, <2>11, <2>12 DEF Whole
<1>5. CASE Crash
  <2>1. UNCHANGED <<tables, recorded>> /\ \A p \in Procs : boot'[p].at = "down"
    BY <1>5 DEF Crash, Starting
  <2>2. boot' \in [Procs -> [at : {"down", "script", "record", "recorded", "up"},
                             version : 0 .. NotYet, piece : 0 .. Pieces]]
    BY <1>5 DEF Crash, Starting, NotYet
  <2> QED
    BY <2>1, <2>2 DEF Whole, RecordedFirst, Migrates, Up
<1>6. ASSUME NEW r \in Requests, Handle(r) PROVE Whole'
  BY <1>0, <1>6 DEF Handle, Lookup, Insert, Reject, InsertFails, Commit, AppendNote, TrimOpen,
     TrimWrite, AuditInsert, AuditCommit, AuditFails, AuditAppend, Read
<1>7. ASSUME NEW r \in Requests, NEW kind, NEW p \in Procs, Ask(r, kind, p) PROVE Whole'
  BY <1>0, <1>7 DEF Ask
<1>8. CASE Checkpoint \/ Prune \/ PruneFails \/ PruneCommit \/ OtherWrites \/ OtherCommits
  BY <1>0, <1>8 DEF Checkpoint, Prune, PruneFails, PruneCommit, OtherWrites, OtherCommits
<1>9. CASE UNCHANGED vars
  BY <1>0, <1>9 DEF vars
<1> QED
  BY <1>1, <1>2, <1>3, <1>4, <1>5, <1>6, <1>7, <1>8, <1>9 DEF Next, Start

\* Wherever a start was interrupted and however the starts of two processes
\* interleave (database.py's _run_migrations), a recorded version has all its
\* tables and a process serves only when the tables of every version are there.
THEOREM SchemaIsWhole == Spec => []SchemaWhole
<1>1. Whole => SchemaWhole
  BY DEF Whole, SchemaWhole
<1> QED
  BY <1>1, InitWhole, StepWhole, PTL DEF Spec

-----------------------------------------------------------------------------
(* Types: Whole has the schema's.                                          *)

Connection == [open : BOOLEAN, seen : Int, writer : BOOLEAN, own : SUBSET Rows]
Request == [at : Stages, kind : {"none", "note", "type", "failure", "read"},
            proc : Procs, answer : {"none", "ok", "rejected", "failed"}]

RestTyped ==
    /\ rows \subseteq Rows /\ trail \subseteq Rows /\ gone \subseteq Rows /\ dropped \subseteq Rows
    /\ stamp \in Nat /\ inputs \in Nat
    /\ logbook \in Seq(Rows)
    /\ conn \in [Procs -> Connection]
    /\ req \in [Requests -> Request]
    /\ pruning \in 0 .. Prunes /\ pruned \in BOOLEAN /\ other \in BOOLEAN
    /\ failed \subseteq Procs

LEMMA InitTyped == Init => RestTyped
<1> SUFFICES ASSUME Init PROVE RestTyped
  OBVIOUS
<1>1. Closed \in Connection /\ NoRequest \in Request
  BY DbAssumption DEF Closed, NoRequest, Connection, Request, Stages, DbAssumption
<1>2. conn \in [Procs -> Connection] /\ req \in [Requests -> Request]
  BY <1>1 DEF Init
<1>3. pruned \in BOOLEAN /\ other \in BOOLEAN
  BY DEF Init
<1>4. logbook \in Seq(Rows)
  BY DEF Init
<1> QED
  BY <1>2, <1>3, <1>4, DbAssumption DEF Init, RestTyped, DbAssumption

\* What a SELECT changes of a connection: at most the commit it sees.
LEMMA Selected ==
    ASSUME RestTyped, NEW p \in Procs, Selects(p)
    PROVE  /\ conn' \in [Procs -> Connection]
           /\ \A q \in Procs : /\ conn'[q].open = conn[q].open
                               /\ conn'[q].own = conn[q].own
<1> USE DEF RestTyped, Connection
<1> DEFINE seen == IF conn[p].open /\ conn[p].seen = -1 THEN stamp ELSE conn[p].seen
<1>1. seen \in Int
  OBVIOUS
<1>2. conn' = [conn EXCEPT ![p] = [conn[p] EXCEPT !.seen = seen]]
  BY DEF Selects
<1> HIDE DEF seen
<1> QED
  BY <1>1, <1>2

\* The operators on connections and requests keep their types.
LEMMA Statements ==
    ASSUME RestTyped, NEW p \in Procs
    PROVE  /\ \A new \in SUBSET Rows : Writes(p, new) => conn' \in [Procs -> Connection]
           /\ StatementFails(p) => conn' \in [Procs -> Connection] /\ failed' \subseteq Procs
           /\ Selects(p) => conn' \in [Procs -> Connection]
           /\ Commits(p) => /\ rows' \subseteq Rows /\ stamp' \in Nat
                            /\ conn' \in [Procs -> Connection] /\ failed' \subseteq Procs
<1> USE DEF RestTyped, Connection
<1>1. ASSUME NEW new \in SUBSET Rows, Writes(p, new) PROVE conn' \in [Procs -> Connection]
  BY <1>1 DEF Writes
<1>2. ASSUME StatementFails(p)
      PROVE  conn' \in [Procs -> Connection] /\ failed' \subseteq Procs
  BY <1>2 DEF StatementFails
<1>3. ASSUME Selects(p) PROVE conn' \in [Procs -> Connection]
  BY <1>3, Selected
<1>4. ASSUME Commits(p)
      PROVE  /\ rows' \subseteq Rows /\ stamp' \in Nat
             /\ conn' \in [Procs -> Connection] /\ failed' \subseteq Procs
  BY <1>4 DEF Commits, Closed
<1> QED
  BY <1>1, <1>2, <1>3, <1>4

LEMMA Replies ==
    ASSUME RestTyped, NEW r \in Requests
    PROVE  /\ By(r) \in Procs /\ Entry(r) \in Rows /\ Audit(r) \in Rows
           /\ \A stage \in Stages : Goes(r, stage) => req' \in [Requests -> Request]
           /\ \A answer \in {"ok", "rejected", "failed"} :
                 Answers(r, answer) => req' \in [Requests -> Request]
<1> USE DEF RestTyped, Request
<1>1. By(r) \in Procs /\ Entry(r) \in Rows /\ Audit(r) \in Rows
  BY DEF By, Entry, Audit, Rows
<1>2. ASSUME NEW stage \in Stages, Goes(r, stage) PROVE req' \in [Requests -> Request]
  BY <1>2 DEF Goes
<1>3. ASSUME NEW answer \in {"ok", "rejected", "failed"}, Answers(r, answer)
      PROVE  req' \in [Requests -> Request]
  <2>1. req' = [req EXCEPT ![r] = [[req[r] EXCEPT !.at = "done"] EXCEPT !.answer = answer]]
    BY <1>3 DEF Answers
  <2>2. "done" \in Stages
    BY DEF Stages
  <2> QED
    BY <2>1, <2>2
<1> QED
  BY <1>1, <1>2, <1>3

\* What a trim leaves is lines of the file; the others are gone.
LEMMA TrimTyped ==
    ASSUME RestTyped, Trims
    PROVE  logbook' \in Seq(Rows) /\ gone' \subseteq Rows
<1> USE DbAssumption DEF DbAssumption
<1>1. logbook \in Seq(Rows) /\ gone \subseteq Rows
  BY DEF RestTyped
<1>2. ASSUME Len(logbook) > MaxLines
      PROVE  Kept \in Seq(Rows) /\ Len(Kept) = MaxLines
  BY <1>1, <1>2 DEF Kept
<1>3. ASSUME Len(logbook) > MaxLines, NEW n \in 0 .. MaxLines
      PROVE  SubSeq(Kept, 1, n) \in Seq(Rows)
  <2> HIDE DEF Kept
  <2> QED
    BY <1>2, <1>3
<1>4. logbook' \in Seq(Rows)
  BY <1>1, <1>3 DEF Trims, Left
<1>5. ToSet(logbook) \subseteq Rows
  BY <1>1 DEF ToSet
<1> QED
  BY <1>1, <1>4, <1>5 DEF Trims

LEMMA HandleTyped ==
    ASSUME RestTyped, NEW r \in Requests, Handle(r)
    PROVE  RestTyped'
<1> USE DEF taskVars, fileVars
<1>0. By(r) \in Procs /\ Entry(r) \in Rows /\ Audit(r) \in Rows
  BY Replies
<1>1. CASE Lookup(r) \/ Read(r)
  <2>1. conn' \in [Procs -> Connection]
    BY <1>0, <1>1, Statements DEF Lookup, Read
  <2>2. req' \in [Requests -> Request]
    BY <1>1, Replies DEF Lookup, Read, Stages
  <2> QED
    BY <1>1, <2>1, <2>2 DEF Lookup, Read, RestTyped
<1>2. CASE Insert(r)
  <2>1. conn' \in [Procs -> Connection]
    BY <1>0, <1>2, Statements DEF Insert
  <2>2. req' \in [Requests -> Request]
    BY <1>2, Replies DEF Insert, Stages
  <2> QED
    BY <1>2, <2>1, <2>2 DEF Insert, RestTyped
<1>3. CASE Reject(r)
  <2>1. conn' \in [Procs -> Connection]
    BY <1>0, <1>3, Statements DEF Reject, Rejected
  <2>2. req' \in [Requests -> Request]
    BY <1>3, Replies DEF Reject
  <2> QED
    BY <1>0, <1>3, <2>1, <2>2 DEF Reject, Rejected, RestTyped
<1>4. CASE InsertFails(r)
  <2>1. conn' \in [Procs -> Connection] /\ failed' \subseteq Procs
    BY <1>0, <1>4, Statements DEF InsertFails
  <2>2. req' \in [Requests -> Request]
    BY <1>4, Replies DEF InsertFails, Stages
  <2> QED
    BY <1>4, <2>1, <2>2 DEF InsertFails, RestTyped
<1>5. CASE Commit(r) \/ AuditCommit(r)
  <2>1. /\ rows' \subseteq Rows /\ stamp' \in Nat
        /\ conn' \in [Procs -> Connection] /\ failed' \subseteq Procs
    BY <1>0, <1>5, Statements DEF Commit, AuditCommit
  <2>2. req' \in [Requests -> Request]
    BY <1>5, Replies DEF Commit, AuditCommit, Stages
  <2> QED
    BY <1>5, <2>1, <2>2 DEF Commit, AuditCommit, RestTyped
<1>6. CASE AppendNote(r)
  <2>1. logbook' \in Seq(Rows)
    <3>1. logbook' = Append(logbook, Entry(r)) \/ logbook' = logbook
      BY <1>6 DEF AppendNote
    <3>2. logbook \in Seq(Rows)
      BY DEF RestTyped
    <3> QED
      BY <1>0, <3>1, <3>2
  <2>2. req' \in [Requests -> Request]
    BY <1>6, Replies DEF AppendNote, Stages
  <2>3. dropped' \subseteq Rows
    BY <1>0, <1>6 DEF AppendNote, RestTyped
  <2> QED
    BY <1>6, <2>1, <2>2, <2>3 DEF AppendNote, RestTyped, dbVars
<1>7. CASE TrimOpen(r)
  <2>1. req' \in [Requests -> Request]
    BY <1>7, Replies DEF TrimOpen, Stages
  <2> QED
    BY <1>7, <2>1 DEF TrimOpen, RestTyped, dbVars
<1>8. CASE TrimWrite(r)
  <2>1. logbook' \in Seq(Rows) /\ gone' \subseteq Rows
    BY <1>8, TrimTyped DEF TrimWrite
  <2>3. req' \in [Requests -> Request]
    BY <1>8, Replies DEF TrimWrite, Stages
  <2> QED
    BY <1>8, <2>1, <2>3 DEF TrimWrite, RestTyped, dbVars
<1>9. CASE AuditInsert(r)
  <2>1. conn' \in [Procs -> Connection]
    BY <1>0, <1>9, Statements DEF AuditInsert
  <2>2. req' \in [Requests -> Request]
    BY <1>9, Replies DEF AuditInsert, Audited, Stages
  <2> QED
    BY <1>9, <2>1, <2>2 DEF AuditInsert, RestTyped
<1>10. CASE AuditFails(r)
  <2>1. conn' \in [Procs -> Connection] /\ failed' \subseteq Procs
    BY <1>0, <1>10, Statements DEF AuditFails
  <2>2. req' \in [Requests -> Request]
    BY <1>10, Replies DEF AuditFails, Stages
  <2> QED
    BY <1>10, <2>1, <2>2 DEF AuditFails, RestTyped
<1>11. CASE AuditAppend(r)
  <2>1. req' \in [Requests -> Request]
    BY <1>11, Replies DEF AuditAppend
  <2> QED
    BY <1>0, <1>11, <2>1 DEF AuditAppend, RestTyped, dbVars
<1> QED
  BY <1>1, <1>2, <1>3, <1>4, <1>5, <1>6, <1>7, <1>8, <1>9, <1>10, <1>11 DEF Handle

LEMMA StepTyped == Whole /\ RestTyped /\ [Next]_vars => RestTyped'
<1> SUFFICES ASSUME Whole, RestTyped, [Next]_vars PROVE RestTyped'
  OBVIOUS
<1> USE DEF taskVars, fileVars, dbVars, schemaVars
<1>1. ASSUME NEW p \in Procs, Start(p) PROVE RestTyped'
  <2>1. CASE ReadVersion(p)
    BY <2>1 DEF ReadVersion, RestTyped
  <2>2. CASE CreateTable(p)
    BY <2>2 DEF CreateTable, RestTyped
  <2>3. CASE InsertVersion(p)
    <3>1. conn' \in [Procs -> Connection]
      BY <2>3, Statements DEF InsertVersion
    <3> QED
      BY <2>3, <3>1 DEF InsertVersion, RestTyped
  <2>4. CASE CommitVersion(p)
    BY <2>4 DEF CommitVersion, RestTyped, Closed, Connection
  <2> QED
    BY <1>1, <2>1, <2>2, <2>3, <2>4 DEF Start
<1>2. ASSUME NEW r \in Requests, NEW kind \in {"note", "type", "failure", "read"}, NEW p \in Procs,
             Ask(r, kind, p)
      PROVE  RestTyped'
  <2>1. req' \in [Requests -> Request]
    BY <1>2 DEF Ask, RestTyped, Request, Stages
  <2> QED
    BY <1>2, <2>1 DEF Ask, RestTyped
<1>3. CASE Checkpoint
  BY <1>3, DbAssumption DEF Checkpoint, RestTyped, DbAssumption
<1>4. CASE Prune
  <2>1. conn' \in [Procs -> Connection]
    BY <1>4, DbAssumption, Statements DEF Prune, DbAssumption
  <2> QED
    BY <1>4, <2>1 DEF Prune, RestTyped
<1>5. CASE PruneFails
  <2>1. conn' \in [Procs -> Connection] /\ failed' \subseteq Procs
    BY <1>5, DbAssumption, Statements DEF PruneFails, DbAssumption
  <2> QED
    BY <1>5, <2>1, DbAssumption DEF PruneFails, RestTyped, DbAssumption
<1>6. CASE PruneCommit
  <2>1. /\ rows' \subseteq Rows /\ stamp' \in Nat
        /\ conn' \in [Procs -> Connection] /\ failed' \subseteq Procs
    BY <1>6, DbAssumption, Statements DEF PruneCommit, DbAssumption
  <2> QED
    <3>1. pruned' \in BOOLEAN
      BY <1>6 DEF PruneCommit
    <3>2. pruning' \in 0 .. Prunes
      BY <1>6, DbAssumption DEF PruneCommit, RestTyped, DbAssumption
    <3> QED
      BY <1>6, <2>1, <3>1, <3>2 DEF PruneCommit, RestTyped
<1>7. CASE OtherWrites \/ OtherCommits
  <2>1. other' \in BOOLEAN
    BY <1>7 DEF OtherWrites, OtherCommits
  <2> QED
    BY <1>7, <2>1 DEF OtherWrites, OtherCommits, RestTyped
<1>8. CASE Crash
  <2>1. Closed \in Connection
    BY DEF Closed, Connection
  <2>2. \A r \in Requests : req'[r] \in Request
    BY <1>8 DEF Crash, RestTyped, Request, Stages
  <2>3. req' \in [Requests -> Request]
    BY <1>8, <2>2 DEF Crash
  <2>4. logbook' \in Seq(Rows) /\ gone' \subseteq Rows
    <3>1. CASE Unlocked
      BY <1>8, <3>1 DEF Crash, RestTyped
    <3>2. CASE ~Unlocked
      BY <1>8, <3>2, TrimTyped DEF Crash
    <3> QED
      BY <3>1, <3>2
  <2>5. conn' \in [Procs -> Connection]
    BY <1>8, <2>1 DEF Crash
  <2>6. pruned' \in BOOLEAN /\ other' \in BOOLEAN
    BY <1>8 DEF Crash
  <2>7. /\ rows' = rows /\ trail' = trail /\ dropped' = dropped /\ stamp' = stamp
        /\ inputs' = inputs + 1 /\ pruning' = 0 /\ failed' = {}
    BY <1>8 DEF Crash
  <2> QED
    BY <2>3, <2>4, <2>5, <2>6, <2>7, DbAssumption DEF RestTyped, DbAssumption
<1>9. CASE UNCHANGED vars
  BY <1>9 DEF vars, RestTyped
<1> QED
  BY <1>1, <1>2, <1>3, <1>4, <1>5, <1>6, <1>7, <1>8, <1>9, HandleTyped DEF Next

\* Every value of every variable is one the program can hold.
THEOREM TypesCorrect == Spec => []TypeOK
<1>1. Whole /\ RestTyped => TypeOK
  <2>1. ASSUME Whole PROVE recorded \subseteq 1 .. Versions
    BY <2>1, DbAssumption DEF Whole, RecordedFirst, DbAssumption
  <2> QED
    BY <2>1 DEF Whole, RestTyped, TypeOK, Connection, Request
<1> QED
  BY <1>1, InitWhole, StepWhole, InitTyped, StepTyped, PTL DEF Spec

-----------------------------------------------------------------------------
(* Open transactions.                                                      *)

LEMMA InitLeft == Init => NothingLeftOpen
BY DEF Init, NothingLeftOpen, Closed

LEMMA StepLeft == Whole /\ RestTyped /\ NothingLeftOpen /\ [Next]_vars => NothingLeftOpen'
<1> SUFFICES ASSUME Whole, RestTyped, NothingLeftOpen, [Next]_vars,
                    NEW p \in Procs, conn'[p].open
             PROVE  (Committing(p) \/ p \in failed)'
  BY DEF NothingLeftOpen
<1> USE DEF taskVars, fileVars, dbVars, schemaVars, RestTyped, Connection, Request
<1>0. ASSUME conn'[p].open => conn[p].open, failed \subseteq failed' \cup (Procs \ {p}),
             Committing(p) => Committing(p)'
      PROVE  (Committing(p) \/ p \in failed)'
  BY <1>0 DEF NothingLeftOpen
<1>1. ASSUME NEW q \in Procs, Start(q) PROVE (Committing(p) \/ p \in failed)'
  <2>1. CASE ReadVersion(q)
    BY <1>0, <2>1 DEF ReadVersion, Boots, Whole, Committing, By
  <2>2. CASE CreateTable(q)
    BY <1>0, <2>2 DEF CreateTable, Boots, Whole, Committing, By
  <2>3. CASE InsertVersion(q)
    <3>1. CASE q = p
      BY <2>3, <3>1 DEF InsertVersion, Boots, Whole, Committing
    <3>2. CASE q # p
      BY <1>0, <2>3, <3>2 DEF InsertVersion, Writes, Boots, Whole, Committing, By
    <3> QED
      BY <3>1, <3>2
  <2>4. CASE CommitVersion(q)
    <3>1. CASE q = p
      BY <2>4, <3>1 DEF CommitVersion, Closed
    <3>2. CASE q # p
      BY <1>0, <2>4, <3>2 DEF CommitVersion, Boots, Whole, Committing, By
    <3> QED
      BY <3>1, <3>2
  <2> QED
    BY <1>1, <2>1, <2>2, <2>3, <2>4 DEF Start
<1>2. ASSUME NEW r \in Requests, Handle(r) PROVE (Committing(p) \/ p \in failed)'
  <2>1. CASE Insert(r) \/ AuditInsert(r)
    <3>1. CASE By(r) = p
      BY <2>1, <3>1 DEF Insert, AuditInsert, Audited, Goes, By, Committing
    <3>2. CASE By(r) # p
      BY <1>0, <2>1, <3>2 DEF Insert, AuditInsert, At, Audited, Goes, Writes, By, Committing
    <3> QED
      BY <3>1, <3>2
  <2>2. CASE Reject(r) \/ InsertFails(r) \/ AuditFails(r)
    <3>1. CASE By(r) = p
      BY <2>2, <3>1 DEF Reject, Rejected, InsertFails, AuditFails, StatementFails
    <3>2. CASE By(r) # p
      BY <1>0, <2>2, <3>2 DEF Reject, Rejected, InsertFails, AuditFails, StatementFails, Writes,
         Goes, Answers, At, By, Committing
    <3> QED
      BY <3>1, <3>2
  <2>3. CASE Commit(r) \/ AuditCommit(r)
    <3>1. CASE By(r) = p
      BY <2>3, <3>1 DEF Commit, AuditCommit, Commits, Closed
    <3>2. CASE By(r) # p
      BY <1>0, <2>3, <3>2 DEF Commit, AuditCommit, Commits, Goes, Answers, At, By, Committing
    <3> QED
      BY <3>1, <3>2
  <2>4. CASE Lookup(r) \/ Read(r)
    <3>1. conn'[p].open = conn[p].open
      BY <2>4, Selected, Replies DEF Lookup, Read
    <3> QED
      BY <1>0, <2>4, <3>1 DEF Lookup, Read, Goes, Answers, At, By, Committing
  <2>5. CASE AppendNote(r) \/ TrimOpen(r) \/ TrimWrite(r) \/ AuditAppend(r)
    BY <1>0, <2>5 DEF AppendNote, TrimOpen, TrimWrite, AuditAppend, Goes, Answers, At, By,
       Committing
  <2> QED
    BY <1>2, <2>1, <2>2, <2>3, <2>4, <2>5 DEF Handle
<1>3. ASSUME NEW r \in Requests, NEW kind \in {"note", "type", "failure", "read"}, NEW q \in Procs,
             Ask(r, kind, q)
      PROVE  (Committing(p) \/ p \in failed)'
  BY <1>0, <1>3 DEF Ask, At, By, Committing
<1>4. CASE Checkpoint \/ OtherWrites \/ OtherCommits
  BY <1>0, <1>4 DEF Checkpoint, OtherWrites, OtherCommits, By, Committing
<1>5. CASE Prune
  <2>1. CASE Http = p
    BY <1>5, <2>1 DEF Prune, Committing
  <2>2. CASE Http # p
    BY <1>0, <1>5, <2>2, DbAssumption DEF Prune, Writes, By, Committing, DbAssumption
  <2> QED
    BY <2>1, <2>2
<1>6. CASE PruneFails
  <2>1. CASE Http = p
    BY <1>6, <2>1 DEF PruneFails, StatementFails
  <2>2. CASE Http # p
    BY <1>0, <1>6, <2>2, DbAssumption DEF PruneFails, StatementFails, By, Committing, DbAssumption
  <2> QED
    BY <2>1, <2>2
<1>7. CASE PruneCommit
  <2>1. CASE Http = p
    BY <1>7, <2>1 DEF PruneCommit, Commits, Closed
  <2>2. CASE Http # p
    BY <1>0, <1>7, <2>2, DbAssumption DEF PruneCommit, Commits, By, Committing, DbAssumption
  <2> QED
    BY <2>1, <2>2
<1>8. CASE Crash
  BY <1>8 DEF Crash, Closed
<1>9. CASE UNCHANGED vars
  BY <1>0, <1>9 DEF vars, Committing, By
<1> QED
  BY <1>1, <1>2, <1>3, <1>4, <1>5, <1>6, <1>7, <1>8, <1>9 DEF Next

\* A transaction nobody commits blocks every other writer: a process keeps one
\* open only while a task of it is between a statement and its commit, or after
\* a statement of it has failed (get_db in database.py never rolls back).
THEOREM NoTransactionForgotten == Spec => []NothingLeftOpen
BY InitWhole, StepWhole, InitTyped, StepTyped, InitLeft, StepLeft, PTL DEF Spec

-----------------------------------------------------------------------------
(* Rows.                                                                   *)

Ended(r) == req[r].at \in {"idle", "done", "lost"}

EntryStored(r) == Entry(r) \in rows \cup ToSet(logbook) \cup gone \cup dropped
EntryHeld(r) == Entry(r) \in rows \cup conn[By(r)].own
AuditStored(r) == Audit(r) \in rows \cup trail \cup dropped
AuditHeld(r) == Audit(r) \in rows \cup conn[By(r)].own

\* Where the rows of a request are at each stage of it, and who serves it.
RowKept(r) ==
    /\ Ended(r) \/ Up(By(r))
    /\ IF req[r].kind = "read" THEN req[r].at \in {"insert", "done", "lost"}
       ELSE /\ At(r, "commit") => EntryHeld(r)
            /\ req[r].at \in {"trim", "trimming", "audit", "auditCommit", "auditAppend"}
                  => EntryStored(r)
            /\ At(r, "auditCommit") => AuditHeld(r)
            /\ req[r].answer = "ok" => EntryStored(r) /\ AuditStored(r)

RowsKept == \A r \in Requests : RowKept(r)

\* No row goes away: what is committed or in a file stays, and what a started
\* process has not committed stays so or is committed.
Monotone ==
    /\ rows \subseteq rows' /\ trail \subseteq trail' /\ dropped \subseteq dropped'
    /\ ToSet(logbook) \cup gone \subseteq ToSet(logbook') \cup gone'
    /\ \A p \in Procs : Up(p) => conn[p].own \subseteq conn'[p].own \cup rows'
    /\ \A p \in Procs : Up(p) => Up(p)'

LEMMA Stays ==
    ASSUME RestTyped, Monotone, NEW r \in Requests, RowKept(r), req'[r] = req[r]
    PROVE  RowKept(r)'
<1>1. By(r) \in Procs
  BY DEF RestTyped, Request, By
<1>2. EntryStored(r) => EntryStored(r)'
  BY DEF Monotone, EntryStored, Entry
<1>3. AuditStored(r) => AuditStored(r)'
  BY DEF Monotone, AuditStored, Audit
<1>4. ~Ended(r) => Up(By(r)) /\ Up(By(r))'
  BY <1>1 DEF Monotone, RowKept, By, Up
<1>5. ~Ended(r) /\ EntryHeld(r) => EntryHeld(r)'
  BY <1>1, <1>4 DEF Monotone, EntryHeld, Entry, By
<1>6. ~Ended(r) /\ AuditHeld(r) => AuditHeld(r)'
  BY <1>1, <1>4 DEF Monotone, AuditHeld, Audit, By
<1>7. Ended(r)' = Ended(r) /\ (\A stage \in Stages : At(r, stage)' = At(r, stage))
  BY DEF Ended, At
<1>8. At(r, "commit")' = At(r, "commit") /\ At(r, "auditCommit")' = At(r, "auditCommit")
  BY DEF At
<1>9. At(r, "commit") \/ At(r, "auditCommit") => ~Ended(r)
  BY DEF At, Ended
<1> QED
  BY <1>2, <1>3, <1>4, <1>5, <1>6, <1>7, <1>8, <1>9 DEF RowKept

\* What one request's step does to the rows of all.
LEMMA HandleMonotone ==
    ASSUME Whole, RestTyped, NEW r \in Requests, Handle(r)
    PROVE  Monotone /\ \A q \in Requests \ {r} : req'[q] = req[q]
<1> USE DEF taskVars, fileVars, dbVars, schemaVars, Monotone, Up
<1>0. By(r) \in Procs
  BY Replies
<1>1. CASE Lookup(r) \/ Read(r)
  <2>1. \A q \in Procs : conn'[q].own = conn[q].own
    BY <1>0, <1>1, Selected DEF Lookup, Read
  <2> QED
    BY <1>1, <2>1 DEF Lookup, Read, Goes, Answers, RestTyped
<1>2. CASE Insert(r) \/ Reject(r) \/ AuditInsert(r)
  <2>1. PICK new \in SUBSET Rows : Writes(By(r), new)
    BY <1>0, <1>2, Replies DEF Insert, Reject, Rejected, AuditInsert
  <2>2. \A q \in Procs : conn[q].own \subseteq conn'[q].own
    BY <1>0, <2>1 DEF Writes, RestTyped, Connection
  <2> QED
    BY <1>2, <2>2 DEF Insert, Reject, AuditInsert, Audited, Goes, Answers, RestTyped
<1>3. CASE InsertFails(r) \/ AuditFails(r)
  <2>1. \A q \in Procs : conn[q].own = conn'[q].own
    <3>1. conn' = [conn EXCEPT ![By(r)] = [conn[By(r)] EXCEPT !.open = TRUE]]
      BY <1>3 DEF InsertFails, AuditFails, StatementFails
    <3> QED
      BY <1>0, <3>1 DEF RestTyped, Connection
  <2> QED
    BY <1>3, <2>1 DEF InsertFails, AuditFails, Goes, Answers, RestTyped
<1>4. CASE Commit(r) \/ AuditCommit(r)
  <2>1. rows' = rows \cup conn[By(r)].own /\ \A q \in Procs \ {By(r)} : conn'[q] = conn[q]
    BY <1>0, <1>4 DEF Commit, AuditCommit, Commits, RestTyped
  <2> QED
    BY <1>4, <2>1 DEF Commit, AuditCommit, Goes, Answers, RestTyped
<1>5. CASE AppendNote(r)
  <2>1. ToSet(logbook) \subseteq ToSet(logbook')
    BY <1>0, <1>5, Replies, SMTT(30) DEF AppendNote, RestTyped, ToSet
  <2> QED
    BY <1>5, <2>1 DEF AppendNote, Goes, RestTyped
<1>6. CASE TrimOpen(r) \/ AuditAppend(r)
  BY <1>6 DEF TrimOpen, AuditAppend, Goes, Answers, RestTyped
<1>7. CASE TrimWrite(r)
  <2>1. ToSet(logbook) \cup gone \subseteq ToSet(logbook') \cup gone'
    BY <1>7 DEF TrimWrite, Trims
  <2> QED
    BY <1>7, <2>1 DEF TrimWrite, Goes, RestTyped
<1> QED
  BY <1>1, <1>2, <1>3, <1>4, <1>5, <1>6, <1>7 DEF Handle

LEMMA InitRows == Init => RowsKept
BY DEF Init, RowsKept, RowKept, NoRequest, Ended, At

\* What one request's step does to its own rows.
LEMMA HandleKeeps ==
    ASSUME Whole, RestTyped, NEW r \in Requests, RowKept(r), Handle(r)
    PROVE  RowKept(r)'
<1> USE DEF RestTyped, Request
<1>0. By(r) \in Procs /\ Monotone
  BY Replies, HandleMonotone
<1>1. ~Ended(r) /\ Up(By(r))
  BY DEF RowKept, Ended, Handle, Lookup, Insert, Reject, InsertFails, Commit, AppendNote, TrimOpen,
     TrimWrite, AuditInsert, AuditCommit, AuditFails, AuditAppend, Read, At
<1>2. Up(By(r))' /\ By(r)' = By(r)
  BY <1>0, <1>1 DEF Handle, Lookup, Insert, Reject, InsertFails, Commit, AppendNote, TrimOpen,
     TrimWrite, AuditInsert, AuditCommit, AuditFails, AuditAppend, Read, Audited, Goes, Answers,
     By, Up, Monotone
<1>3. EntryStored(r) => EntryStored(r)'
  BY <1>0 DEF Monotone, EntryStored, Entry
<1>4. AuditStored(r) => AuditStored(r)'
  BY <1>0 DEF Monotone, AuditStored, Audit
<1>5. ASSUME NEW stage \in Stages, Goes(r, stage), stage # "commit", stage # "auditCommit",
             req[r].kind = "read" => stage = "insert", req[r].answer # "ok" \/ EntryStored(r),
             stage \in {"trim", "trimming", "audit", "auditAppend"} => EntryStored(r)'
      PROVE  RowKept(r)'
  BY <1>2, <1>3, <1>4, <1>5 DEF RowKept, Goes, At, Stages
<1>6. ASSUME NEW answer \in {"ok", "rejected", "failed"}, Answers(r, answer),
             req[r].kind # "read" /\ answer = "ok" => EntryStored(r)' /\ AuditStored(r)'
      PROVE  RowKept(r)'
  BY <1>2, <1>6 DEF RowKept, Answers, At, Ended
<1>7. CASE Lookup(r)
  BY <1>5, <1>6, <1>7 DEF Lookup, RowKept, At, Stages
<1>8. CASE Insert(r)
  <2>1. EntryHeld(r)'
    BY <1>0, <1>2, <1>8 DEF Insert, Writes, EntryHeld, Entry, Connection, By
  <2> QED
    BY <1>2, <1>3, <1>4, <1>8, <2>1 DEF Insert, Goes, RowKept, At
<1>9. CASE Reject(r)
  BY <1>6, <1>9 DEF Reject
<1>10. CASE InsertFails(r)
  BY <1>5, <1>6, <1>10 DEF InsertFails, RowKept, At, Stages
<1>11. CASE Commit(r)
  <2>1. EntryStored(r)' \/ req[r].kind = "read"
    BY <1>11 DEF Commit, Commits, EntryHeld, EntryStored, Entry, RowKept, At, By
  <2> QED
    BY <1>5, <1>11, <2>1 DEF Commit, RowKept, At, Stages
<1>12. CASE AppendNote(r)
  <2>1. ASSUME logbook' = Append(logbook, Entry(r))
        PROVE  Entry(r) \in ToSet(logbook')
    BY <2>1, Replies DEF ToSet
  <2>2. EntryStored(r)'
    <3>1. Entry(r) \in ToSet(logbook') \/ Entry(r) \in dropped'
      BY <1>12, <2>1 DEF AppendNote
    <3> QED
      BY <3>1 DEF EntryStored, Entry
  <2> QED
    BY <1>5, <1>12, <2>2 DEF AppendNote, RowKept, At, Stages
<1>13. CASE TrimOpen(r) \/ TrimWrite(r)
  BY <1>3, <1>5, <1>13 DEF TrimOpen, TrimWrite, RowKept, At, Stages
<1>14. CASE AuditInsert(r)
  <2>1. AuditHeld(r)'
    BY <1>0, <1>2, <1>14 DEF AuditInsert, Writes, AuditHeld, Audit, Connection, By
  <2> QED
    BY <1>2, <1>3, <1>4, <1>14, <2>1 DEF AuditInsert, Audited, Goes, RowKept, At
<1>15. CASE AuditCommit(r)
  <2>1. AuditStored(r)' \/ req[r].kind = "read"
    BY <1>15 DEF AuditCommit, Commits, AuditHeld, AuditStored, Audit, RowKept, At, By
  <2> QED
    BY <1>3, <1>6, <1>15, <2>1 DEF AuditCommit, RowKept, At
<1>16. CASE AuditFails(r)
  BY <1>3, <1>5, <1>16 DEF AuditFails, RowKept, At, Stages
<1>17. CASE AuditAppend(r)
  <2>1. AuditStored(r)'
    BY <1>17 DEF AuditAppend, AuditStored, Audit
  <2> QED
    BY <1>3, <1>6, <1>17, <2>1 DEF AuditAppend, RowKept, At
<1>18. CASE Read(r)
  BY <1>6, <1>18 DEF Read
<1> QED
  BY <1>7, <1>8, <1>9, <1>10, <1>11, <1>12, <1>13, <1>14, <1>15, <1>16, <1>17, <1>18 DEF Handle

LEMMA StepRows == Whole /\ RestTyped /\ RowsKept /\ [Next]_vars => RowsKept'
<1> SUFFICES ASSUME Whole, RestTyped, RowsKept, [Next]_vars PROVE RowsKept'
  OBVIOUS
<1> USE DEF taskVars, fileVars, dbVars, schemaVars
<1>0. ASSUME Monotone, req' = req PROVE RowsKept'
  BY <1>0, Stays DEF RowsKept
<1>1. ASSUME NEW p \in Procs, Start(p) PROVE RowsKept'
  <2>1. Monotone
    <3>1. ~Up(p)
      BY <1>1 DEF Start, ReadVersion, CreateTable, InsertVersion, CommitVersion, Up
    <3>2. \A q \in Procs \ {p} : conn'[q] = conn[q] /\ boot'[q] = boot[q]
      BY <1>1 DEF Start, ReadVersion, CreateTable, InsertVersion, CommitVersion, Boots, Writes,
         RestTyped, Whole
    <3> QED
      BY <1>1, <3>1, <3>2 DEF Start, ReadVersion, CreateTable, InsertVersion, CommitVersion,
         Monotone, Up
  <2> QED
    BY <1>0, <1>1, <2>1 DEF Start, ReadVersion, CreateTable, InsertVersion, CommitVersion
<1>2. ASSUME NEW r \in Requests, Handle(r) PROVE RowsKept'
  BY <1>2, HandleMonotone, HandleKeeps, Stays DEF RowsKept
<1>3. ASSUME NEW r \in Requests, NEW kind \in {"note", "type", "failure", "read"}, NEW p \in Procs,
             Ask(r, kind, p)
      PROVE  RowsKept'
  <2>1. Monotone /\ \A q \in Requests \ {r} : req'[q] = req[q]
    BY <1>3 DEF Ask, Monotone, RestTyped, Up
  <2>2. RowKept(r)'
    BY <1>3 DEF Ask, RowKept, RestTyped, Ended, At, By, Up
  <2> QED
    BY <2>1, <2>2, Stays DEF RowsKept
<1>4. CASE Checkpoint \/ OtherWrites \/ OtherCommits
  BY <1>0, <1>4 DEF Checkpoint, OtherWrites, OtherCommits, Monotone, Up
<1>5. CASE Prune
  <2>1. \A q \in Procs : conn[q].own \subseteq conn'[q].own
    BY <1>5, DbAssumption DEF Prune, Writes, RestTyped, Connection, DbAssumption
  <2> QED
    BY <1>0, <1>5, <2>1 DEF Prune, Monotone, Up
<1>6. CASE PruneFails
  <2>1. \A q \in Procs : conn[q].own = conn'[q].own
    <3>1. conn' = [conn EXCEPT ![Http] = [conn[Http] EXCEPT !.open = TRUE]]
      BY <1>6 DEF PruneFails, StatementFails
    <3> QED
      BY <3>1, DbAssumption DEF RestTyped, Connection, DbAssumption
  <2> QED
    BY <1>0, <1>6, <2>1 DEF PruneFails, Monotone, Up
<1>7. CASE PruneCommit
  BY <1>0, <1>7, DbAssumption DEF PruneCommit, Commits, Monotone, RestTyped, Up, DbAssumption
<1>8. CASE Crash
  <2> SUFFICES ASSUME NEW r \in Requests PROVE RowKept(r)'
    BY DEF RowsKept
  <2>1. /\ rows' = rows /\ trail' = trail /\ dropped' = dropped
        /\ ToSet(logbook) \cup gone \subseteq ToSet(logbook') \cup gone'
    <3>1. CASE Unlocked
      BY <1>8, <3>1 DEF Crash
    <3>2. CASE ~Unlocked
      BY <1>8, <3>2 DEF Crash, Trims
    <3> QED
      BY <1>8, <3>1, <3>2 DEF Crash
  <2>2. /\ req'[r].kind = req[r].kind /\ req'[r].answer = req[r].answer
        /\ req'[r].at = IF req[r].at \in {"idle", "done"} THEN req[r].at ELSE "lost"
    BY <1>8 DEF Crash, RestTyped, Request
  <2>3. EntryStored(r) => EntryStored(r)'
    BY <2>1 DEF EntryStored, Entry
  <2>4. AuditStored(r) => AuditStored(r)'
    BY <2>1 DEF AuditStored, Audit
  <2>5. RowKept(r)
    BY DEF RowsKept
  <2> QED
    BY <2>2, <2>3, <2>4, <2>5 DEF RowKept, Ended, At
<1>9. CASE UNCHANGED vars
  BY <1>0, <1>9 DEF vars, Monotone, Up
<1> QED
  BY <1>1, <1>2, <1>3, <1>4, <1>5, <1>6, <1>7, <1>8, <1>9 DEF Next

\* A write that was answered as done has its row and its audit row in the
\* database or in the fallback file, however the requests, failed statements
\* and commits of a process's one connection mix (get_db in database.py,
\* create_entry in logbook_routes.py, the audit middleware in audit.py), but
\* for the line a trim took and the one that could not be appended, which
\* audit_log and logbook_append pass over.
THEOREM AnswersAreKept == Spec => []AnswersKept
<1>1. RowsKept => AnswersKept
  BY DEF RowsKept, RowKept, AnswersKept, EntryStored, AuditStored
<1> QED
  BY <1>1, InitWhole, StepWhole, InitTyped, StepTyped, InitRows, StepRows, PTL DEF Spec
=============================================================================
