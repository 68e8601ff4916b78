------------------------------ MODULE SharedDb ------------------------------
(***************************************************************************)
(* The SQLite database of the two admin processes.  Each process has one   *)
(* connection for all its coroutines, so a statement, a commit or a failed *)
(* statement of one request belongs to the transaction of every other.     *)
(* The driver opens a transaction before a statement that writes and only  *)
(* a commit ends it: nothing in the code rolls back.  The poller and the   *)
(* predictor open connections of their own and write for a moment.         *)
(*                                                                         *)
(* Here are the migrations at start, the requests that write rows (a shift *)
(* log entry, a failure type, a failure), the audit row that follows each  *)
(* one, their fallback files, the readers, and the hourly maintenance.     *)
(***************************************************************************)
EXTENDS Integers, SequencesExt

CONSTANTS
    Procs,       \* the admin processes
    Http,        \* the one that runs the background tasks
    Requests,    \* identifiers of requests
    Versions,    \* number of schema versions
    Pieces,      \* statements in the script of a version
    Prunes,      \* DELETE statements of a maintenance round
    MaxLines,    \* lines kept by a trim of the fallback log
    MaxInputs    \* bound on requests, rounds, writes of others and crashes

ASSUME DbAssumption ==
    /\ Http \in Procs
    /\ Versions \in Nat \ {0} /\ Pieces \in Nat \ {0} /\ Prunes \in Nat \ {0}
    /\ MaxLines \in Nat /\ MaxInputs \in Nat

VARIABLES
    tables,    \* tables that exist: version and piece
    recorded,  \* rows of schema_version
    rows,      \* committed rows the requests wrote
    stamp,     \* commits so far that changed the database
    conn,      \* the connection of each process
    boot,      \* how far each process is with its start
    req,       \* the requests
    pruning,   \* the maintenance task: 0 asleep, else its statement
    pruned,    \* whether that statement has run and waits for its commit
    other,     \* whether another program is between a write and its commit
    logbook,   \* logbook.jsonl
    trail,     \* audit-trail.jsonl
    gone,      \* history: rows that a trim took away
    dropped,   \* history: rows whose line could not be appended to a file either
    failed,    \* history: processes in which a statement failed since their last commit
    inputs     \* requests, rounds, writes of others and crashes so far

schemaVars == <<tables, recorded, boot>>
fileVars == <<logbook, trail, gone, dropped>>
dbVars == <<rows, stamp, conn, failed>>
taskVars == <<pruning, pruned, other, inputs>>
vars == <<schemaVars, fileVars, dbVars, taskVars, req>>

NotYet == Versions + 1 \* a version no process migrates to

Entry(r) == <<r, "entry">>
Audit(r) == <<r, "audit">>
Rows == Requests \X {"entry", "audit"}

(* open: a transaction has begun; seen: the commit its reads and writes see, *)
(* -1 for none yet; writer: it holds the write lock; own: rows not committed. *)
Closed == [open |-> FALSE, seen |-> -1, writer |-> FALSE, own |-> {}]
Starting == [at |-> "down", version |-> 0, piece |-> 0]
NoRequest == [at |-> "idle", kind |-> "none", proc |-> Http, answer |-> "none"]

Init ==
    /\ tables = {} /\ recorded = {}
    /\ rows = {} /\ stamp = 0
    /\ conn = [p \in Procs |-> Closed]
    /\ boot = [p \in Procs |-> Starting]
    /\ req = [r \in Requests |-> NoRequest]
    /\ pruning = 0 /\ pruned = FALSE /\ other = FALSE
    /\ logbook = <<>> /\ trail = {} /\ gone = {} /\ dropped = {}
    /\ failed = {}
    /\ inputs = 0

Up(p) == boot[p].at = "up"

-----------------------------------------------------------------------------
(* Statements.  One that writes needs the write lock, and a transaction that *)
(* has read needs the database to be as it was then.                         *)
LockFree(p) == ~other /\ \A q \in Procs \ {p} : ~conn[q].writer
CanWrite(p) == LockFree(p) /\ conn[p].seen \in {-1, stamp}

Writes(p, new) ==
    conn' = [conn EXCEPT ![p] = [open |-> TRUE, seen |-> stamp, writer |-> TRUE,
                                 own |-> @.own \cup new]]

(* A statement that cannot write fails, at once or after the busy timeout; *)
(* the transaction the driver has begun for it stays open.                 *)
StatementFails(p) ==
    /\ ~CanWrite(p)
    /\ conn' = [conn EXCEPT ![p].open = TRUE]
    /\ failed' = failed \cup {p}

Commits(p) ==
    /\ rows' = rows \cup conn[p].own
    /\ stamp' = IF conn[p].own = {} THEN stamp ELSE stamp + 1
    /\ conn' = [conn EXCEPT ![p] = Closed]
    /\ failed' = failed \ {p}

-----------------------------------------------------------------------------
(* Start: the newest recorded version is read once, then the script of each *)
(* missing version runs statement by statement, each committed by itself    *)
(* and each doing nothing when its table exists, and its row is added.      *)
Newest == Cardinality(recorded)
From(v) == IF v > Versions THEN [at |-> "up", version |-> v, piece |-> 0]
           ELSE [at |-> "script", version |-> v, piece |-> 1]
Boots(p, b) == boot' = [boot EXCEPT ![p] = b]

ReadVersion(p) ==
    /\ boot[p].at = "down"
    /\ Boots(p, From(Newest + 1))
    /\ UNCHANGED <<tables, recorded, fileVars, dbVars, taskVars, req>>

(* Mutant: a script whose first table exists is taken to have run. *)
Slip_Following(b) ==
    IF b.piece < Pieces /\ <<b.version, b.piece>> \notin tables
    THEN [b EXCEPT !.piece = @ + 1] ELSE [b EXCEPT !.at = "record"]

Following(b) ==
    IF b.piece < Pieces THEN [b EXCEPT !.piece = @ + 1] ELSE [b EXCEPT !.at = "record"]

CreateTable(p) ==
    /\ boot[p].at = "script" /\ LockFree(p)
    /\ LET table == <<boot[p].version, boot[p].piece>> IN
         /\ tables' = tables \cup {table}
         /\ stamp' = IF table \in tables THEN stamp ELSE stamp + 1
    /\ Boots(p, Following(boot[p]))
    /\ UNCHANGED <<recorded, rows, conn, failed, fileVars, taskVars, req>>

InsertVersion(p) ==
    /\ boot[p].at = "record" /\ CanWrite(p)
    /\ Writes(p, {})
    /\ Boots(p, [boot[p] EXCEPT !.at = "recorded"])
    /\ UNCHANGED <<tables, recorded, rows, stamp, failed, fileVars, taskVars, req>>

CommitVersion(p) ==
    /\ boot[p].at = "recorded"
    /\ recorded' = recorded \cup {boot[p].version}
    /\ stamp' = IF boot[p].version \in recorded THEN stamp ELSE stamp + 1
    /\ conn' = [conn EXCEPT ![p] = Closed]
    /\ Boots(p, From(boot[p].version + 1))
    /\ UNCHANGED <<tables, rows, failed, fileVars, taskVars, req>>

-----------------------------------------------------------------------------
(* Requests: "note" adds a shift log entry, "type" adds a failure type whose *)
(* name must be new, "failure" reports a failure, of a type it looks up      *)
(* first, "read" is any GET that selects.                                    *)
Goes(r, stage) == req' = [req EXCEPT ![r].at = stage]
Answers(r, answer) == req' = [req EXCEPT ![r].at = "done", ![r].answer = answer]
At(r, stage) == req[r].at = stage
By(r) == req[r].proc

Ask(r, kind, p) ==
    /\ At(r, "idle") /\ Up(p) /\ inputs < MaxInputs
    /\ inputs' = inputs + 1
    /\ req' = [req EXCEPT ![r] = [at |-> IF kind = "failure" THEN "lookup" ELSE "insert",
                                  kind |-> kind, proc |-> p, answer |-> "none"]]
    /\ UNCHANGED <<schemaVars, fileVars, dbVars, pruning, pruned, other>>

(* A SELECT within an open transaction sees the database as it is now, and  *)
(* so does every later one until the commit.                                *)
Selects(p) ==
    conn' = [conn EXCEPT ![p].seen = IF conn[p].open /\ @ = -1 THEN stamp ELSE @]

(* The type of a failure is found, or it is not: 400. *)
Lookup(r) ==
    /\ At(r, "lookup")
    /\ Selects(By(r))
    /\ Goes(r, "insert") \/ Answers(r, "rejected")
    /\ UNCHANGED <<rows, stamp, failed, schemaVars, fileVars, taskVars>>

(* All failure types that are added have one name. *)
Taken(r) ==
    /\ req[r].kind = "type"
    /\ \E q \in Requests : req[q].kind = "type" /\ Entry(q) \in rows \cup conn[By(r)].own

Insert(r) ==
    /\ At(r, "insert") /\ req[r].kind # "read"
    /\ CanWrite(By(r)) /\ ~Taken(r)
    /\ Writes(By(r), {Entry(r)})
    /\ Goes(r, "commit")
    /\ UNCHANGED <<rows, stamp, failed, schemaVars, fileVars, taskVars>>

(* Mutant: the transaction is rolled back, and with it the rows other       *)
(* requests of the process have not committed.                              *)
Slip_Rejected(r) ==
    /\ conn' = [conn EXCEPT ![By(r)] = Closed]
    /\ failed' = failed

(* The name is taken: 409, and the transaction stays open with the lock. *)
Rejected(r) ==
    /\ Writes(By(r), {})
    /\ failed' = failed \cup {By(r)}

Reject(r) ==
    /\ At(r, "insert") /\ CanWrite(By(r)) /\ Taken(r)
    /\ Rejected(r)
    /\ Answers(r, "rejected")
    /\ UNCHANGED <<rows, stamp, schemaVars, fileVars, taskVars>>

(* A note goes to the file instead; the others are answered with 500. *)
InsertFails(r) ==
    /\ At(r, "insert") /\ req[r].kind # "read"
    /\ StatementFails(By(r))
    /\ IF req[r].kind = "note" THEN Goes(r, "append") ELSE Answers(r, "failed")
    /\ UNCHANGED <<rows, stamp, schemaVars, fileVars, taskVars>>

Commit(r) ==
    /\ At(r, "commit")
    /\ Commits(By(r))
    /\ Goes(r, "audit")
    /\ UNCHANGED <<schemaVars, fileVars, taskVars>>

(* The lock of logbook.jsonl is free while nobody is trimming it. *)
Unlocked == \A r \in Requests : ~At(r, "trimming")

(* Every error of the append is passed over: the entry is answered all the same. *)
AppendNote(r) ==
    /\ At(r, "append") /\ Unlocked
    /\ \/ logbook' = Append(logbook, Entry(r)) /\ UNCHANGED dropped
       \/ dropped' = dropped \cup {Entry(r)} /\ UNCHANGED logbook
    /\ \/ Goes(r, "audit")
       \/ Goes(r, "trim")
    /\ UNCHANGED <<trail, gone, schemaVars, dbVars, taskVars>>

(* One append in a hundred trims the file, which is rewritten in place when  *)
(* it is too long; no line of the instance is a year old.                    *)
Kept == SubSeq(logbook, Len(logbook) - MaxLines + 1, Len(logbook))

(* What it leaves: the last lines, or as many of them as were written when  *)
(* the rewrite fails or is cut short, or the file when it cannot be opened. *)
Left == IF Len(logbook) <= MaxLines THEN {logbook}
        ELSE {logbook} \cup {SubSeq(Kept, 1, n) : n \in 0 .. MaxLines}

Trims ==
    /\ logbook' \in Left
    /\ gone' = gone \cup (ToSet(logbook) \ ToSet(logbook'))

TrimOpen(r) ==
    /\ At(r, "trim") /\ Unlocked
    /\ Goes(r, "trimming")
    /\ UNCHANGED <<schemaVars, fileVars, dbVars, taskVars>>

TrimWrite(r) ==
    /\ At(r, "trimming")
    /\ Trims
    /\ Goes(r, "audit")
    /\ UNCHANGED <<trail, dropped, schemaVars, dbVars, taskVars>>

(* Mutant: the audit row is left to the next commit. *)
Slip_Audited(r) == Answers(r, "ok")

Audited(r) == Goes(r, "auditCommit")

(* The middleware adds the audit row of a request that succeeded. *)
AuditInsert(r) ==
    /\ At(r, "audit") /\ CanWrite(By(r))
    /\ Writes(By(r), {Audit(r)})
    /\ Audited(r)
    /\ UNCHANGED <<rows, stamp, failed, schemaVars, fileVars, taskVars>>

AuditCommit(r) ==
    /\ At(r, "auditCommit")
    /\ Commits(By(r))
    /\ Answers(r, "ok")
    /\ UNCHANGED <<schemaVars, fileVars, taskVars>>

AuditFails(r) ==
    /\ At(r, "audit")
    /\ StatementFails(By(r))
    /\ Goes(r, "auditAppend")
    /\ UNCHANGED <<rows, stamp, schemaVars, fileVars, taskVars>>

AuditAppend(r) ==
    /\ At(r, "auditAppend")
    /\ \/ trail' = trail \cup {Audit(r)} /\ UNCHANGED dropped
       \/ dropped' = dropped \cup {Audit(r)} /\ UNCHANGED trail
    /\ Answers(r, "ok")
    /\ UNCHANGED <<logbook, gone, schemaVars, dbVars, taskVars>>

Read(r) ==
    /\ At(r, "insert") /\ req[r].kind = "read"
    /\ Selects(By(r))
    /\ Answers(r, "ok")
    /\ UNCHANGED <<rows, stamp, failed, schemaVars, fileVars, taskVars>>

-----------------------------------------------------------------------------
(* Maintenance: the checkpoint fails in a transaction that has read or      *)
(* written, and with it the round.  No row of the instance is a year old.   *)
Checkpoint ==
    /\ pruning = 0 /\ Up(Http) /\ inputs < MaxInputs
    /\ conn[Http].seen = -1
    /\ pruning' = 1
    /\ inputs' = inputs + 1
    /\ UNCHANGED <<pruned, other, schemaVars, fileVars, dbVars, req>>

Prune ==
    /\ pruning > 0 /\ ~pruned /\ CanWrite(Http)
    /\ Writes(Http, {})
    /\ pruned' = TRUE
    /\ UNCHANGED <<pruning, other, inputs, rows, stamp, failed, schemaVars, fileVars, req>>

PruneFails ==
    /\ pruning > 0 /\ ~pruned
    /\ StatementFails(Http)
    /\ pruning' = 0
    /\ UNCHANGED <<pruned, other, inputs, rows, stamp, schemaVars, fileVars, req>>

PruneCommit ==
    /\ pruned
    /\ Commits(Http)
    /\ pruned' = FALSE
    /\ pruning' = IF pruning < Prunes THEN pruning + 1 ELSE 0
    /\ UNCHANGED <<other, inputs, schemaVars, fileVars, req>>

(* The poller or the predictor writes on a connection of its own. *)
OtherWrites ==
    /\ ~other /\ inputs < MaxInputs
    /\ \A p \in Procs : ~conn[p].writer
    /\ other' = TRUE
    /\ inputs' = inputs + 1
    /\ UNCHANGED <<pruning, pruned, schemaVars, fileVars, dbVars, req>>

OtherCommits ==
    /\ other
    /\ other' = FALSE
    /\ stamp' = stamp + 1
    /\ UNCHANGED <<pruning, pruned, inputs, rows, conn, failed, schemaVars, fileVars, req>>

(* When one process of the container ends, all are ended. *)
Crash ==
    /\ inputs < MaxInputs
    /\ inputs' = inputs + 1
    /\ conn' = [p \in Procs |-> Closed]
    /\ boot' = [p \in Procs |-> Starting]
    /\ failed' = {}
    /\ pruning' = 0 /\ pruned' = FALSE /\ other' = FALSE
    /\ req' = [r \in Requests |->
                 IF req[r].at \in {"idle", "done"} THEN req[r] ELSE [req[r] EXCEPT !.at = "lost"]]
    /\ IF Unlocked THEN UNCHANGED <<logbook, gone>> ELSE Trims
    /\ UNCHANGED <<tables, recorded, rows, stamp, trail, dropped>>

Start(p) == ReadVersion(p) \/ CreateTable(p) \/ InsertVersion(p) \/ CommitVersion(p)

Handle(r) ==
    \/ Lookup(r) \/ Insert(r) \/ Reject(r) \/ InsertFails(r) \/ Commit(r)
    \/ AppendNote(r) \/ TrimOpen(r) \/ TrimWrite(r)
    \/ AuditInsert(r) \/ AuditCommit(r) \/ AuditFails(r) \/ AuditAppend(r)
    \/ Read(r)

Next ==
    \/ \E p \in Procs : Start(p)
    \/ \E r \in Requests : Handle(r)
    \/ \E r \in Requests, kind \in {"note", "type", "failure", "read"}, p \in Procs : Ask(r, kind, p)
    \/ Checkpoint \/ Prune \/ PruneFails \/ PruneCommit
    \/ OtherWrites \/ OtherCommits
    \/ Crash

Spec == Init /\ [][Next]_vars

-----------------------------------------------------------------------------
Stages == {"idle", "lookup", "insert", "commit", "append", "trim", "trimming", "audit",
           "auditCommit", "auditAppend", "done", "lost"}

(* Type invariant. *)
TypeOK ==
    /\ tables \subseteq (1 .. Versions) \X (1 .. Pieces)
    /\ recorded \subseteq 1 .. Versions
    /\ rows \subseteq Rows /\ trail \subseteq Rows /\ gone \subseteq Rows /\ dropped \subseteq Rows
    /\ stamp \in Nat /\ inputs \in Nat
    /\ logbook \in Seq(Rows)
    /\ conn \in [Procs -> [open : BOOLEAN, seen : Int, writer : BOOLEAN, own : SUBSET Rows]]
    /\ boot \in [Procs -> [at : {"down", "script", "record", "recorded", "up"},
                           version : 0 .. NotYet, piece : 0 .. Pieces]]
    /\ req \in [Requests -> [at : Stages, kind : {"none", "note", "type", "failure", "read"},
                             proc : Procs, answer : {"none", "ok", "rejected", "failed"}]]
    /\ pruning \in 0 .. Prunes /\ pruned \in BOOLEAN /\ other \in BOOLEAN
    /\ failed \subseteq Procs

(* A write that was answered as done is a committed row or a line of its    *)
(* fallback file, unless a trim took that line, or it could be appended to  *)
(* neither, which audit.py passes over; and so is its audit row.  Although  *)
(* a transaction is shared by all requests of a process, no other request's *)
(* failure takes its rows away.                                             *)
AnswersKept ==
    \A r \in Requests :
        (req[r].kind # "read" /\ req[r].answer = "ok") =>
            /\ Entry(r) \in rows \cup ToSet(logbook) \cup gone \cup dropped
            /\ Audit(r) \in rows \cup trail \cup dropped

(* A process keeps a transaction open, and with it the write lock or an old *)
(* view of the database, only while one of its tasks is between a statement *)
(* and its commit, unless a statement of it failed after its last commit.   *)
Committing(p) ==
    \/ \E r \in Requests : By(r) = p /\ req[r].at \in {"commit", "auditCommit"}
    \/ p = Http /\ pruned
    \/ boot[p].at = "recorded"

NothingLeftOpen ==
    \A p \in Procs : conn[p].open => Committing(p) \/ p \in failed

(* Wherever a start was interrupted and however two starts interleave, a    *)
(* recorded version has all its tables, and a process serves requests only  *)
(* when the tables of every version are there.                              *)
SchemaWhole ==
    /\ recorded \X (1 .. Pieces) \subseteq tables
    /\ \A p \in Procs : Up(p) => tables = (1 .. Versions) \X (1 .. Pieces)
=============================================================================
