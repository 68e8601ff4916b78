--------------------------- MODULE ServerContainer ---------------------------
(***************************************************************************)
(* The container of the PLC4X OPC-UA server: the loop of its entrypoint    *)
(* that starts java again after a crash, and the three requests of the     *)
(* admin panel that act on it from outside through the Docker daemon.  An  *)
(* update stops the container, downloads a jar into one temporary file     *)
(* that all updates share, copies the old jar and its version aside, puts  *)
(* both new files in and starts the container; a rollback swaps the files  *)
(* with their copies; a restart restarts it.  Nothing serialises them.     *)
(*                                                                         *)
(* A jar is the version it is, or "cut" when it is not whole.  trouble     *)
(* names what has gone wrong so far: each property says which of it it     *)
(* does not withstand, and holds whatever else happened.                   *)
(***************************************************************************)
EXTENDS Naturals, FiniteSets

CONSTANTS
    Versions,     \* versions on Maven Central
    Shipped,      \* the version the image was built with
    Updates,      \* POST /api/plc4x/update requests
    Target,       \* the version each update asks for
    Rollbacks,    \* POST /api/plc4x/rollback requests
    Restarts,     \* POST /api/server/restart requests
    MAX_RETRIES,  \* starts before the entrypoint waits for the configuration
    MaxTroubles,  \* bound on what goes wrong
    MaxCrashes,   \* bound on crashes of a java that did start
    MaxSaves      \* bound on saves of config.yml

ASSUME ContainerAssumption ==
    /\ Shipped \in Versions
    /\ Target \in [Updates -> Versions]
    /\ Updates \cap Rollbacks = {} /\ (Updates \cup Rollbacks) \cap Restarts = {}
    /\ "cut" \notin Versions /\ "none" \notin Versions
    /\ MAX_RETRIES \in Nat \ {0}
    /\ MaxTroubles \in Nat /\ MaxCrashes \in Nat /\ MaxSaves \in Nat

VARIABLES
    files,     \* /app of the container: jar, version.txt and their .bak copies
    tmp,       \* /tmp/plc4x-update.jar of the admin container
    pc,        \* where each request is
    copy,      \* what each rollback has read
    up,        \* whether the container runs
    phase,     \* where the entrypoint is
    attempt,   \* ATTEMPT
    loaded,    \* the jar java runs, "none" when it does not
    config,    \* config.yml: whether the server accepts it, and its mtime
    seen,      \* CONFIG_MTIME
    tried,     \* history: the mtime of the configuration the last start read
    crashes,   \* crashes so far
    before,    \* history: the jar and version the last change replaced
    trouble    \* history: what has gone wrong

requests == <<pc, copy>>
server == <<up, phase, attempt, loaded>>
vars == <<files, tmp, requests, server, config, seen, tried, crashes, before, trouble>>

Swaps == Updates \cup Rollbacks
Calls == Swaps \cup Restarts
Jars == Versions \cup {"cut", "none"}
Names == {"jar", "bak", "ver", "verBak"}

Idle(c) == pc[c] \in {"new", "done"}
Quiet == \A c \in Calls : Idle(c)
Serving == phase = "java"

Go(c, stage) == pc' = [pc EXCEPT ![c] = stage]

(* Things go wrong, within the bound. *)
Wrong(what) ==
    /\ Cardinality(trouble \cup what) <= MaxTroubles
    /\ trouble' = trouble \cup what

Without(what) == trouble \cap what = {}

Init ==
    /\ files = [n \in Names |-> IF n \in {"jar", "ver"} THEN Shipped ELSE "none"]
    /\ tmp = "none"
    /\ pc = [c \in Calls |-> "new"]
    /\ copy = [c \in Rollbacks |-> [n \in Names |-> "none"]]
    /\ up = TRUE /\ phase = "starting" /\ attempt = 0 /\ loaded = "none"
    /\ config \in [ok : BOOLEAN, mtime : {0}]
    /\ seen = 0 /\ tried = 0 /\ crashes = 0
    /\ before = [jar |-> "none", ver |-> "none"]
    /\ trouble = {}

-----------------------------------------------------------------------------
(* The Docker daemon *)

Stopped == up' = FALSE /\ phase' = "off" /\ attempt' = 0 /\ loaded' = "none"

(* A start of a running container does nothing. *)
Started ==
    IF up THEN UNCHANGED server
    ELSE up' = TRUE /\ phase' = "starting" /\ attempt' = 0 /\ loaded' = "none"

Swapping == \E c \in Swaps : ~Idle(c)

(* An update or rollback stops the container first; a failing stop is       *)
(* ignored.                                                                 *)
StopFirst ==
    LET overlap == IF Swapping THEN {"swaps overlap"} ELSE {}
    IN  \/ Stopped /\ Wrong(overlap)
        \/ up /\ UNCHANGED server /\ Wrong(overlap \cup {"stop fails"})

(* The request ends with a start, or with the error of the failing start. *)
StartLast(c) ==
    /\ Go(c, "done")
    /\ \/ Started /\ UNCHANGED trouble
       \/ ~up /\ UNCHANGED server /\ Wrong({"start fails"})

-----------------------------------------------------------------------------
(* POST /api/plc4x/update: _do_plc4x_update_sync.  A version that Maven     *)
(* Central does not know is refused before anything is done.                *)

UpdateStop(c) ==
    /\ pc[c] = "new"
    /\ Go(c, "stopped")
    /\ StopFirst
    /\ UNCHANGED <<files, tmp, copy, config, seen, tried, crashes, before>>

(* urlopen succeeds and the temporary file is emptied, under the feet of an *)
(* update that is writing it.                                               *)
UpdateOpen(c) ==
    /\ pc[c] = "stopped"
    /\ tmp' = "cut"
    /\ LET others == {u \in Updates : pc[u] \in {"fetching", "sharing"}}
       IN  pc' = [u \in Calls |-> IF u \in others THEN "sharing"
                                  ELSE IF u # c THEN pc[u]
                                  ELSE IF others = {} THEN "fetching" ELSE "sharing"]
    /\ UNCHANGED <<files, copy, server, config, seen, tried, crashes, before, trouble>>

(* The download ends; when it was shared the file is anybody's guess, and   *)
(* when the file was unlinked meanwhile there is none.                      *)
UpdateFetched(c) ==
    /\ pc[c] \in {"fetching", "sharing"}
    /\ Go(c, "fetched")
    /\ tmp' \in IF tmp = "none" THEN {"none"}
                ELSE IF pc[c] = "fetching" THEN {Target[c]}
                ELSE {tmp, "cut", Target[c]}
    /\ UNCHANGED <<files, copy, server, config, seen, tried, crashes, before, trouble>>

(* A connection closed early ends the chunked read like a complete one. *)
UpdateCutShort(c) ==
    /\ pc[c] = "fetching" /\ tmp = "cut"
    /\ Go(c, "fetched")
    /\ Wrong({"cut download"})
    /\ UNCHANGED <<files, tmp, copy, server, config, seen, tried, crashes, before>>

(* Mutant: the failed download leaves without starting the server. *)
Slip_UpdateFetchFails(c) ==
    /\ pc[c] \in {"stopped", "fetching", "sharing"}
    /\ Go(c, "done")
    /\ UNCHANGED <<files, tmp, copy, server, config, seen, tried, crashes, before, trouble>>

(* The one failure that is followed by a start. *)
UpdateFetchFails(c) ==
    /\ pc[c] \in {"stopped", "fetching", "sharing"}
    /\ StartLast(c)
    /\ UNCHANGED <<files, tmp, copy, config, seen, tried, crashes, before>>

(* Each of the two copies, read out of the container and put back under its *)
(* new name, may fail, and is then passed over.                             *)
UpdateBackup(c, from, to, stage, next) ==
    /\ pc[c] = stage
    /\ Go(c, next)
    /\ \/ files' = [files EXCEPT ![to] = files[from]] /\ UNCHANGED trouble
       \/ Wrong({"file skipped"}) /\ UNCHANGED files
    /\ UNCHANGED <<tmp, copy, server, config, seen, tried, crashes, before>>

(* Mutant: a copy is made only when there is none yet. *)
Slip_UpdateBackupJar(c) ==
    \/ files.bak = "none" /\ UpdateBackup(c, "jar", "bak", "fetched", "jarkept")
    \/ files.bak # "none" /\ UpdateBackup(c, "bak", "bak", "fetched", "jarkept")

UpdateBackupJar(c) == UpdateBackup(c, "jar", "bak", "fetched", "jarkept")
UpdateBackupVersion(c) == UpdateBackup(c, "ver", "verBak", "jarkept", "kept")

(* put_archive writes the files of the tar one after the other; when it     *)
(* fails, done is how far it came.  The error leaves the request.           *)
PutArchive(c, new, done) ==
    /\ files' = [n \in Names |-> IF n \in done THEN new[n] ELSE files[n]]
    /\ IF done = DOMAIN new
       THEN /\ Go(c, "put")
            /\ before' = [jar |-> files.jar, ver |-> files.ver]
            /\ UNCHANGED trouble
       ELSE Go(c, "done") /\ UNCHANGED before /\ Wrong({"put fails"})

UpdatePut(c) ==
    /\ pc[c] = "kept" /\ tmp # "none"
    /\ \E done \in {{}, {"jar"}, {"jar", "ver"}} :
          PutArchive(c, [n \in {"jar", "ver"} |-> IF n = "jar" THEN tmp ELSE Target[c]], done)
    /\ UNCHANGED <<tmp, copy, server, config, seen, tried, crashes>>

(* Another update has unlinked the file: tar.add raises. *)
UpdateNoFile(c) ==
    /\ pc[c] = "kept" /\ tmp = "none"
    /\ Go(c, "done")
    /\ UNCHANGED <<files, tmp, copy, server, config, seen, tried, crashes, before, trouble>>

UpdateUnlink(c) ==
    /\ c \in Updates /\ pc[c] = "put"
    /\ Go(c, "unlinked")
    /\ tmp' = "none"
    /\ UNCHANGED <<files, copy, server, config, seen, tried, crashes, before, trouble>>

UpdateStart(c) ==
    /\ pc[c] = "unlinked"
    /\ StartLast(c)
    /\ UNCHANGED <<files, tmp, copy, config, seen, tried, crashes, before>>

Update(c) ==
    \/ UpdateStop(c) \/ UpdateOpen(c) \/ UpdateFetched(c) \/ UpdateCutShort(c)
    \/ UpdateFetchFails(c) \/ UpdateBackupJar(c) \/ UpdateBackupVersion(c)
    \/ UpdatePut(c) \/ UpdateNoFile(c) \/ UpdateUnlink(c) \/ UpdateStart(c)

-----------------------------------------------------------------------------
(* POST /api/plc4x/rollback: _do_plc4x_rollback_sync *)

(* Mutant: the files are swapped under the running server. *)
Slip_RollbackStop(c) ==
    /\ pc[c] = "new" /\ files.bak # "none"
    /\ Go(c, "read jar")
    /\ UNCHANGED <<files, tmp, copy, server, config, seen, tried, crashes, before, trouble>>

RollbackStop(c) ==
    /\ pc[c] = "new" /\ files.bak # "none"
    /\ Go(c, "read jar")
    /\ StopFirst
    /\ UNCHANGED <<files, tmp, copy, config, seen, tried, crashes, before>>

(* The four files are read one by one; one that cannot be read is left out. *)
RollbackRead(c, name, stage, next) ==
    /\ pc[c] = stage
    /\ Go(c, next)
    /\ \/ copy' = [copy EXCEPT ![c][name] = files[name]] /\ UNCHANGED trouble
       \/ Wrong({"file skipped"}) /\ UNCHANGED copy
    /\ UNCHANGED <<files, tmp, server, config, seen, tried, crashes, before>>

RollbackReads(c) ==
    \/ RollbackRead(c, "jar", "read jar", "read bak")
    \/ RollbackRead(c, "bak", "read bak", "read ver")
    \/ RollbackRead(c, "ver", "read ver", "read verBak")
    \/ RollbackRead(c, "verBak", "read verBak", "swap")

(* Mutant: the version files stay where they are. *)
Slip_Counterpart(name) ==
    IF name = "jar" THEN "bak" ELSE IF name = "bak" THEN "jar" ELSE name

(* Each file goes in under the name of its counterpart. *)
Counterpart(name) ==
    CASE name = "jar" -> "bak" [] name = "bak" -> "jar"
      [] name = "ver" -> "verBak" [] name = "verBak" -> "ver"

RollbackPut(c) ==
    /\ pc[c] = "swap"
    /\ LET new == [n \in {m \in Names : copy[c][Counterpart(m)] # "none"}
                      |-> copy[c][Counterpart(n)]]
       IN  \E done \in {{}, {"jar"}, {"jar", "bak"}, {"jar", "bak", "ver"}, Names} :
              PutArchive(c, new, done \cap DOMAIN new)
    /\ copy' = [copy EXCEPT ![c] = [n \in Names |-> "none"]]
    /\ UNCHANGED <<tmp, server, config, seen, tried, crashes>>

RollbackStart(c) ==
    /\ c \in Rollbacks /\ pc[c] = "put"
    /\ StartLast(c)
    /\ UNCHANGED <<files, tmp, copy, config, seen, tried, crashes, before>>

Rollback(c) == RollbackStop(c) \/ RollbackReads(c) \/ RollbackPut(c) \/ RollbackStart(c)

-----------------------------------------------------------------------------
(* POST /api/server/restart, and a restart of the admin container, which    *)
(* cuts every request off and brings none back.                             *)

Restart(c) ==
    /\ pc[c] = "new"
    /\ Go(c, "done")
    /\ LET amid == IF Swapping THEN {"restart amid swap"} ELSE {}
       IN  \/ up' = TRUE /\ phase' = "starting" /\ attempt' = 0 /\ loaded' = "none"
              /\ Wrong(amid)
           \/ Stopped /\ Wrong(amid \cup {"start fails"})
    /\ UNCHANGED <<files, tmp, copy, config, seen, tried, crashes, before>>

AdminDies ==
    /\ ~Quiet
    /\ pc' = [c \in Calls |-> IF Idle(c) THEN pc[c] ELSE "done"]
    /\ Wrong({"admin dies"})
    /\ UNCHANGED <<files, tmp, copy, server, config, seen, tried, crashes, before>>

-----------------------------------------------------------------------------
(* server/entrypoint.sh *)

(* java loads the jar and the configuration, or exits with an error. *)
Launch ==
    /\ phase = "starting"
    /\ attempt' = attempt + 1
    /\ IF files.jar \in Versions /\ config.ok
       THEN phase' = "java" /\ loaded' = files.jar
       ELSE phase' = "exited" /\ UNCHANGED loaded
    /\ tried' = config.mtime
    /\ UNCHANGED <<files, tmp, requests, up, config, seen, crashes, before, trouble>>

Crash ==
    /\ phase = "java" /\ crashes < MaxCrashes
    /\ crashes' = crashes + 1
    /\ phase' = "exited" /\ loaded' = "none"
    /\ UNCHANGED <<files, tmp, requests, up, attempt, config, seen, tried, before, trouble>>

(* The script ends with java, and Docker starts the container again. *)
ExitClean ==
    /\ phase = "java" /\ crashes < MaxCrashes
    /\ crashes' = crashes + 1
    /\ phase' = "starting" /\ attempt' = 0 /\ loaded' = "none"
    /\ UNCHANGED <<files, tmp, requests, up, config, seen, tried, before, trouble>>

Retry ==
    /\ phase = "exited" /\ attempt < MAX_RETRIES
    /\ phase' = "starting"
    /\ UNCHANGED <<files, tmp, requests, up, attempt, loaded, config, seen, tried>>
    /\ UNCHANGED <<crashes, before, trouble>>

(* The mtime to compare with is taken now, after the last attempt. *)
GiveUp ==
    /\ phase = "exited" /\ attempt >= MAX_RETRIES
    /\ phase' = "watching" /\ seen' = config.mtime
    /\ trouble' = IF tried = config.mtime THEN trouble ELSE trouble \cup {"saved amid crash"}
    /\ UNCHANGED <<files, tmp, requests, up, attempt, loaded, config, tried, crashes, before>>

(* Mutant: the loop takes the mtime anew each time round. *)
Slip_Notice ==
    /\ phase = "watching" /\ config.mtime # seen
    /\ seen' = config.mtime
    /\ UNCHANGED <<files, tmp, requests, server, config, tried, crashes, before, trouble>>

Notice ==
    /\ phase = "watching" /\ config.mtime # seen
    /\ phase' = "starting" /\ attempt' = 0
    /\ UNCHANGED <<files, tmp, requests, up, loaded, config, seen, tried, crashes, before, trouble>>

Entrypoint == Launch \/ Retry \/ GiveUp \/ Notice

(* config.yml is saved; mtime counts saves in different seconds. *)
SaveConfig ==
    /\ config.mtime < MaxSaves
    /\ \E ok \in BOOLEAN : config' = [ok |-> ok, mtime |-> config.mtime + 1]
    /\ UNCHANGED <<files, tmp, requests, server, seen, tried, crashes, before, trouble>>

Next ==
    \/ \E c \in Updates : Update(c)
    \/ \E c \in Rollbacks : Rollback(c)
    \/ \E c \in Restarts : Restart(c)
    \/ AdminDies \/ Crash \/ ExitClean \/ SaveConfig \/ Entrypoint

(* The script loops by itself; nothing is asked of the requests. *)
Fairness == WF_vars(Entrypoint)

Spec == Init /\ [][Next]_vars /\ Fairness

-----------------------------------------------------------------------------
(* Types. *)
TypeOK ==
    /\ files \in [Names -> Jars]
    /\ tmp \in Jars
    /\ pc \in [Calls -> {"new", "stopped", "fetching", "sharing", "fetched", "jarkept",
                          "kept", "put", "unlinked", "read jar", "read bak", "read ver",
                          "read verBak", "swap", "done"}]
    /\ copy \in [Rollbacks -> [Names -> Jars]]
    /\ up \in BOOLEAN
    /\ phase \in {"off", "starting", "java", "exited", "watching"}
    /\ up <=> phase # "off"
    /\ attempt \in 0 .. MAX_RETRIES
    /\ loaded \in Jars /\ (loaded # "none" <=> Serving)
    /\ config \in [ok : BOOLEAN, mtime : 0 .. MaxSaves]
    /\ seen \in 0 .. MaxSaves /\ tried \in 0 .. MaxSaves
    /\ crashes \in 0 .. MaxCrashes
    /\ before \in [{"jar", "ver"} -> Jars]
    /\ trouble \subseteq {"swaps overlap", "restart amid swap", "stop fails", "start fails",
                          "put fails", "file skipped", "cut download", "admin dies",
                          "saved amid crash"}

(* Once no request is under way the container runs: updates, rollbacks and  *)
(* restarts may overlap in any order, downloads, stops and copies may fail, *)
(* and one update may unlink the jar of another before it is put in.  Only  *)
(* a failing put or start, or the end of the admin process, leaves the      *)
(* server stopped.                                                          *)
NotLeftStopped ==
    Quiet /\ Without({"put fails", "start fails", "admin dies"}) => up

(* Once no request is under way java runs the jar that is installed, unless *)
(* a start fell into another's swap, where the start at its end does        *)
(* nothing, or the stop at its beginning failed.                            *)
RunningIsInstalled ==
    Quiet /\ Serving /\ Without({"swaps overlap", "restart amid swap", "stop fails"})
        => loaded = files.jar

(* Once no request is under way version.txt is the version of the installed *)
(* jar, and version.txt.bak that of the copy, which the page shows.         *)
VersionNamesJar ==
    Quiet /\ Without({"swaps overlap", "put fails", "file skipped", "cut download", "admin dies"})
        => /\ files.ver = files.jar
           /\ files.verBak = files.bak

(* The copies are what the last change replaced, so that an undo brings it  *)
(* back whole: also after a truncated download, and whoever restarts the    *)
(* server in between.                                                       *)
UndoIsReady ==
    Quiet /\ before.jar # "none"
          /\ Without({"swaps overlap", "put fails", "file skipped", "admin dies"})
        => before = [jar |-> files.bak, ver |-> files.verBak]

(* The server comes back by itself after crashes and after every            *)
(* modification of config.yml: in the end it serves, unless it was stopped, *)
(* its jar is not whole, its configuration is not accepted, or it has given *)
(* up on this very configuration.  The one exception: a modification        *)
(* between the last failed start and the stat that follows it.              *)
ComesBack ==
    []<>(\/ Serving \/ ~up \/ ~config.ok \/ files.jar \notin Versions
         \/ phase = "watching" /\ tried = config.mtime
         \/ ~Without({"saved amid crash"}))
=============================================================================
