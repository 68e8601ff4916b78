----------------------- MODULE ServerContainerProofs -----------------------
(***************************************************************************)
(* The safety properties of ServerContainer, for any number of updates,    *)
(* rollbacks and restarts, and any number of failures.                     *)
(***************************************************************************)
EXTENDS ServerContainer, TLAPS

(* The stages of each kind of request. *)
UpdateStages == {"new", "stopped", "fetching", "sharing", "fetched", "jarkept", "kept", "put",
                 "unlinked", "done"}
RollbackStages == {"new", "read jar", "read bak", "read ver", "read verBak", "swap", "put", "done"}

AllStages == UpdateStages \cup RollbackStages

Stages ==
    /\ pc \in [Calls -> AllStages]
    /\ \A c \in Updates : pc[c] \in UpdateStages
    /\ \A c \in Rollbacks : pc[c] \in RollbackStages
    /\ \A c \in Restarts : Idle(c)

FileTypes ==
    /\ files \in [Names -> Jars]
    /\ tmp \in Jars
    /\ copy \in [Rollbacks -> [Names -> Jars]]
    /\ before \in [{"jar", "ver"} -> Jars]

(* There is room for one more attempt before java starts. *)
ServerTypes ==
    /\ up \in BOOLEAN
    /\ phase \in {"off", "starting", "java", "exited", "watching"}
    /\ up <=> phase # "off"
    /\ attempt \in 0 .. MAX_RETRIES
    /\ phase = "starting" => attempt < MAX_RETRIES
    /\ loaded \in Jars /\ (loaded # "none" <=> Serving)
    /\ config \in [ok : BOOLEAN, mtime : 0 .. MaxSaves]
    /\ seen \in 0 .. MaxSaves /\ tried \in 0 .. MaxSaves
    /\ crashes \in 0 .. MaxCrashes

Troubles == {"swaps overlap", "restart amid swap", "stop fails", "start fails", "put fails",
             "file skipped", "cut download", "admin dies", "saved amid crash"}

Types == Stages /\ FileTypes /\ ServerTypes /\ trouble \subseteq Troubles

(* While the container is stopped, some request is on a way that ends with  *)
(* a start: it is not about to find the temporary file gone.                *)
Rescues(c) ==
    \/ c \in Rollbacks /\ ~Idle(c)
    \/ c \in Updates /\ pc[c] \in {"stopped", "put", "unlinked"}
    \/ c \in Updates /\ pc[c] \in {"fetching", "sharing", "fetched", "jarkept", "kept"} /\ tmp # "none"

Rescued ==
    Without({"put fails", "start fails", "admin dies"}) => up \/ \E c \in Swaps : Rescues(c)

(* Swaps that do not overlap are alone, and no download is shared. *)
IsAlone ==
    /\ \A c, d \in Swaps : ~Idle(c) /\ ~Idle(d) => c = d
    /\ \A c \in Updates : pc[c] # "sharing"

Alone == Without({"swaps overlap"}) => IsAlone

(* The server is stopped from the start of a swap to its end, so that java  *)
(* never runs another jar than the installed one.                           *)
StoppedAmid ==
    Without({"swaps overlap", "restart amid swap", "stop fails"}) =>
        /\ \A c \in Swaps : ~Idle(c) => phase = "off"
        /\ Serving => loaded = files.jar

(* The temporary file of an update that is alone. *)
TmpOf(c) ==
    /\ pc[c] = "fetching" => tmp = "cut"
    /\ pc[c] \in {"fetched", "jarkept", "kept"} =>
          tmp = Target[c] \/ (tmp = "cut" /\ "cut download" \in trouble)

TmpKept == Without({"swaps overlap"}) => \A c \in Updates : TmpOf(c)

(* The jar and its version are always there, whole or not. *)
Installed == files.jar # "none" /\ files.ver # "none"

(* What a rollback that is alone has read so far is what is there. *)
CopyOf(c) ==
    /\ pc[c] \in {"read bak", "read ver", "read verBak", "swap"} => copy[c].jar = files.jar
    /\ pc[c] \in {"read ver", "read verBak", "swap"} => copy[c].bak = files.bak
    /\ pc[c] \in {"read verBak", "swap"} => copy[c].ver = files.ver
    /\ pc[c] = "swap" => copy[c].verBak = files.verBak

CopyKept == Without({"swaps overlap", "file skipped"}) => \A c \in Rollbacks : CopyOf(c)

(* The copies that an update that is alone has made are of what is there. *)
BackupOf(c) ==
    /\ pc[c] \in {"jarkept", "kept"} => files.bak = files.jar
    /\ pc[c] = "kept" => files.verBak = files.ver

BackupsMade == Without({"swaps overlap", "file skipped"}) => \A c \in Updates : BackupOf(c)

(* Outside the copying of an update, the version files follow the jars, and *)
(* the copies are what the last change replaced.                            *)
Copying == \E c \in Updates : pc[c] \in {"jarkept", "kept"}

VersionsFollow ==
    Without({"swaps overlap", "put fails", "file skipped", "cut download", "admin dies"}) =>
        /\ files.ver = files.jar
        /\ ~Copying => files.verBak = files.bak

UndoKept ==
    Without({"swaps overlap", "put fails", "file skipped", "admin dies"}) =>
        (~Copying /\ before.jar # "none" => before = [jar |-> files.bak, ver |-> files.verBak])

LEMMA Assumed ==
  /\ Shipped \in Versions
  /\ Target \in [Updates -> Versions]
  /\ Updates \cap Rollbacks = {} /\ (Updates \cup Rollbacks) \cap Restarts = {}
  /\ "cut" \notin Versions /\ "none" \notin Versions
  /\ MAX_RETRIES \in Nat \ {0}
  /\ MaxTroubles \in Nat /\ MaxCrashes \in Nat /\ MaxSaves \in Nat
  BY ContainerAssumption DEF ContainerAssumption

-----------------------------------------------------------------------------
(* What the parts of a request do *)

LEMMA StopSteps ==
  ASSUME StopFirst
  PROVE  /\ trouble \subseteq trouble' /\ trouble' \subseteq trouble \cup {"swaps overlap", "stop fails"}
         /\ "swaps overlap" \notin trouble' => ~Swapping
         /\ \/ Stopped
            \/ up /\ UNCHANGED server /\ "stop fails" \in trouble'
<1>1. CASE Stopped /\ Wrong(IF Swapping THEN {"swaps overlap"} ELSE {})
  BY <1>1 DEF Wrong
<1>2. CASE up /\ UNCHANGED server /\ Wrong((IF Swapping THEN {"swaps overlap"} ELSE {}) \cup {"stop fails"})
  BY <1>2 DEF Wrong
<1> QED
  BY <1>1, <1>2 DEF StopFirst

LEMMA LastSteps ==
  ASSUME NEW c, StartLast(c)
  PROVE  /\ Go(c, "done")
         /\ trouble \subseteq trouble' /\ trouble' \subseteq trouble \cup {"start fails"}
         /\ \/ UNCHANGED server /\ (up \/ "start fails" \in trouble')
            \/ ~up /\ up' = TRUE /\ phase' = "starting" /\ attempt' = 0 /\ loaded' = "none"
         /\ up' \/ "start fails" \in trouble'
<1>1. CASE up /\ UNCHANGED server /\ UNCHANGED trouble /\ Go(c, "done")
  <2>1. up' = up
    BY <1>1 DEF server
  <2>2. up'
    BY <1>1, <2>1
  <2> QED
    BY <1>1, <2>2
<1>2. CASE ~up /\ up' = TRUE /\ phase' = "starting" /\ attempt' = 0 /\ loaded' = "none"
           /\ UNCHANGED trouble /\ Go(c, "done")
  BY <1>2
<1>3. CASE ~up /\ UNCHANGED server /\ Wrong({"start fails"}) /\ Go(c, "done")
  BY <1>3 DEF Wrong
<1> QED
  BY <1>1, <1>2, <1>3 DEF StartLast, Started

LEMMA RestartSteps ==
  ASSUME NEW c, Restart(c)
  PROVE  /\ pc[c] = "new" /\ Go(c, "done")
         /\ trouble \subseteq trouble' /\ trouble' \subseteq trouble \cup {"restart amid swap", "start fails"}
         /\ "restart amid swap" \notin trouble' => ~Swapping
         /\ attempt' = 0 /\ loaded' = "none"
         /\ \/ up' = TRUE /\ phase' = "starting"
            \/ up' = FALSE /\ phase' = "off" /\ "start fails" \in trouble'
         /\ UNCHANGED <<files, tmp, copy, config, seen, tried, crashes, before>>
<1>1. CASE up' = TRUE /\ phase' = "starting" /\ attempt' = 0 /\ loaded' = "none"
           /\ Wrong(IF Swapping THEN {"restart amid swap"} ELSE {})
  BY <1>1 DEF Restart, Wrong
<1>2. CASE Stopped /\ Wrong((IF Swapping THEN {"restart amid swap"} ELSE {}) \cup {"start fails"})
  BY <1>2 DEF Restart, Stopped, Wrong
<1> QED
  BY <1>1, <1>2 DEF Restart

LEMMA BackupSteps ==
  ASSUME NEW c, NEW from, NEW to, NEW stage, NEW next, UpdateBackup(c, from, to, stage, next)
  PROVE  /\ pc[c] = stage /\ Go(c, next)
         /\ trouble \subseteq trouble' /\ trouble' \subseteq trouble \cup {"file skipped"}
         /\ \/ files' = [files EXCEPT ![to] = files[from]]
            \/ files' = files /\ "file skipped" \in trouble'
         /\ UNCHANGED <<tmp, copy, server, config, seen, tried, crashes, before>>
  BY DEF UpdateBackup, Wrong

LEMMA PutSteps ==
  ASSUME NEW c, NEW new, NEW done, PutArchive(c, new, done), done \subseteq DOMAIN new
  PROVE  /\ files' = [n \in Names |-> IF n \in done THEN new[n] ELSE files[n]]
         /\ trouble \subseteq trouble' /\ trouble' \subseteq trouble \cup {"put fails"}
         /\ \/ done = DOMAIN new /\ Go(c, "put") /\ before' = [jar |-> files.jar, ver |-> files.ver]
            \/ Go(c, "done") /\ UNCHANGED before /\ "put fails" \in trouble'
<1>1. CASE done = DOMAIN new
  BY <1>1 DEF PutArchive
<1>2. CASE done # DOMAIN new
  BY <1>2 DEF PutArchive, Wrong
<1> QED
  BY <1>1, <1>2

LEMMA UpdatePutSteps ==
  ASSUME NEW c \in Updates, UpdatePut(c)
  PROVE  /\ pc[c] = "kept" /\ tmp # "none"
         /\ \E done \in {{}, {"jar"}, {"jar", "ver"}} :
               files' = [n \in Names |-> IF n \notin done THEN files[n]
                                         ELSE IF n = "jar" THEN tmp ELSE Target[c]]
               /\ \/ done = {"jar", "ver"} /\ Go(c, "put")
                     /\ before' = [jar |-> files.jar, ver |-> files.ver]
                  \/ Go(c, "done") /\ UNCHANGED before /\ "put fails" \in trouble'
         /\ trouble \subseteq trouble' /\ trouble' \subseteq trouble \cup {"put fails"}
         /\ UNCHANGED <<tmp, copy, server, config, seen, tried, crashes>>
<1> DEFINE new == [n \in {"jar", "ver"} |-> IF n = "jar" THEN tmp ELSE Target[c]]
<1>1. PICK done \in {{}, {"jar"}, {"jar", "ver"}} : PutArchive(c, new, done)
  BY DEF UpdatePut
<1>2. done \subseteq DOMAIN new /\ DOMAIN new = {"jar", "ver"}
  OBVIOUS
<1>3. \A n \in done : new[n] = IF n = "jar" THEN tmp ELSE Target[c]
  BY <1>2
<1> HIDE DEF new
<1>4. /\ files' = [n \in Names |-> IF n \in done THEN new[n] ELSE files[n]]
      /\ trouble \subseteq trouble' /\ trouble' \subseteq trouble \cup {"put fails"}
      /\ \/ done = DOMAIN new /\ Go(c, "put") /\ before' = [jar |-> files.jar, ver |-> files.ver]
         \/ Go(c, "done") /\ UNCHANGED before /\ "put fails" \in trouble'
  BY <1>1, <1>2, PutSteps
<1>5. files' = [n \in Names |-> IF n \notin done THEN files[n]
                                ELSE IF n = "jar" THEN tmp ELSE Target[c]]
  BY <1>3, <1>4
<1> QED
  BY <1>2, <1>4, <1>5 DEF UpdatePut

LEMMA RollbackPutSteps ==
  ASSUME NEW c \in Rollbacks, RollbackPut(c)
  PROVE  /\ pc[c] = "swap"
         /\ \E done \in SUBSET {n \in Names : copy[c][Counterpart(n)] # "none"} :
               files' = [n \in Names |-> IF n \in done THEN copy[c][Counterpart(n)] ELSE files[n]]
               /\ \/ done = {n \in Names : copy[c][Counterpart(n)] # "none"} /\ Go(c, "put")
                     /\ before' = [jar |-> files.jar, ver |-> files.ver]
                  \/ Go(c, "done") /\ UNCHANGED before /\ "put fails" \in trouble'
         /\ copy' = [copy EXCEPT ![c] = [n \in Names |-> "none"]]
         /\ trouble \subseteq trouble' /\ trouble' \subseteq trouble \cup {"put fails"}
         /\ UNCHANGED <<tmp, server, config, seen, tried, crashes>>
<1> DEFINE some == {n \in Names : copy[c][Counterpart(n)] # "none"}
           new == [n \in some |-> copy[c][Counterpart(n)]]
<1>1. PICK all \in {{}, {"jar"}, {"jar", "bak"}, {"jar", "bak", "ver"}, Names} :
         PutArchive(c, new, all \cap DOMAIN new)
  BY DEF RollbackPut
<1> DEFINE done == all \cap DOMAIN new
<1>2. done \subseteq DOMAIN new /\ DOMAIN new = some
  OBVIOUS
<1>3. \A n \in done : new[n] = copy[c][Counterpart(n)]
  BY <1>2
<1> HIDE DEF new, done
<1>4. /\ files' = [n \in Names |-> IF n \in done THEN new[n] ELSE files[n]]
      /\ trouble \subseteq trouble' /\ trouble' \subseteq trouble \cup {"put fails"}
      /\ \/ done = DOMAIN new /\ Go(c, "put") /\ before' = [jar |-> files.jar, ver |-> files.ver]
         \/ Go(c, "done") /\ UNCHANGED before /\ "put fails" \in trouble'
  BY <1>1, <1>2, PutSteps DEF done
<1>5. files' = [n \in Names |-> IF n \in done THEN copy[c][Counterpart(n)] ELSE files[n]]
  BY <1>3, <1>4
<1> QED
  BY <1>2, <1>4, <1>5 DEF RollbackPut

LEMMA ReadSteps ==
  ASSUME NEW c \in Rollbacks, RollbackReads(c)
  PROVE  \E name \in Names, stage, next \in {"read jar", "read bak", "read ver", "read verBak", "swap"} :
            /\ \/ name = "jar" /\ stage = "read jar" /\ next = "read bak"
               \/ name = "bak" /\ stage = "read bak" /\ next = "read ver"
               \/ name = "ver" /\ stage = "read ver" /\ next = "read verBak"
               \/ name = "verBak" /\ stage = "read verBak" /\ next = "swap"
            /\ pc[c] = stage /\ Go(c, next)
            /\ trouble \subseteq trouble' /\ trouble' \subseteq trouble \cup {"file skipped"}
            /\ \/ copy' = [copy EXCEPT ![c][name] = files[name]]
               \/ UNCHANGED copy /\ "file skipped" \in trouble'
            /\ UNCHANGED <<files, tmp, server, config, seen, tried, crashes, before>>
<1>1. ASSUME NEW name, NEW stage, NEW next, RollbackRead(c, name, stage, next)
      PROVE  /\ pc[c] = stage /\ Go(c, next)
             /\ trouble \subseteq trouble' /\ trouble' \subseteq trouble \cup {"file skipped"}
             /\ \/ copy' = [copy EXCEPT ![c][name] = files[name]]
                \/ UNCHANGED copy /\ "file skipped" \in trouble'
             /\ UNCHANGED <<files, tmp, server, config, seen, tried, crashes, before>>
  BY <1>1 DEF RollbackRead, Wrong
<1>2. {"jar", "bak", "ver", "verBak"} = Names
  BY DEF Names
<1>3. CASE RollbackRead(c, "jar", "read jar", "read bak")
  BY <1>1, <1>2, <1>3
<1>4. CASE RollbackRead(c, "bak", "read bak", "read ver")
  BY <1>1, <1>2, <1>4
<1>5. CASE RollbackRead(c, "ver", "read ver", "read verBak")
  BY <1>1, <1>2, <1>5
<1>6. CASE RollbackRead(c, "verBak", "read verBak", "swap")
  BY <1>1, <1>2, <1>6
<1> QED
  BY <1>3, <1>4, <1>5, <1>6 DEF RollbackReads

LEMMA ReadFrame ==
  ASSUME NEW c \in Rollbacks, RollbackReads(c)
  PROVE  /\ UNCHANGED <<server, config, seen, tried, crashes>>
         /\ \E stage, next \in {"read jar", "read bak", "read ver", "read verBak", "swap"} :
               pc[c] = stage /\ Go(c, next)
  BY DEF RollbackReads, RollbackRead

(* The entrypoint and the configuration concern neither files nor requests. *)
LEMMA ServerSteps ==
  ASSUME Crash \/ ExitClean \/ SaveConfig \/ Entrypoint
  PROVE  /\ UNCHANGED <<files, tmp, pc, copy, up, before>>
         /\ trouble \subseteq trouble' /\ trouble' \subseteq trouble \cup {"saved amid crash"}
         /\ \/ phase = "off" /\ phase' = "off" /\ loaded' = loaded
            \/ phase # "off" /\ phase' # "off"
         /\ phase' = "java" => \/ phase = "java" /\ loaded' = loaded
                               \/ loaded' = files.jar
<1> USE DEF requests, server
<1>1. CASE Crash \/ ExitClean
  BY <1>1 DEF Crash, ExitClean
<1>2. CASE SaveConfig
  BY <1>2 DEF SaveConfig
<1>3. CASE Launch
  BY <1>3 DEF Launch
<1>4. CASE Retry \/ Notice
  BY <1>4 DEF Retry, Notice
<1>5. CASE GiveUp
  BY <1>5 DEF GiveUp
<1> QED
  BY <1>1, <1>2, <1>3, <1>4, <1>5 DEF Entrypoint

-----------------------------------------------------------------------------
(* Typing *)

LEMMA StageGoes ==
  ASSUME Stages, NEW c \in Calls, NEW stage, Go(c, stage),
         \/ c \in Updates /\ stage \in UpdateStages
         \/ c \in Rollbacks /\ stage \in RollbackStages
         \/ c \in Restarts /\ stage = "done"
  PROVE  Stages'
<1>1. stage \in AllStages
  BY DEF AllStages, UpdateStages
<1>2. pc' \in [Calls -> AllStages] /\ \A d \in Calls : pc'[d] = IF d = c THEN stage ELSE pc[d]
  BY <1>1 DEF Go, Stages
<1>3. \A d \in Updates : d \in Calls /\ d \notin Rollbacks \cup Restarts
  BY Assumed DEF Calls, Swaps
<1>4. \A d \in Rollbacks \cup Restarts : d \in Calls
  BY DEF Calls, Swaps
<1>5. \A d \in Rollbacks : d \notin Restarts
  BY Assumed
<1> QED
  BY <1>2, <1>3, <1>4, <1>5 DEF Stages, Idle

(* The value of pc after a step. *)
LEMMA PcSteps ==
  ASSUME Stages, NEW c \in Calls, NEW stage, Go(c, stage)
  PROVE  pc'[c] = stage /\ \A d \in Calls : d # c => pc'[d] = pc[d]
  BY DEF Stages, Go

LEMMA StageTyping == Init => Stages
  BY DEF Init, Stages, AllStages, UpdateStages, RollbackStages, Idle, Calls, Swaps

LEMMA StageSteps == Stages /\ [Next]_vars => Stages'
<1> SUFFICES ASSUME Stages, [Next]_vars PROVE Stages'
  OBVIOUS
<1>0. Updates \subseteq Calls /\ Rollbacks \subseteq Calls /\ Restarts \subseteq Calls
  BY DEF Calls, Swaps
<1>1. ASSUME NEW c \in Updates, UpdateStop(c) PROVE Stages'
  <3>1. Go(c, "stopped")
    BY <1>1 DEF UpdateStop
  <3> QED
    BY <1>0, <3>1, StageGoes DEF UpdateStages
<1>2. ASSUME NEW c \in Updates, UpdateOpen(c) PROVE Stages'
  <3>1. ASSUME NEW u \in Calls PROVE pc'[u] \in {pc[u], "fetching", "sharing"} /\ (u \notin Updates => pc'[u] = pc[u])
    BY <1>2 DEF UpdateOpen
  <3>2. pc' \in [Calls -> AllStages]
    <4>1. DOMAIN pc' = Calls /\ pc' = [u \in Calls |-> pc'[u]]
      BY <1>2 DEF UpdateOpen
    <4>2. \A u \in Calls : pc'[u] \in AllStages
      BY <3>1 DEF Stages, AllStages, UpdateStages
    <4> QED
      BY <4>1, <4>2
  <3> QED
    BY <3>1, <3>2, Assumed DEF Stages, UpdateStages, Idle, Calls, Swaps
<1>3. ASSUME NEW c \in Updates, UpdateFetched(c) PROVE Stages'
  <3>1. Go(c, "fetched")
    BY <1>3 DEF UpdateFetched
  <3> QED
    BY <1>0, <3>1, StageGoes DEF UpdateStages
<1>4. ASSUME NEW c \in Updates, UpdateCutShort(c) PROVE Stages'
  <3>1. Go(c, "fetched")
    BY <1>4 DEF UpdateCutShort
  <3> QED
    BY <1>0, <3>1, StageGoes DEF UpdateStages
<1>5. ASSUME NEW c \in Updates, UpdateFetchFails(c) PROVE Stages'
  <3>1. Go(c, "done")
    BY <1>5, LastSteps DEF UpdateFetchFails
  <3> QED
    BY <1>0, <3>1, StageGoes DEF UpdateStages
<1>6. ASSUME NEW c \in Updates, UpdateBackupJar(c) PROVE Stages'
  <3>1. Go(c, "jarkept")
    BY <1>6, BackupSteps DEF UpdateBackupJar
  <3> QED
    BY <1>0, <3>1, StageGoes DEF UpdateStages
<1>7. ASSUME NEW c \in Updates, UpdateBackupVersion(c) PROVE Stages'
  <3>1. Go(c, "kept")
    BY <1>7, BackupSteps DEF UpdateBackupVersion
  <3> QED
    BY <1>0, <3>1, StageGoes DEF UpdateStages
<1>8. ASSUME NEW c \in Updates, UpdatePut(c) PROVE Stages'
  <3>1. Go(c, "put") \/ Go(c, "done")
    BY <1>8, UpdatePutSteps
  <3> QED
    BY <1>0, <3>1, StageGoes DEF UpdateStages
<1>9. ASSUME NEW c \in Updates, UpdateNoFile(c) PROVE Stages'
  <3>1. Go(c, "done")
    BY <1>9 DEF UpdateNoFile
  <3> QED
    BY <1>0, <3>1, StageGoes DEF UpdateStages
<1>10. ASSUME NEW c \in Updates, UpdateUnlink(c) PROVE Stages'
  <3>1. Go(c, "unlinked")
    BY <1>10 DEF UpdateUnlink
  <3> QED
    BY <1>0, <3>1, StageGoes DEF UpdateStages
<1>11. ASSUME NEW c \in Updates, UpdateStart(c) PROVE Stages'
  <3>1. Go(c, "done")
    BY <1>11, LastSteps DEF UpdateStart
  <3> QED
    BY <1>0, <3>1, StageGoes DEF UpdateStages
<1>12. ASSUME NEW c \in Rollbacks, RollbackStop(c) PROVE Stages'
  <3>1. Go(c, "read jar")
    BY <1>12 DEF RollbackStop
  <3> QED
    BY <1>0, <3>1, StageGoes DEF RollbackStages
<1>13. ASSUME NEW c \in Rollbacks, RollbackReads(c) PROVE Stages'
  <3>1. PICK next \in {"read jar", "read bak", "read ver", "read verBak", "swap"} : Go(c, next)
    BY <1>13, ReadSteps
  <3>2. next \in RollbackStages
    BY DEF RollbackStages
  <3> QED
    BY <1>0, <3>1, <3>2, StageGoes
<1>14. ASSUME NEW c \in Rollbacks, RollbackPut(c) PROVE Stages'
  <3>1. Go(c, "put") \/ Go(c, "done")
    BY <1>14, RollbackPutSteps
  <3> QED
    BY <1>0, <3>1, StageGoes DEF RollbackStages
<1>15. ASSUME NEW c \in Rollbacks, RollbackStart(c) PROVE Stages'
  <3>1. Go(c, "done")
    BY <1>15, LastSteps DEF RollbackStart
  <3> QED
    BY <1>0, <3>1, StageGoes DEF RollbackStages
<1>16. ASSUME NEW c \in Restarts, Restart(c) PROVE Stages'
  <3>1. Go(c, "done")
    BY <1>16, RestartSteps
  <3> QED
    BY <1>0, <3>1, StageGoes
<1>17. CASE AdminDies
  <3>1. \A u \in Calls : pc'[u] \in {pc[u], "done"}
    BY <1>17 DEF AdminDies
  <3>2. pc' \in [Calls -> AllStages]
    BY <1>17 DEF AdminDies, Stages, AllStages, UpdateStages
  <3> QED
    BY <3>1, <3>2 DEF Stages, UpdateStages, RollbackStages, Idle, Calls, Swaps
<1>18. CASE Crash \/ ExitClean \/ SaveConfig \/ Entrypoint
  BY <1>18, ServerSteps DEF Stages, Idle
<1>19. CASE UNCHANGED vars
  BY <1>19 DEF vars, requests, Stages, Idle
<1> QED
  BY <1>1, <1>2, <1>3, <1>4, <1>5, <1>6, <1>7, <1>8, <1>9, <1>10, <1>11, <1>12, <1>13, <1>14, <1>15, <1>16, <1>17, <1>18, <1>19
     DEF Next, Update, Rollback

LEMMA FileSteps == FileTypes /\ [Next]_vars => FileTypes'
<1> SUFFICES ASSUME FileTypes, [Next]_vars PROVE FileTypes'
  OBVIOUS
<1>1. ASSUME NEW c \in Updates, UpdateStop(c) PROVE FileTypes'
  BY <1>1, StopSteps DEF UpdateStop, FileTypes
<1>2. ASSUME NEW c \in Updates, UpdateOpen(c) PROVE FileTypes'
  BY <1>2 DEF UpdateOpen, FileTypes, Jars
<1>3. ASSUME NEW c \in Updates, UpdateFetched(c) PROVE FileTypes'
  <3>1. tmp' \in {tmp, "none", "cut", Target[c]} /\ UNCHANGED <<files, copy, before>>
    BY <1>3 DEF UpdateFetched
  <3>2. Target[c] \in Versions
    BY Assumed
  <3> QED
    BY <3>1, <3>2 DEF FileTypes, Jars
<1>4. ASSUME NEW c \in Updates, UpdateCutShort(c) PROVE FileTypes'
  BY <1>4 DEF UpdateCutShort, FileTypes
<1>5. ASSUME NEW c \in Updates, UpdateFetchFails(c) PROVE FileTypes'
  BY <1>5, LastSteps DEF UpdateFetchFails, FileTypes
<1>6. ASSUME NEW c \in Updates, UpdateBackupJar(c) PROVE FileTypes'
  <3>1. files' = files \/ files' = [files EXCEPT !["bak"] = files["jar"]]
    BY <1>6, BackupSteps DEF UpdateBackupJar
  <3>2. files["jar"] \in Jars
    BY DEF FileTypes, Names
  <3>3. files' \in [Names -> Jars]
    BY <3>1, <3>2 DEF FileTypes
  <3> QED
    BY <1>6, <3>3, BackupSteps DEF UpdateBackupJar, FileTypes
<1>7. ASSUME NEW c \in Updates, UpdateBackupVersion(c) PROVE FileTypes'
  <3>1. files' = files \/ files' = [files EXCEPT !["verBak"] = files["ver"]]
    BY <1>7, BackupSteps DEF UpdateBackupVersion
  <3>2. files["ver"] \in Jars
    BY DEF FileTypes, Names
  <3>3. files' \in [Names -> Jars]
    BY <3>1, <3>2 DEF FileTypes
  <3> QED
    BY <1>7, <3>3, BackupSteps DEF UpdateBackupVersion, FileTypes
<1>8. ASSUME NEW c \in Updates, UpdatePut(c) PROVE FileTypes'
  <3>1. PICK done \in {{}, {"jar"}, {"jar", "ver"}} :
           files' = [n \in Names |-> IF n \notin done THEN files[n]
                                     ELSE IF n = "jar" THEN tmp ELSE Target[c]]
    BY <1>8, UpdatePutSteps
  <3>2. Target[c] \in Jars
    BY Assumed DEF Jars
  <3>3. before' = before \/ before' = [jar |-> files.jar, ver |-> files.ver]
    BY <1>8, UpdatePutSteps
  <3>4. before' \in [{"jar", "ver"} -> Jars]
    BY <3>3 DEF FileTypes, Names
  <3>5. files' \in [Names -> Jars]
    BY <3>1, <3>2 DEF FileTypes
  <3> QED
    BY <1>8, <3>4, <3>5, UpdatePutSteps DEF FileTypes
<1>9. ASSUME NEW c \in Updates, UpdateNoFile(c) PROVE FileTypes'
  BY <1>9 DEF UpdateNoFile, FileTypes
<1>10. ASSUME NEW c \in Updates, UpdateUnlink(c) PROVE FileTypes'
  BY <1>10 DEF UpdateUnlink, FileTypes, Jars
<1>11. ASSUME NEW c \in Updates, UpdateStart(c) PROVE FileTypes'
  BY <1>11, LastSteps DEF UpdateStart, FileTypes
<1>12. ASSUME NEW c \in Rollbacks, RollbackStop(c) PROVE FileTypes'
  BY <1>12, StopSteps DEF RollbackStop, FileTypes
<1>13. ASSUME NEW c \in Rollbacks, RollbackReads(c) PROVE FileTypes'
  <3>1. PICK name \in Names :
           /\ copy' = copy \/ copy' = [copy EXCEPT ![c][name] = files[name]]
           /\ UNCHANGED <<files, tmp, before>>
    BY <1>13, ReadSteps
  <3>2. [copy[c] EXCEPT ![name] = files[name]] \in [Names -> Jars]
    BY DEF FileTypes
  <3>3. copy' = copy \/ copy' = [copy EXCEPT ![c] = [copy[c] EXCEPT ![name] = files[name]]]
    BY <3>1
  <3> QED
    BY <3>1, <3>2, <3>3 DEF FileTypes
<1>14. ASSUME NEW c \in Rollbacks, RollbackPut(c) PROVE FileTypes'
  <3>1. PICK done \in SUBSET Names :
           files' = [n \in Names |-> IF n \in done THEN copy[c][Counterpart(n)] ELSE files[n]]
    BY <1>14, RollbackPutSteps
  <3>2. \A n \in Names : Counterpart(n) \in Names
    BY DEF Names, Counterpart
  <3>3. before' = before \/ before' = [jar |-> files.jar, ver |-> files.ver]
    BY <1>14, RollbackPutSteps
  <3>4. before' \in [{"jar", "ver"} -> Jars]
    BY <3>3 DEF FileTypes, Names
  <3>5. files' \in [Names -> Jars]
    BY <3>1, <3>2 DEF FileTypes
  <3>6. [n \in Names |-> "none"] \in [Names -> Jars]
    BY DEF Jars
  <3>7. copy' \in [Rollbacks -> [Names -> Jars]]
    BY <1>14, <3>6, RollbackPutSteps DEF FileTypes
  <3> QED
    BY <1>14, <3>4, <3>5, <3>7, RollbackPutSteps DEF FileTypes
<1>15. ASSUME NEW c \in Rollbacks, RollbackStart(c) PROVE FileTypes'
  BY <1>15, LastSteps DEF RollbackStart, FileTypes
<1>16. ASSUME NEW c \in Restarts, Restart(c) PROVE FileTypes'
  BY <1>16, RestartSteps DEF FileTypes
<1>17. CASE AdminDies
  BY <1>17 DEF AdminDies, FileTypes
<1>18. CASE Crash \/ ExitClean \/ SaveConfig \/ Entrypoint
  BY <1>18, ServerSteps DEF FileTypes
<1>19. CASE UNCHANGED vars
  BY <1>19 DEF vars, requests, FileTypes
<1> QED
  BY <1>1, <1>2, <1>3, <1>4, <1>5, <1>6, <1>7, <1>8, <1>9, <1>10, <1>11, <1>12, <1>13, <1>14, <1>15, <1>16, <1>17, <1>18, <1>19
     DEF Next, Update, Rollback

LEMMA StoppedTypes ==
  ASSUME ServerTypes, Stopped, UNCHANGED <<config, seen, tried, crashes>>
  PROVE  ServerTypes'
<1>1. ~up' /\ phase' = "off" /\ attempt' = 0 /\ loaded' = "none" /\ up' \in BOOLEAN
  BY DEF Stopped
<1>2. 0 \in 0 .. MAX_RETRIES /\ "none" \in Jars
  BY Assumed DEF Jars
<1> QED
  BY <1>1, <1>2 DEF ServerTypes, Serving

LEMMA StartingTypes ==
  ASSUME ServerTypes, up' = TRUE, phase' = "starting", attempt' = 0, loaded' = "none",
         UNCHANGED <<config, seen, tried, crashes>>
  PROVE  ServerTypes'
  BY Assumed DEF ServerTypes, Serving, Jars

LEMMA ServerTypeSteps == ServerTypes /\ [Next]_vars => ServerTypes'
<1> SUFFICES ASSUME ServerTypes, [Next]_vars PROVE ServerTypes'
  OBVIOUS
<1>1. ASSUME NEW c \in Updates, UpdateStop(c) PROVE ServerTypes'
  BY <1>1, StopSteps, StoppedTypes DEF UpdateStop, ServerTypes, server, Serving
<1>2. ASSUME NEW c \in Updates, UpdateOpen(c) PROVE ServerTypes'
  BY <1>2 DEF UpdateOpen, ServerTypes, server, Serving
<1>3. ASSUME NEW c \in Updates, UpdateFetched(c) PROVE ServerTypes'
  BY <1>3 DEF UpdateFetched, ServerTypes, server, Serving
<1>4. ASSUME NEW c \in Updates, UpdateCutShort(c) PROVE ServerTypes'
  BY <1>4 DEF UpdateCutShort, ServerTypes, server, Serving
<1>5. ASSUME NEW c \in Updates, UpdateFetchFails(c) PROVE ServerTypes'
  BY <1>5, LastSteps, StartingTypes DEF UpdateFetchFails, ServerTypes, server, Serving
<1>6. ASSUME NEW c \in Updates, UpdateBackupJar(c) PROVE ServerTypes'
  BY <1>6, BackupSteps DEF UpdateBackupJar, ServerTypes, server, Serving
<1>7. ASSUME NEW c \in Updates, UpdateBackupVersion(c) PROVE ServerTypes'
  BY <1>7, BackupSteps DEF UpdateBackupVersion, ServerTypes, server, Serving
<1>8. ASSUME NEW c \in Updates, UpdatePut(c) PROVE ServerTypes'
  BY <1>8, UpdatePutSteps DEF ServerTypes, server, Serving
<1>9. ASSUME NEW c \in Updates, UpdateNoFile(c) PROVE ServerTypes'
  BY <1>9 DEF UpdateNoFile, ServerTypes, server, Serving
<1>10. ASSUME NEW c \in Updates, UpdateUnlink(c) PROVE ServerTypes'
  BY <1>10 DEF UpdateUnlink, ServerTypes, server, Serving
<1>11. ASSUME NEW c \in Updates, UpdateStart(c) PROVE ServerTypes'
  BY <1>11, LastSteps, StartingTypes DEF UpdateStart, ServerTypes, server, Serving
<1>12. ASSUME NEW c \in Rollbacks, RollbackStop(c) PROVE ServerTypes'
  BY <1>12, StopSteps, StoppedTypes DEF RollbackStop, ServerTypes, server, Serving
<1>13. ASSUME NEW c \in Rollbacks, RollbackReads(c) PROVE ServerTypes'
  <2>1. UNCHANGED <<server, config, seen, tried, crashes>>
    BY <1>13, ReadFrame
  <2> QED
    BY <2>1 DEF ServerTypes, server, Serving
<1>14. ASSUME NEW c \in Rollbacks, RollbackPut(c) PROVE ServerTypes'
  BY <1>14, RollbackPutSteps DEF ServerTypes, server, Serving
<1>15. ASSUME NEW c \in Rollbacks, RollbackStart(c) PROVE ServerTypes'
  BY <1>15, LastSteps, StartingTypes DEF RollbackStart, ServerTypes, server, Serving
<1>16. ASSUME NEW c \in Restarts, Restart(c) PROVE ServerTypes'
  BY <1>16, RestartSteps, StoppedTypes, StartingTypes DEF Stopped
<1>17. CASE AdminDies
  BY <1>17 DEF AdminDies, ServerTypes, server, Serving
<1>18. CASE Crash \/ ExitClean \/ SaveConfig \/ Entrypoint
  <3> USE DEF ServerTypes, Serving
  <3>1. CASE Crash
    <4>1. phase = "java" /\ phase' = "exited" /\ loaded' = "none" /\ crashes' = crashes + 1
          /\ crashes < MaxCrashes /\ UNCHANGED <<up, attempt, config, seen, tried>>
      BY <3>1 DEF Crash
    <4>2. crashes + 1 \in 0 .. MaxCrashes
      BY <4>1, Assumed
    <4> QED
      BY <4>1, <4>2 DEF Jars
  <3>2. CASE ExitClean
    BY <3>2, Assumed DEF ExitClean, Jars
  <3>3. CASE SaveConfig
    <4>1. config.mtime + 1 \in 0 .. MaxSaves
      BY <3>3, Assumed DEF SaveConfig
    <4>2. config' \in [ok : BOOLEAN, mtime : 0 .. MaxSaves]
      BY <3>3, <4>1 DEF SaveConfig
    <4> QED
      BY <3>3, <4>2 DEF SaveConfig, server
  <3>4. CASE Launch
    <4>1. attempt + 1 \in 0 .. MAX_RETRIES
      BY <3>4, Assumed DEF Launch
    <4>2. config.mtime \in 0 .. MaxSaves
      OBVIOUS
    <4> QED
      BY <3>4, <4>1, <4>2, Assumed DEF Launch, Jars
  <3>5. CASE Retry
    BY <3>5, Assumed DEF Retry
  <3>6. CASE Notice
    BY <3>6, Assumed DEF Notice
  <3>7. CASE GiveUp
    <4>1. config.mtime \in 0 .. MaxSaves
      OBVIOUS
    <4> QED
      BY <3>7, <4>1 DEF GiveUp
  <3> QED
    BY <1>18, <3>1, <3>2, <3>3, <3>4, <3>5, <3>6, <3>7 DEF Entrypoint
<1>19. CASE UNCHANGED vars
  BY <1>19 DEF vars, server, ServerTypes, Serving
<1> QED
  BY <1>1, <1>2, <1>3, <1>4, <1>5, <1>6, <1>7, <1>8, <1>9, <1>10, <1>11, <1>12, <1>13, <1>14, <1>15, <1>16, <1>17, <1>18, <1>19
     DEF Next, Update, Rollback

(* What has gone wrong stays, and is something that a property may name. *)
LEMMA TroubleSteps == [Next]_vars => trouble \subseteq trouble' /\ trouble' \subseteq trouble \cup Troubles
<1> SUFFICES ASSUME [Next]_vars PROVE trouble \subseteq trouble' /\ trouble' \subseteq trouble \cup Troubles
  OBVIOUS
<1> USE DEF Troubles
<1>1. ASSUME NEW c \in Updates, UpdateStop(c)
      PROVE  trouble \subseteq trouble' /\ trouble' \subseteq trouble \cup Troubles
  BY <1>1, StopSteps DEF UpdateStop
<1>2. ASSUME NEW c \in Updates, UpdateOpen(c)
      PROVE  trouble \subseteq trouble' /\ trouble' \subseteq trouble \cup Troubles
  BY <1>2 DEF UpdateOpen
<1>3. ASSUME NEW c \in Updates, UpdateFetched(c)
      PROVE  trouble \subseteq trouble' /\ trouble' \subseteq trouble \cup Troubles
  BY <1>3 DEF UpdateFetched
<1>4. ASSUME NEW c \in Updates, UpdateCutShort(c)
      PROVE  trouble \subseteq trouble' /\ trouble' \subseteq trouble \cup Troubles
  BY <1>4 DEF UpdateCutShort, Wrong
<1>5. ASSUME NEW c \in Updates, UpdateFetchFails(c)
      PROVE  trouble \subseteq trouble' /\ trouble' \subseteq trouble \cup Troubles
  BY <1>5, LastSteps DEF UpdateFetchFails
<1>6. ASSUME NEW c \in Updates, UpdateBackupJar(c)
      PROVE  trouble \subseteq trouble' /\ trouble' \subseteq trouble \cup Troubles
  BY <1>6, BackupSteps DEF UpdateBackupJar
<1>7. ASSUME NEW c \in Updates, UpdateBackupVersion(c)
      PROVE  trouble \subseteq trouble' /\ trouble' \subseteq trouble \cup Troubles
  BY <1>7, BackupSteps DEF UpdateBackupVersion
<1>8. ASSUME NEW c \in Updates, UpdatePut(c)
      PROVE  trouble \subseteq trouble' /\ trouble' \subseteq trouble \cup Troubles
  BY <1>8, UpdatePutSteps
<1>9. ASSUME NEW c \in Updates, UpdateNoFile(c)
      PROVE  trouble \subseteq trouble' /\ trouble' \subseteq trouble \cup Troubles
  BY <1>9 DEF UpdateNoFile
<1>10. ASSUME NEW c \in Updates, UpdateUnlink(c)
      PROVE  trouble \subseteq trouble' /\ trouble' \subseteq trouble \cup Troubles
  BY <1>10 DEF UpdateUnlink
<1>11. ASSUME NEW c \in Updates, UpdateStart(c)
      PROVE  trouble \subseteq trouble' /\ trouble' \subseteq trouble \cup Troubles
  BY <1>11, LastSteps DEF UpdateStart
<1>12. ASSUME NEW c \in Rollbacks, RollbackStop(c)
      PROVE  trouble \subseteq trouble' /\ trouble' \subseteq trouble \cup Troubles
  BY <1>12, StopSteps DEF RollbackStop
<1>13. ASSUME NEW c \in Rollbacks, RollbackReads(c)
      PROVE  trouble \subseteq trouble' /\ trouble' \subseteq trouble \cup Troubles
  BY <1>13, ReadSteps
<1>14. ASSUME NEW c \in Rollbacks, RollbackPut(c)
      PROVE  trouble \subseteq trouble' /\ trouble' \subseteq trouble \cup Troubles
  BY <1>14, RollbackPutSteps
<1>15. ASSUME NEW c \in Rollbacks, RollbackStart(c)
      PROVE  trouble \subseteq trouble' /\ trouble' \subseteq trouble \cup Troubles
  BY <1>15, LastSteps DEF RollbackStart
<1>16. ASSUME NEW c \in Restarts, Restart(c)
      PROVE  trouble \subseteq trouble' /\ trouble' \subseteq trouble \cup Troubles
  BY <1>16, RestartSteps
<1>17. CASE AdminDies
  BY <1>17 DEF AdminDies, Wrong
<1>18. CASE Crash \/ ExitClean \/ SaveConfig \/ Entrypoint
  BY <1>18, ServerSteps
<1>19. CASE UNCHANGED vars
  BY <1>19 DEF vars
<1> QED
  BY <1>1, <1>2, <1>3, <1>4, <1>5, <1>6, <1>7, <1>8, <1>9, <1>10, <1>11, <1>12, <1>13, <1>14, <1>15, <1>16, <1>17, <1>18, <1>19
     DEF Next, Update, Rollback

LEMMA Typing == Spec => []Types
<1>1. Init => Types
  <2>1. Init => FileTypes
    BY Assumed DEF Init, FileTypes, Names, Jars
  <2>2. Init => ServerTypes
    BY Assumed DEF Init, ServerTypes, Serving, Jars
  <2> QED
    BY <2>1, <2>2, StageTyping DEF Types, Init
<1>2. Types /\ [Next]_vars => Types'
  BY StageSteps, FileSteps, ServerTypeSteps, TroubleSteps DEF Types
<1> QED
  BY <1>1, <1>2, PTL DEF Spec

(* Every variable keeps its type, and the container is up exactly while its  *)
(* entrypoint runs.                                                          *)
THEOREM TypeCorrect == Spec => []TypeOK
<1>1. Types => TypeOK
  BY DEF Types, Stages, AllStages, UpdateStages, RollbackStages, FileTypes, ServerTypes, Troubles, TypeOK
<1> QED
  BY <1>1, Typing, PTL

-----------------------------------------------------------------------------
(* The container is not left stopped *)

LEMMA CallSets ==
  /\ Updates \subseteq Swaps /\ Rollbacks \subseteq Swaps /\ Swaps \subseteq Calls
  /\ \A c \in Updates : c \notin Rollbacks
  /\ \A c \in Restarts : c \notin Swaps
  /\ \A c \in Calls : c \in Updates \/ c \in Rollbacks \/ c \in Restarts
  BY Assumed DEF Calls, Swaps

(* A request that was on its way to a start, and is not the one that moves,  *)
(* still is, as long as the temporary file does not vanish.                  *)
LEMMA RescuerStays ==
  ASSUME NEW d \in Swaps, Rescues(d), pc'[d] = pc[d], tmp' # "none" \/ tmp' = tmp
  PROVE  Rescues(d)'
  BY DEF Rescues, Idle

LEMMA RescuedInvariant == Spec => []Rescued
<1>1. Init => Rescued
  BY DEF Init, Rescued
<1>2. Types /\ Rescued /\ [Next]_vars => Rescued'
  <2> SUFFICES ASSUME Types, Rescued, [Next]_vars, Without({"put fails", "start fails", "admin dies"})'
               PROVE  up' \/ \E d \in Swaps : Rescues(d)'
    BY DEF Rescued
  <2>0. /\ Stages
        /\ "put fails" \notin trouble' /\ "start fails" \notin trouble' /\ "admin dies" \notin trouble'
        /\ up \/ \E d \in Swaps : Rescues(d)
    BY TroubleSteps DEF Types, Rescued, Without
  <2>1. ASSUME NEW c \in Updates, UpdateStop(c)
        PROVE  up' \/ \E d \in Swaps : Rescues(d)'
    <3>1. Go(c, "stopped")
      BY <2>1 DEF UpdateStop
    <3>2. Rescues(c)'
      <4>1. pc'[c] = "stopped"
        BY <2>0, <2>1, PcSteps, CallSets DEF UpdateStop
      <4> QED
        BY <4>1, CallSets DEF Rescues, Idle
    <3> QED
      BY <3>2, CallSets
  <2>2. ASSUME NEW c \in Updates, UpdateOpen(c)
        PROVE  up' \/ \E d \in Swaps : Rescues(d)'
    <3>1. pc'[c] \in {"fetching", "sharing"} /\ tmp' = "cut"
      BY <2>2, CallSets DEF UpdateOpen
    <3> QED
      BY <3>1, CallSets DEF Rescues
  <2>3. ASSUME NEW c \in Updates, UpdateFetched(c)
        PROVE  up' \/ \E d \in Swaps : Rescues(d)'
    <3>0. Go(c, "fetched") /\ pc[c] \in {"fetching", "sharing"} /\ UNCHANGED server
      BY <2>3 DEF UpdateFetched
    <3>1. tmp # "none" => tmp' # "none"
      BY <2>3, Assumed DEF UpdateFetched
    <3>2. CASE up
      BY <3>0, <3>2 DEF server
    <3>3. ASSUME NEW d \in Swaps, Rescues(d) PROVE Rescues(d)'
      <4>1. CASE d # c
        <5>1. pc'[d] = pc[d]
          BY <3>0, <4>1, <2>0, PcSteps, CallSets
        <5> QED
          BY <3>1, <3>3, <5>1 DEF Rescues, Idle
      <4>2. CASE d = c
        <5>1. pc'[c] = "fetched"
          BY <3>0, <2>0, PcSteps, CallSets
        <5> QED
          BY <3>0, <3>1, <3>3, <4>2, <5>1, CallSets DEF Rescues
      <4> QED
        BY <4>1, <4>2
    <3> QED
      BY <2>0, <3>2, <3>3
  <2>4. ASSUME NEW c \in Updates, UpdateCutShort(c)
        PROVE  up' \/ \E d \in Swaps : Rescues(d)'
    <3>1. pc'[c] = "fetched" /\ tmp' = "cut"
      BY <2>0, <2>4, PcSteps, CallSets DEF UpdateCutShort
    <3> QED
      BY <3>1, CallSets DEF Rescues
  <2>5. ASSUME NEW c \in Updates, UpdateFetchFails(c)
        PROVE  up' \/ \E d \in Swaps : Rescues(d)'
    <3>1. up'
      BY <2>0, <2>5, LastSteps DEF server, UpdateFetchFails
    <3> QED
      BY <3>1
  <2>6. ASSUME NEW c \in Updates, UpdateBackupJar(c)
        PROVE  up' \/ \E d \in Swaps : Rescues(d)'
    <3>0. Go(c, "jarkept") /\ pc[c] \in {"fetched", "jarkept"} /\ UNCHANGED <<tmp, server>>
      BY <2>6, BackupSteps DEF UpdateBackupJar
    <3>2. CASE up
      BY <3>0, <3>2 DEF server
    <3>3. ASSUME NEW d \in Swaps, Rescues(d) PROVE Rescues(d)'
      <4>1. CASE d # c
        BY <3>0, <3>3, <4>1, <2>0, PcSteps, CallSets, RescuerStays
      <4>2. CASE d = c
        <5>1. pc'[c] = "jarkept"
          BY <3>0, <2>0, PcSteps, CallSets
        <5> QED
          BY <3>0, <3>3, <4>2, <5>1, CallSets DEF Rescues
      <4> QED
        BY <4>1, <4>2
    <3> QED
      BY <2>0, <3>2, <3>3
  <2>7. ASSUME NEW c \in Updates, UpdateBackupVersion(c)
        PROVE  up' \/ \E d \in Swaps : Rescues(d)'
    <3>0. Go(c, "kept") /\ pc[c] \in {"fetched", "jarkept"} /\ UNCHANGED <<tmp, server>>
      BY <2>7, BackupSteps DEF UpdateBackupVersion
    <3>2. CASE up
      BY <3>0, <3>2 DEF server
    <3>3. ASSUME NEW d \in Swaps, Rescues(d) PROVE Rescues(d)'
      <4>1. CASE d # c
        BY <3>0, <3>3, <4>1, <2>0, PcSteps, CallSets, RescuerStays
      <4>2. CASE d = c
        <5>1. pc'[c] = "kept"
          BY <3>0, <2>0, PcSteps, CallSets
        <5> QED
          BY <3>0, <3>3, <4>2, <5>1, CallSets DEF Rescues
      <4> QED
        BY <4>1, <4>2
    <3> QED
      BY <2>0, <3>2, <3>3
  <2>8. ASSUME NEW c \in Updates, UpdatePut(c)
        PROVE  up' \/ \E d \in Swaps : Rescues(d)'
    <3>1. Go(c, "put")
      BY <2>0, <2>8, UpdatePutSteps
    <3>2. pc'[c] = "put"
      BY <3>1, <2>0, PcSteps, CallSets
    <3> QED
      BY <3>2, CallSets DEF Rescues, Idle
  <2>9. ASSUME NEW c \in Updates, UpdateNoFile(c)
        PROVE  up' \/ \E d \in Swaps : Rescues(d)'
    <3>0. Go(c, "done") /\ pc[c] = "kept" /\ tmp = "none" /\ UNCHANGED <<tmp, server>>
      BY <2>9 DEF UpdateNoFile
    <3>2. CASE up
      BY <3>0, <3>2 DEF server
    <3>3. ASSUME NEW d \in Swaps, Rescues(d) PROVE Rescues(d)'
      <4>1. d # c
        BY <3>0, <3>3, CallSets DEF Rescues
      <4> QED
        BY <3>0, <3>3, <4>1, <2>0, PcSteps, CallSets, RescuerStays
    <3> QED
      BY <2>0, <3>2, <3>3
  <2>10. ASSUME NEW c \in Updates, UpdateUnlink(c)
        PROVE  up' \/ \E d \in Swaps : Rescues(d)'
    <3>1. pc'[c] = "unlinked"
      BY <2>0, <2>10, PcSteps, CallSets DEF UpdateUnlink
    <3> QED
      BY <3>1, CallSets DEF Rescues
  <2>11. ASSUME NEW c \in Updates, UpdateStart(c)
        PROVE  up' \/ \E d \in Swaps : Rescues(d)'
    <3>1. up'
      BY <2>0, <2>11, LastSteps DEF server, UpdateStart
    <3> QED
      BY <3>1
  <2>12. ASSUME NEW c \in Rollbacks, RollbackStop(c)
        PROVE  up' \/ \E d \in Swaps : Rescues(d)'
    <3>1. Go(c, "read jar")
      BY <2>12 DEF RollbackStop
    <3>2. Rescues(c)'
      <4>1. pc'[c] = "read jar"
        BY <2>0, <2>12, PcSteps, CallSets DEF RollbackStop
      <4> QED
        BY <4>1, CallSets DEF Rescues, Idle
    <3> QED
      BY <3>2, CallSets
  <2>13. ASSUME NEW c \in Rollbacks, RollbackReads(c)
        PROVE  up' \/ \E d \in Swaps : Rescues(d)'
    <3>1. PICK next \in {"read jar", "read bak", "read ver", "read verBak", "swap"} : Go(c, next)
      BY <2>13, ReadSteps
    <3>2. pc'[c] = next
      BY <3>1, <2>0, PcSteps, CallSets
    <3> QED
      BY <3>2, CallSets DEF Rescues, Idle
  <2>14. ASSUME NEW c \in Rollbacks, RollbackPut(c)
        PROVE  up' \/ \E d \in Swaps : Rescues(d)'
    <3>1. Go(c, "put")
      BY <2>0, <2>14, RollbackPutSteps
    <3>2. pc'[c] = "put"
      BY <3>1, <2>0, PcSteps, CallSets
    <3> QED
      BY <3>2, CallSets DEF Rescues, Idle
  <2>15. ASSUME NEW c \in Rollbacks, RollbackStart(c)
        PROVE  up' \/ \E d \in Swaps : Rescues(d)'
    <3>1. up'
      BY <2>0, <2>15, LastSteps DEF server, RollbackStart
    <3> QED
      BY <3>1
  <2>16. ASSUME NEW c \in Restarts, Restart(c)
        PROVE  up' \/ \E d \in Swaps : Rescues(d)'
    BY <2>0, <2>16, RestartSteps
  <2>17. CASE AdminDies
    BY <2>0, <2>17 DEF AdminDies, Wrong
  <2>18. CASE Crash \/ ExitClean \/ SaveConfig \/ Entrypoint
    BY <2>0, <2>18, ServerSteps DEF Rescues, Idle
  <2>19. CASE UNCHANGED vars
    BY <2>0, <2>19 DEF vars, requests, server, Rescues, Idle
  <2> QED
    BY <2>1, <2>2, <2>3, <2>4, <2>5, <2>6, <2>7, <2>8, <2>9, <2>10, <2>11, <2>12, <2>13, <2>14, <2>15, <2>16, <2>17, <2>18, <2>19
       DEF Next, Update, Rollback
<1> QED
  BY <1>1, <1>2, Typing, PTL DEF Spec

(* Once no request is under way the container runs, but for a failing put or *)
(* start and the end of the admin process.                                   *)
THEOREM NotStopped == Spec => []NotLeftStopped
<1>1. Types /\ Rescued => NotLeftStopped
  <2> SUFFICES ASSUME Rescued, Quiet, Without({"put fails", "start fails", "admin dies"}) PROVE up
    BY DEF NotLeftStopped
  <2>1. \A c \in Swaps : ~Rescues(c)
    BY CallSets DEF Quiet, Rescues, Idle
  <2> QED
    BY <2>1 DEF Rescued
<1> QED
  BY <1>1, RescuedInvariant, Typing, PTL

-----------------------------------------------------------------------------
(* Swaps that do not overlap *)

Acts(c) == (c \in Updates /\ Update(c)) \/ (c \in Rollbacks /\ Rollback(c))

LEMMA NextSteps ==
  ASSUME [Next]_vars
  PROVE  \/ \E c \in Swaps : Acts(c)
         \/ \E c \in Restarts : Restart(c)
         \/ AdminDies
         \/ Crash \/ ExitClean \/ SaveConfig \/ Entrypoint
         \/ UNCHANGED vars
  BY CallSets DEF Next, Acts

(* A request begins when no other swaps, or goes on; only the opening of the *)
(* download concerns another one.                                            *)
LEMMA ActSteps ==
  ASSUME NEW c \in Swaps, Acts(c), "swaps overlap" \notin trouble'
  PROVE  /\ ~Idle(c) \/ ~Swapping
         /\ \/ \E stage \in AllStages \ {"sharing"} : Go(c, stage)
            \/ c \in Updates /\ UpdateOpen(c)
<1> USE DEF Idle, AllStages, UpdateStages, RollbackStages
<1>1. CASE UpdateStop(c) \/ RollbackStop(c)
  BY <1>1, StopSteps DEF UpdateStop, RollbackStop
<1>2. CASE UpdateFetched(c) \/ UpdateCutShort(c) \/ UpdateNoFile(c) \/ UpdateUnlink(c)
  BY <1>2 DEF UpdateFetched, UpdateCutShort, UpdateNoFile, UpdateUnlink
<1>3. CASE UpdateFetchFails(c) \/ UpdateStart(c) \/ RollbackStart(c)
  BY <1>3, LastSteps DEF UpdateFetchFails, UpdateStart, RollbackStart
<1>4. CASE UpdateBackupJar(c) \/ UpdateBackupVersion(c)
  <2>1. pc[c] \in {"fetched", "jarkept"} /\ (Go(c, "jarkept") \/ Go(c, "kept"))
    BY <1>4, BackupSteps DEF UpdateBackupJar, UpdateBackupVersion
  <2> QED
    BY <2>1
<1>5. CASE c \in Updates /\ UpdatePut(c)
  BY <1>5, UpdatePutSteps
<1>6. CASE c \in Rollbacks /\ RollbackPut(c)
  BY <1>6, RollbackPutSteps
<1>7. CASE c \in Rollbacks /\ RollbackReads(c)
  <2>1. PICK stage, next \in {"read jar", "read bak", "read ver", "read verBak", "swap"} :
           pc[c] = stage /\ Go(c, next)
    BY <1>7, ReadFrame
  <2> QED
    BY <2>1
<1>8. CASE c \in Updates /\ UpdateOpen(c)
  BY <1>8 DEF UpdateOpen
<1> QED
  BY <1>1, <1>2, <1>3, <1>4, <1>5, <1>6, <1>7, <1>8 DEF Acts, Update, Rollback

LEMMA OpenAlone ==
  ASSUME Stages, IsAlone, NEW c \in Updates, UpdateOpen(c)
  PROVE  pc[c] = "stopped" /\ pc'[c] = "fetching" /\ \A d \in Swaps : d # c => pc'[d] = pc[d]
<1>1. pc[c] = "stopped" /\ ~Idle(c)
  BY DEF UpdateOpen, Idle
<1>2. \A u \in Updates : pc[u] \notin {"fetching", "sharing"}
  BY <1>1, CallSets DEF IsAlone, Idle
<1>3. {u \in Updates : pc[u] \in {"fetching", "sharing"}} = {}
  BY <1>2
<1>4. pc' = [u \in Calls |-> IF u # c THEN pc[u] ELSE "fetching"]
  BY <1>3 DEF UpdateOpen
<1> QED
  BY <1>1, <1>4, CallSets

(* The others are idle. *)
LEMMA OnlyOne ==
  ASSUME Stages, IsAlone, NEW c \in Swaps, Acts(c), "swaps overlap" \notin trouble'
  PROVE  /\ \A d \in Swaps : d # c => Idle(d) /\ Idle(d)' /\ pc'[d] = pc[d]
         /\ pc'[c] # "sharing"
<1>1. \A d \in Swaps : d # c => Idle(d)
  BY ActSteps DEF IsAlone, Swapping
<1>2. pc'[c] # "sharing" /\ \A d \in Swaps : d # c => pc'[d] = pc[d]
  <2>1. CASE c \in Updates /\ UpdateOpen(c)
    BY <2>1, OpenAlone
  <2>2. ASSUME NEW stage \in AllStages \ {"sharing"}, Go(c, stage)
        PROVE  pc'[c] # "sharing" /\ \A d \in Swaps : d # c => pc'[d] = pc[d]
    BY <2>2, PcSteps, CallSets
  <2> QED
    BY <2>1, <2>2, ActSteps
<1> QED
  BY <1>1, <1>2 DEF Idle

(* What is not an action of a swap leaves the swaps where they are, or ends  *)
(* them all.                                                                 *)
LEMMA OtherSteps ==
  ASSUME Stages, \/ \E c \in Restarts : Restart(c)
                 \/ AdminDies
                 \/ Crash \/ ExitClean \/ SaveConfig \/ Entrypoint
                 \/ UNCHANGED vars
  PROVE  /\ UNCHANGED <<files, tmp, copy, before>>
         /\ \/ \A d \in Swaps : pc'[d] = pc[d]
            \/ "admin dies" \in trouble' /\ \A d \in Swaps : Idle(d)'
         /\ \A d \in Swaps : pc'[d] \in {pc[d], "done"}
         /\ trouble \subseteq trouble'
<1>1. ASSUME NEW c \in Restarts, Restart(c)
      PROVE  UNCHANGED <<files, tmp, copy, before>> /\ trouble \subseteq trouble'
             /\ \A d \in Swaps : pc'[d] = pc[d]
  <2>1. Go(c, "done") /\ c \in Calls
    BY <1>1, RestartSteps DEF Calls
  <2>2. \A d \in Swaps : d \in Calls /\ d # c
    BY CallSets
  <2> QED
    BY <1>1, <2>1, <2>2, RestartSteps, PcSteps
<1>2. CASE AdminDies
  <2>1. "admin dies" \in trouble' /\ \A d \in Swaps : Idle(d)' /\ pc'[d] \in {pc[d], "done"}
    BY <1>2, CallSets DEF AdminDies, Wrong, Idle
  <2> QED
    BY <1>2, <2>1 DEF AdminDies, Wrong
<1>3. CASE Crash \/ ExitClean \/ SaveConfig \/ Entrypoint
  BY <1>3, ServerSteps
<1>4. CASE UNCHANGED vars
  BY <1>4 DEF vars, requests
<1> QED
  BY <1>1, <1>2, <1>3, <1>4

LEMMA AloneInvariant == Spec => []Alone
<1>1. Init => Alone
  BY CallSets DEF Init, Alone, IsAlone, Idle
<1>2. Types /\ Alone /\ [Next]_vars => Alone'
  <2> SUFFICES ASSUME Types, Alone, [Next]_vars, Without({"swaps overlap"})' PROVE IsAlone'
    BY DEF Alone
  <2>0. Stages /\ IsAlone /\ "swaps overlap" \notin trouble'
    BY TroubleSteps DEF Types, Alone, Without
  <2>1. ASSUME NEW c \in Swaps, Acts(c) PROVE IsAlone'
    <3>1. \A d \in Swaps : d # c => Idle(d)' /\ pc'[d] = pc[d]
      BY <2>0, <2>1, OnlyOne
    <3>2. pc'[c] # "sharing"
      BY <2>0, <2>1, OnlyOne
    <3> QED
      BY <2>0, <3>1, <3>2, CallSets DEF IsAlone
  <2>2. CASE \/ \E c \in Restarts : Restart(c)
             \/ AdminDies
             \/ Crash \/ ExitClean \/ SaveConfig \/ Entrypoint
             \/ UNCHANGED vars
    <3>1. \A d \in Swaps : pc'[d] \in {pc[d], "done"}
      BY <2>0, <2>2, OtherSteps
    <3> QED
      BY <2>0, <3>1, CallSets DEF IsAlone, Idle
  <2> QED
    BY <2>1, <2>2, NextSteps
<1> QED
  BY <1>1, <1>2, Typing, PTL DEF Spec

-----------------------------------------------------------------------------
(* The running jar is the installed one *)

LEMMA ActServer ==
  ASSUME NEW c \in Swaps, Acts(c)
  PROVE  \/ StopFirst
         \/ ~Idle(c) /\ UNCHANGED server
         \/ ~Idle(c) /\ StartLast(c)
<1> USE DEF Idle
<1>1. CASE UpdateStop(c) \/ RollbackStop(c)
  BY <1>1 DEF UpdateStop, RollbackStop
<1>2. CASE UpdateOpen(c) \/ UpdateFetched(c) \/ UpdateCutShort(c) \/ UpdateNoFile(c) \/ UpdateUnlink(c)
  BY <1>2 DEF UpdateOpen, UpdateFetched, UpdateCutShort, UpdateNoFile, UpdateUnlink
<1>3. CASE UpdateFetchFails(c) \/ UpdateStart(c) \/ RollbackStart(c)
  BY <1>3 DEF UpdateFetchFails, UpdateStart, RollbackStart
<1>4. CASE UpdateBackupJar(c) \/ UpdateBackupVersion(c)
  <2>1. pc[c] \in {"fetched", "jarkept"} /\ UNCHANGED server
    BY <1>4, BackupSteps DEF UpdateBackupJar, UpdateBackupVersion
  <2> QED
    BY <2>1
<1>5. CASE c \in Updates /\ UpdatePut(c)
  BY <1>5, UpdatePutSteps
<1>6. CASE c \in Rollbacks /\ RollbackPut(c)
  BY <1>6, RollbackPutSteps
<1>7. CASE c \in Rollbacks /\ RollbackReads(c)
  <2>1. pc[c] \in {"read jar", "read bak", "read ver", "read verBak"} /\ UNCHANGED server
    BY <1>7, ReadSteps
  <2> QED
    BY <2>1
<1> QED
  BY <1>1, <1>2, <1>3, <1>4, <1>5, <1>6, <1>7 DEF Acts, Update, Rollback

LEMMA StoppedInvariant == Spec => []StoppedAmid
<1>1. Init => StoppedAmid
  BY CallSets DEF Init, StoppedAmid, Idle, Serving
<1>2. Types /\ Alone /\ StoppedAmid /\ [Next]_vars => StoppedAmid'
  <2> SUFFICES ASSUME Types, Alone, StoppedAmid, [Next]_vars,
                      Without({"swaps overlap", "restart amid swap", "stop fails"})'
               PROVE  /\ \A c \in Swaps : ~Idle(c)' => phase' = "off"
                      /\ phase' = "java" => loaded' = files'.jar
    BY DEF StoppedAmid, Serving
  <2>0. /\ Stages /\ IsAlone
        /\ "swaps overlap" \notin trouble' /\ "restart amid swap" \notin trouble'
        /\ "stop fails" \notin trouble'
        /\ \A c \in Swaps : ~Idle(c) => phase = "off"
        /\ phase = "java" => loaded = files.jar
    BY TroubleSteps DEF Types, Alone, Without, StoppedAmid, Serving
  <2>1. ASSUME NEW c \in Swaps, Acts(c)
        PROVE  /\ \A d \in Swaps : ~Idle(d)' => phase' = "off"
               /\ phase' = "java" => loaded' = files'.jar
    <3>1. CASE StopFirst
      BY <2>0, <3>1, StopSteps DEF Stopped
    <3>2. CASE ~Idle(c) /\ UNCHANGED server
      BY <2>0, <3>2 DEF server
    <3>3. CASE ~Idle(c) /\ StartLast(c)
      <4>1. phase = "off" /\ Go(c, "done")
        BY <2>0, <3>3, LastSteps
      <4>2. phase' \in {"off", "starting"}
        BY <3>3, <4>1, LastSteps DEF server
      <4>3. \A d \in Swaps : Idle(d)'
        <5>1. \A d \in Swaps : d # c => Idle(d)'
          BY <2>0, <2>1, OnlyOne
        <5>2. Idle(c)'
          BY <2>0, <4>1, PcSteps, CallSets DEF Idle
        <5> QED
          BY <5>1, <5>2
      <4> QED
        BY <4>2, <4>3
    <3> QED
      BY <2>1, <3>1, <3>2, <3>3, ActServer
  <2>2. ASSUME NEW r \in Restarts, Restart(r)
        PROVE  /\ \A d \in Swaps : ~Idle(d)' => phase' = "off"
               /\ phase' = "java" => loaded' = files'.jar
    <3>1. \A d \in Swaps : Idle(d) /\ pc'[d] \in {pc[d], "done"}
      BY <2>0, <2>2, RestartSteps, OtherSteps DEF Swapping
    <3> QED
      BY <2>2, <3>1, RestartSteps DEF Idle
  <2>3. CASE AdminDies
    <3>1. \A d \in Swaps : Idle(d)'
      BY <2>3, CallSets DEF AdminDies, Idle
    <3> QED
      BY <2>0, <2>3, <3>1 DEF AdminDies, server
  <2>4. CASE Crash \/ ExitClean \/ SaveConfig \/ Entrypoint
    BY <2>0, <2>4, ServerSteps DEF Idle
  <2>5. CASE UNCHANGED vars
    BY <2>0, <2>5 DEF vars, requests, server, Idle
  <2> QED
    BY <2>1, <2>2, <2>3, <2>4, <2>5, NextSteps
<1> QED
  BY <1>1, <1>2, Typing, AloneInvariant, PTL DEF Spec

(* Once no request is under way java runs the jar that is installed, unless  *)
(* swaps overlap, a restart falls into one, or a stop fails.                 *)
THEOREM RunsWhatIsInstalled == Spec => []RunningIsInstalled
<1>1. StoppedAmid => RunningIsInstalled
  BY DEF StoppedAmid, RunningIsInstalled, Without
<1> QED
  BY <1>1, StoppedInvariant, PTL

-----------------------------------------------------------------------------
(* The files *)

LEMMA TmpInvariant == Spec => []TmpKept
<1>1. Init => TmpKept
  BY CallSets DEF Init, TmpKept, TmpOf
<1>2. Types /\ Alone /\ TmpKept /\ [Next]_vars => TmpKept'
  <2> SUFFICES ASSUME Types, Alone, TmpKept, [Next]_vars, Without({"swaps overlap"})',
                      NEW u \in Updates
               PROVE  TmpOf(u)'
    BY DEF TmpKept
  <2>0. /\ Stages /\ IsAlone /\ "swaps overlap" \notin trouble' /\ trouble \subseteq trouble'
        /\ TmpOf(u) /\ u \in Swaps /\ u \in Calls
    BY TroubleSteps, CallSets DEF Types, Alone, Without, TmpKept
  <2>1. ASSUME NEW c \in Swaps, Acts(c), c # u PROVE TmpOf(u)'
    <3>1. Idle(u)'
      BY <2>0, <2>1, OnlyOne
    <3> QED
      BY <3>1 DEF TmpOf, Idle
  <2>2. ASSUME Acts(u) PROVE TmpOf(u)'
    <3> USE DEF TmpOf
    <3>0. Update(u) /\ pc[u] # "sharing"
      BY <2>0, <2>2, CallSets DEF Acts, IsAlone
    <3>1. CASE UpdateOpen(u)
      BY <2>0, <3>1, OpenAlone DEF UpdateOpen
    <3>2. CASE UpdateFetched(u)
      <4>1. pc[u] = "fetching" /\ tmp = "cut" /\ pc'[u] = "fetched"
        BY <2>0, <3>0, <3>2, PcSteps DEF UpdateFetched
      <4> QED
        BY <3>2, <4>1 DEF UpdateFetched
    <3>3. CASE UpdateCutShort(u)
      <4>1. tmp' = "cut" /\ "cut download" \in trouble' /\ pc'[u] = "fetched"
        BY <2>0, <3>3, PcSteps DEF UpdateCutShort, Wrong
      <4> QED
        BY <4>1
    <3>4. CASE UpdateBackupJar(u) \/ UpdateBackupVersion(u)
      <4>1. pc[u] \in {"fetched", "jarkept"} /\ (Go(u, "jarkept") \/ Go(u, "kept")) /\ tmp' = tmp
        BY <3>4, BackupSteps DEF UpdateBackupJar, UpdateBackupVersion
      <4>2. pc'[u] \in {"jarkept", "kept"}
        BY <2>0, <4>1, PcSteps
      <4> QED
        BY <2>0, <4>1, <4>2
    <3>5. CASE UpdateStop(u) \/ UpdateNoFile(u) \/ UpdateUnlink(u)
      <4>1. Go(u, "stopped") \/ Go(u, "done") \/ Go(u, "unlinked")
        BY <3>5 DEF UpdateStop, UpdateNoFile, UpdateUnlink
      <4>2. pc'[u] \in {"stopped", "done", "unlinked", "put"}
        BY <2>0, <4>1, PcSteps
      <4> QED
        BY <4>2
    <3>6. CASE UpdateFetchFails(u) \/ UpdateStart(u) \/ UpdatePut(u)
      <4>1. Go(u, "done") \/ Go(u, "put")
        BY <3>6, LastSteps, UpdatePutSteps DEF UpdateFetchFails, UpdateStart
      <4>2. pc'[u] \in {"stopped", "done", "unlinked", "put"}
        BY <2>0, <4>1, PcSteps
      <4> QED
        BY <4>2
    <3> QED
      BY <3>0, <3>1, <3>2, <3>3, <3>4, <3>5, <3>6 DEF Update
  <2>3. CASE \/ \E c \in Restarts : Restart(c)
             \/ AdminDies
             \/ Crash \/ ExitClean \/ SaveConfig \/ Entrypoint
             \/ UNCHANGED vars
    <3>1. tmp' = tmp /\ pc'[u] \in {pc[u], "done"}
      BY <2>0, <2>3, OtherSteps
    <3> QED
      BY <2>0, <3>1 DEF TmpOf
  <2> QED
    BY <2>1, <2>2, <2>3, NextSteps
<1> QED
  BY <1>1, <1>2, Typing, AloneInvariant, PTL DEF Spec

(* The steps that change a file of the container. *)
LEMMA Writers ==
  ASSUME Types, [Next]_vars
  PROVE  \/ UNCHANGED <<files, before>>
         \/ \E c \in Updates : UpdateBackupJar(c) \/ UpdateBackupVersion(c) \/ UpdatePut(c)
         \/ \E c \in Rollbacks : RollbackPut(c)
<1>1. ASSUME NEW c \in Updates, Update(c)
      PROVE  UNCHANGED <<files, before>> \/ UpdateBackupJar(c) \/ UpdateBackupVersion(c) \/ UpdatePut(c)
  BY <1>1 DEF Update, UpdateStop, UpdateOpen, UpdateFetched, UpdateCutShort, UpdateFetchFails,
              UpdateNoFile, UpdateUnlink, UpdateStart
<1>2. ASSUME NEW c \in Rollbacks, Rollback(c) PROVE UNCHANGED <<files, before>> \/ RollbackPut(c)
  BY <1>2, ReadSteps DEF Rollback, RollbackStop, RollbackStart
<1>3. CASE \/ \E c \in Restarts : Restart(c)
           \/ AdminDies
           \/ Crash \/ ExitClean \/ SaveConfig \/ Entrypoint
           \/ UNCHANGED vars
  BY <1>3, OtherSteps DEF Types
<1> QED
  BY <1>1, <1>2, <1>3, NextSteps DEF Acts

LEMMA FilesWritten ==
  ASSUME FileTypes
  PROVE  /\ files' = [files EXCEPT !["bak"] = files["jar"]] =>
               files'.bak = files.jar /\ files'.jar = files.jar /\ files'.ver = files.ver
               /\ files'.verBak = files.verBak
         /\ files' = [files EXCEPT !["verBak"] = files["ver"]] =>
               files'.verBak = files.ver /\ files'.jar = files.jar /\ files'.ver = files.ver
               /\ files'.bak = files.bak
  BY DEF FileTypes, Names

LEMMA InstalledInvariant == Spec => []Installed
<1>1. Init => Installed
  BY Assumed DEF Init, Installed, Names
<1>2. Types /\ Installed /\ [Next]_vars => Installed'
  <2> SUFFICES ASSUME Types, Installed, [Next]_vars PROVE Installed'
    OBVIOUS
  <2>0. FileTypes /\ {"jar", "ver", "bak", "verBak"} = Names
    BY DEF Types, Names
  <2>1. ASSUME NEW c \in Updates, UpdateBackupJar(c) \/ UpdateBackupVersion(c) PROVE Installed'
    <3>1. \/ files' = files
          \/ files' = [files EXCEPT !["bak"] = files["jar"]]
          \/ files' = [files EXCEPT !["verBak"] = files["ver"]]
      BY <2>1, BackupSteps DEF UpdateBackupJar, UpdateBackupVersion
    <3> QED
      BY <2>0, <3>1, FilesWritten DEF Installed
  <2>2. ASSUME NEW c \in Updates, UpdatePut(c) PROVE Installed'
    <3>1. PICK done \in {{}, {"jar"}, {"jar", "ver"}} :
             files' = [n \in Names |-> IF n \notin done THEN files[n]
                                       ELSE IF n = "jar" THEN tmp ELSE Target[c]]
      BY <2>2, UpdatePutSteps
    <3>2. tmp # "none"
      BY <2>2, UpdatePutSteps
    <3>3. Target[c] \in Versions /\ "none" \notin Versions
      BY Assumed
    <3> QED
      BY <2>0, <3>1, <3>2, <3>3 DEF Installed
  <2>3. ASSUME NEW c \in Rollbacks, RollbackPut(c) PROVE Installed'
    <3>1. PICK done \in SUBSET {n \in Names : copy[c][Counterpart(n)] # "none"} :
             files' = [n \in Names |-> IF n \in done THEN copy[c][Counterpart(n)] ELSE files[n]]
      BY <2>3, RollbackPutSteps
    <3> QED
      BY <2>0, <3>1 DEF Installed
  <2> QED
    BY <2>1, <2>2, <2>3, Writers DEF Installed
<1> QED
  BY <1>1, <1>2, Typing, PTL DEF Spec

LEMMA CopyInvariant == Spec => []CopyKept
<1>1. Init => CopyKept
  BY CallSets DEF Init, CopyKept, CopyOf
<1>2. Types /\ Alone /\ CopyKept /\ [Next]_vars => CopyKept'
  <2> SUFFICES ASSUME Types, Alone, CopyKept, [Next]_vars, Without({"swaps overlap", "file skipped"})',
                      NEW u \in Rollbacks
               PROVE  CopyOf(u)'
    BY DEF CopyKept
  <2>0. /\ Stages /\ IsAlone /\ FileTypes
        /\ "swaps overlap" \notin trouble' /\ "file skipped" \notin trouble'
        /\ CopyOf(u) /\ u \in Swaps /\ u \in Calls
    BY TroubleSteps, CallSets DEF Types, Alone, Without, CopyKept
  <2>1. ASSUME NEW c \in Swaps, Acts(c), c # u PROVE CopyOf(u)'
    <3>1. Idle(u)'
      BY <2>0, <2>1, OnlyOne
    <3> QED
      BY <3>1 DEF CopyOf, Idle
  <2>2. ASSUME Acts(u) PROVE CopyOf(u)'
    <3>0. Rollback(u)
      BY <2>2, CallSets DEF Acts
    <3>1. CASE RollbackReads(u)
      <4>1. PICK name \in Names, stage, next \in {"read jar", "read bak", "read ver", "read verBak", "swap"} :
               /\ \/ name = "jar" /\ stage = "read jar" /\ next = "read bak"
                  \/ name = "bak" /\ stage = "read bak" /\ next = "read ver"
                  \/ name = "ver" /\ stage = "read ver" /\ next = "read verBak"
                  \/ name = "verBak" /\ stage = "read verBak" /\ next = "swap"
               /\ pc[u] = stage /\ Go(u, next)
               /\ trouble \subseteq trouble' /\ trouble' \subseteq trouble \cup {"file skipped"}
               /\ \/ copy' = [copy EXCEPT ![u][name] = files[name]]
                  \/ UNCHANGED copy /\ "file skipped" \in trouble'
               /\ UNCHANGED <<files, tmp, server, config, seen, tried, crashes, before>>
        BY <3>1, ReadSteps
      <4>2. pc'[u] = next
        BY <2>0, <4>1, PcSteps
      <4>3. copy'[u] = [copy[u] EXCEPT ![name] = files[name]] /\ copy[u] \in [Names -> Jars]
        BY <2>0, <4>1 DEF FileTypes
      <4>4. \A n \in Names : copy'[u][n] = IF n = name THEN files[name] ELSE copy[u][n]
        BY <4>3
      <4>5. {"jar", "ver", "bak", "verBak"} = Names
        BY DEF Names
      <4> QED
        BY <2>0, <4>1, <4>2, <4>4, <4>5 DEF CopyOf
    <3>2. CASE RollbackStop(u) \/ RollbackPut(u) \/ RollbackStart(u)
      <4>1. Go(u, "read jar") \/ Go(u, "put") \/ Go(u, "done")
        BY <3>2, RollbackPutSteps, LastSteps DEF RollbackStop, RollbackStart
      <4>2. pc'[u] \in {"read jar", "put", "done"}
        BY <2>0, <4>1, PcSteps
      <4> QED
        BY <4>2 DEF CopyOf
    <3> QED
      BY <3>0, <3>1, <3>2 DEF Rollback
  <2>3. CASE \/ \E c \in Restarts : Restart(c)
             \/ AdminDies
             \/ Crash \/ ExitClean \/ SaveConfig \/ Entrypoint
             \/ UNCHANGED vars
    <3>1. copy' = copy /\ files' = files /\ pc'[u] \in {pc[u], "done"}
      BY <2>0, <2>3, OtherSteps
    <3> QED
      BY <2>0, <3>1 DEF CopyOf
  <2> QED
    BY <2>1, <2>2, <2>3, NextSteps
<1> QED
  BY <1>1, <1>2, Typing, AloneInvariant, PTL DEF Spec

(* The steps of an update, by the stage it goes to. *)
LEMMA UpdateGoes ==
  ASSUME Stages, NEW u \in Updates, Update(u), ~UpdateBackupJar(u), ~UpdateBackupVersion(u)
  PROVE  pc'[u] \notin {"jarkept", "kept"}
<1>0. u \in Calls
  BY CallSets
<1>1. CASE UpdateOpen(u)
  BY <1>0, <1>1 DEF UpdateOpen
<1>2. CASE ~UpdateOpen(u)
  <2>1. Go(u, "stopped") \/ Go(u, "fetched") \/ Go(u, "done") \/ Go(u, "put") \/ Go(u, "unlinked")
    BY <1>2, LastSteps, UpdatePutSteps
       DEF Update, UpdateStop, UpdateFetched, UpdateCutShort, UpdateFetchFails, UpdateNoFile,
           UpdateUnlink, UpdateStart
  <2>2. pc'[u] \in {"stopped", "fetched", "done", "put", "unlinked"}
    BY <1>0, <2>1, PcSteps
  <2> QED
    BY <2>2
<1> QED
  BY <1>1, <1>2

LEMMA BackupsInvariant == Spec => []BackupsMade
<1>1. Init => BackupsMade
  BY CallSets DEF Init, BackupsMade, BackupOf
<1>2. Types /\ Alone /\ BackupsMade /\ [Next]_vars => BackupsMade'
  <2> SUFFICES ASSUME Types, Alone, BackupsMade, [Next]_vars,
                      Without({"swaps overlap", "file skipped"})', NEW u \in Updates
               PROVE  BackupOf(u)'
    BY DEF BackupsMade
  <2>0. /\ Stages /\ IsAlone /\ FileTypes
        /\ "swaps overlap" \notin trouble' /\ "file skipped" \notin trouble'
        /\ BackupOf(u) /\ u \in Swaps /\ u \in Calls
    BY TroubleSteps, CallSets DEF Types, Alone, Without, BackupsMade
  <2>1. ASSUME NEW c \in Swaps, Acts(c), c # u PROVE BackupOf(u)'
    <3>1. Idle(u)'
      BY <2>0, <2>1, OnlyOne
    <3> QED
      BY <3>1 DEF BackupOf, Idle
  <2>2. ASSUME Acts(u) PROVE BackupOf(u)'
    <3>0. Update(u)
      BY <2>2, CallSets DEF Acts
    <3>1. CASE UpdateBackupJar(u)
      <4>1. Go(u, "jarkept") /\ files' = [files EXCEPT !["bak"] = files["jar"]]
        BY <2>0, <3>1, BackupSteps DEF UpdateBackupJar
      <4>2. pc'[u] = "jarkept" /\ files'.bak = files'.jar
        BY <2>0, <4>1, PcSteps, FilesWritten
      <4> QED
        BY <4>2 DEF BackupOf
    <3>2. CASE UpdateBackupVersion(u)
      <4>1. pc[u] = "jarkept" /\ Go(u, "kept") /\ files' = [files EXCEPT !["verBak"] = files["ver"]]
        BY <2>0, <3>2, BackupSteps DEF UpdateBackupVersion
      <4>2. pc'[u] = "kept" /\ files'.verBak = files'.ver /\ files'.bak = files.bak /\ files'.jar = files.jar
        BY <2>0, <4>1, PcSteps, FilesWritten
      <4> QED
        BY <2>0, <4>1, <4>2 DEF BackupOf
    <3>3. CASE ~UpdateBackupJar(u) /\ ~UpdateBackupVersion(u)
      BY <2>0, <3>0, <3>3, UpdateGoes DEF BackupOf
    <3> QED
      BY <3>1, <3>2, <3>3
  <2>3. CASE \/ \E c \in Restarts : Restart(c)
             \/ AdminDies
             \/ Crash \/ ExitClean \/ SaveConfig \/ Entrypoint
             \/ UNCHANGED vars
    <3>1. files' = files /\ pc'[u] \in {pc[u], "done"}
      BY <2>0, <2>3, OtherSteps
    <3> QED
      BY <2>0, <3>1 DEF BackupOf
  <2> QED
    BY <2>1, <2>2, <2>3, NextSteps
<1> QED
  BY <1>1, <1>2, Typing, AloneInvariant, PTL DEF Spec

(* What a step does to the files when swaps do not overlap, nothing is       *)
(* skipped and the put does not fail: nothing, a copy of an update, or the   *)
(* whole of a swap.                                                          *)
LEMMA WholeSwaps ==
  ASSUME Types, IsAlone, Installed, [Next]_vars,
         \A c \in Updates : TmpOf(c) /\ BackupOf(c), \A c \in Rollbacks : CopyOf(c),
         "swaps overlap" \notin trouble', "put fails" \notin trouble',
         "file skipped" \notin trouble', "admin dies" \notin trouble'
  PROVE  \/ UNCHANGED <<files, before>> /\ (Copying' <=> Copying)
         \/ Copying' /\ before' = before /\ files'.jar = files.jar /\ files'.ver = files.ver
         \/ /\ files'.jar = files'.ver \/ "cut download" \in trouble
            /\ files'.bak = files.jar /\ files'.verBak = files.ver
            /\ before' = [jar |-> files.jar, ver |-> files.ver]
         \/ /\ ~Copying
            /\ files'.jar = IF files.bak # "none" THEN files.bak ELSE files.jar
            /\ files'.ver = IF files.verBak # "none" THEN files.verBak ELSE files.ver
            /\ files'.bak = files.jar /\ files'.verBak = files.ver
            /\ before' = [jar |-> files.jar, ver |-> files.ver]
<1>0. /\ Stages /\ FileTypes /\ {"jar", "ver", "bak", "verBak"} = Names
      /\ \A c \in Updates : c \in Swaps /\ c \in Calls /\ c \notin Rollbacks
      /\ \A c \in Rollbacks : c \in Swaps /\ c \in Calls
  BY CallSets DEF Types, Names
<1>1. ASSUME NEW c \in Updates, UpdateBackupJar(c) \/ UpdateBackupVersion(c)
      PROVE  Copying' /\ before' = before /\ files'.jar = files.jar /\ files'.ver = files.ver
  <2>1. /\ Go(c, "jarkept") \/ Go(c, "kept")
        /\ \/ files' = [files EXCEPT !["bak"] = files["jar"]]
           \/ files' = [files EXCEPT !["verBak"] = files["ver"]]
           \/ "file skipped" \in trouble'
        /\ before' = before
    BY <1>1, BackupSteps DEF UpdateBackupJar, UpdateBackupVersion
  <2>2. pc'[c] \in {"jarkept", "kept"}
    BY <1>0, <2>1, PcSteps
  <2> QED
    BY <1>0, <2>1, <2>2, FilesWritten DEF Copying
<1>2. ASSUME NEW c \in Updates, UpdatePut(c)
      PROVE  /\ files'.jar = files'.ver \/ "cut download" \in trouble
             /\ files'.bak = files.jar /\ files'.verBak = files.ver
             /\ before' = [jar |-> files.jar, ver |-> files.ver]
  <2>1. PICK done \in {{}, {"jar"}, {"jar", "ver"}} :
           files' = [n \in Names |-> IF n \notin done THEN files[n]
                                     ELSE IF n = "jar" THEN tmp ELSE Target[c]]
           /\ \/ done = {"jar", "ver"} /\ Go(c, "put")
                 /\ before' = [jar |-> files.jar, ver |-> files.ver]
              \/ Go(c, "done") /\ UNCHANGED before /\ "put fails" \in trouble'
    BY <1>2, UpdatePutSteps
  <2>2. pc[c] = "kept"
    BY <1>2, UpdatePutSteps
  <2>3. /\ tmp = Target[c] \/ "cut download" \in trouble
        /\ files.bak = files.jar /\ files.verBak = files.ver
    BY <2>2 DEF TmpOf, BackupOf
  <2> QED
    BY <1>0, <2>1, <2>3
<1>3. ASSUME NEW c \in Updates, Update(c), ~UpdateBackupJar(c), ~UpdateBackupVersion(c), ~UpdatePut(c)
      PROVE  UNCHANGED <<files, before>> /\ ~Copying /\ ~Copying'
  <2>1. UNCHANGED <<files, before>>
    BY <1>3 DEF Update, UpdateStop, UpdateOpen, UpdateFetched, UpdateCutShort, UpdateFetchFails,
                UpdateNoFile, UpdateUnlink, UpdateStart
  <2>2. ~UpdateNoFile(c)
    <3>1. pc[c] = "kept" => tmp \in {Target[c], "cut"}
      BY DEF TmpOf
    <3>2. Target[c] # "none"
      BY Assumed
    <3> QED
      BY <3>1, <3>2 DEF UpdateNoFile
  <2>3. pc[c] \in {"new", "stopped", "fetching", "sharing", "put", "unlinked"}
    BY <1>3, <2>2 DEF Update, UpdateStop, UpdateOpen, UpdateFetched, UpdateCutShort, UpdateFetchFails,
                      UpdateUnlink, UpdateStart
  <2>4. pc'[c] \notin {"jarkept", "kept"}
    BY <1>0, <1>3, UpdateGoes
  <2>5. \A d \in Updates : d # c => Idle(d) /\ Idle(d)'
    BY <1>0, <1>3, OnlyOne DEF Acts
  <2> QED
    BY <2>1, <2>3, <2>4, <2>5 DEF Copying, Idle
<1>4. ASSUME NEW c \in Rollbacks, RollbackPut(c)
      PROVE  /\ ~Copying
             /\ files'.jar = IF files.bak # "none" THEN files.bak ELSE files.jar
             /\ files'.ver = IF files.verBak # "none" THEN files.verBak ELSE files.ver
             /\ files'.bak = files.jar /\ files'.verBak = files.ver
             /\ before' = [jar |-> files.jar, ver |-> files.ver]
  <2>1. PICK done \in SUBSET {n \in Names : copy[c][Counterpart(n)] # "none"} :
           files' = [n \in Names |-> IF n \in done THEN copy[c][Counterpart(n)] ELSE files[n]]
           /\ \/ done = {n \in Names : copy[c][Counterpart(n)] # "none"} /\ Go(c, "put")
                 /\ before' = [jar |-> files.jar, ver |-> files.ver]
              \/ Go(c, "done") /\ UNCHANGED before /\ "put fails" \in trouble'
    BY <1>4, RollbackPutSteps
  <2>2. pc[c] = "swap"
    BY <1>4, RollbackPutSteps
  <2>3. /\ copy[c]["jar"] = files.jar /\ copy[c]["bak"] = files.bak
        /\ copy[c]["ver"] = files.ver /\ copy[c]["verBak"] = files.verBak
    BY <2>2 DEF CopyOf
  <2>4. /\ Counterpart("jar") = "bak" /\ Counterpart("bak") = "jar"
        /\ Counterpart("ver") = "verBak" /\ Counterpart("verBak") = "ver"
    BY DEF Counterpart
  <2>5. ~Copying
    <3>1. \A d \in Updates : Idle(d)
      BY <1>0, <1>4, OnlyOne DEF Acts, Rollback
    <3> QED
      BY <3>1 DEF Copying, Idle
  <2>6. /\ files'["jar"] = IF files.bak # "none" THEN files.bak ELSE files.jar
        /\ files'["ver"] = IF files.verBak # "none" THEN files.verBak ELSE files.ver
        /\ files'["bak"] = files.jar /\ files'["verBak"] = files.ver
    <3>1. done = {n \in Names : copy[c][Counterpart(n)] # "none"}
      BY <2>1
    <3>2. "jar" \in Names /\ "ver" \in Names /\ "bak" \in Names /\ "verBak" \in Names
      BY <1>0
    <3>3. \A n \in Names : files'[n] = IF copy[c][Counterpart(n)] # "none"
                                      THEN copy[c][Counterpart(n)] ELSE files[n]
      BY <2>1, <3>1
    <3>4. /\ files'["jar"] = IF copy[c]["bak"] # "none" THEN copy[c]["bak"] ELSE files["jar"]
          /\ files'["ver"] = IF copy[c]["verBak"] # "none" THEN copy[c]["verBak"] ELSE files["ver"]
          /\ files'["bak"] = IF copy[c]["jar"] # "none" THEN copy[c]["jar"] ELSE files["bak"]
          /\ files'["verBak"] = IF copy[c]["ver"] # "none" THEN copy[c]["ver"] ELSE files["verBak"]
      BY <2>4, <3>2, <3>3
    <3> QED
      BY <2>3, <3>4 DEF Installed
  <2> QED
    BY <2>1, <2>5, <2>6
<1>5. ASSUME NEW c \in Rollbacks, Rollback(c), ~RollbackPut(c)
      PROVE  UNCHANGED <<files, before>> /\ (Copying' <=> Copying)
  <2>1. UNCHANGED <<files, before>>
    BY <1>5, ReadSteps DEF Rollback, RollbackStop, RollbackStart
  <2>2. \A d \in Updates : pc'[d] = pc[d]
    BY <1>0, <1>5, OnlyOne DEF Acts
  <2> QED
    BY <2>1, <2>2 DEF Copying
<1>6. CASE \/ \E c \in Restarts : Restart(c)
           \/ AdminDies
           \/ Crash \/ ExitClean \/ SaveConfig \/ Entrypoint
           \/ UNCHANGED vars
  <2>1. UNCHANGED <<files, before>>
    BY <1>0, <1>6, OtherSteps
  <2>2. \A d \in Updates : pc'[d] = pc[d]
    BY <1>0, <1>6, OtherSteps
  <2> QED
    BY <2>1, <2>2 DEF Copying
<1> QED
  BY <1>1, <1>2, <1>3, <1>4, <1>5, <1>6, NextSteps DEF Acts

LEMMA VersionsInvariant == Spec => []VersionsFollow
<1>1. Init => VersionsFollow
  <2> SUFFICES ASSUME Init PROVE files.ver = files.jar /\ files.verBak = files.bak
    BY DEF VersionsFollow
  <2>1. "jar" \in Names /\ "ver" \in Names /\ "bak" \in Names /\ "verBak" \in Names
    BY DEF Names
  <2> QED
    BY <2>1 DEF Init
<1>2. /\ Types /\ Alone /\ TmpKept /\ CopyKept /\ BackupsMade /\ Installed
      /\ VersionsFollow /\ [Next]_vars
      => VersionsFollow'
  <2> SUFFICES ASSUME Types, Alone, TmpKept, CopyKept, BackupsMade, Installed, VersionsFollow,
                      [Next]_vars,
                      Without({"swaps overlap", "put fails", "file skipped", "cut download", "admin dies"})'
               PROVE  files'.ver = files'.jar /\ (~Copying' => files'.verBak = files'.bak)
    BY DEF VersionsFollow
  <2>1. /\ "swaps overlap" \notin trouble' /\ "put fails" \notin trouble' /\ "file skipped" \notin trouble'
        /\ "cut download" \notin trouble' /\ "admin dies" \notin trouble'
        /\ trouble \subseteq trouble'
    BY TroubleSteps DEF Without
  <2>2. /\ IsAlone
        /\ \A c \in Updates : TmpOf(c) /\ BackupOf(c)
        /\ \A c \in Rollbacks : CopyOf(c)
        /\ files.ver = files.jar /\ (~Copying => files.verBak = files.bak)
    BY <2>1 DEF Without, Alone, TmpKept, CopyKept, BackupsMade, VersionsFollow
  <2> QED
    BY <2>1, <2>2, WholeSwaps
<1> QED
  BY <1>1, <1>2, Typing, AloneInvariant, TmpInvariant, CopyInvariant, BackupsInvariant,
     InstalledInvariant, PTL DEF Spec

LEMMA UndoInvariant == Spec => []UndoKept
<1>1. Init => UndoKept
  <2>1. Init => before.jar = "none"
    BY DEF Init
  <2> QED
    BY <2>1 DEF UndoKept
<1>2. /\ Types /\ Alone /\ TmpKept /\ CopyKept /\ BackupsMade /\ Installed
      /\ UndoKept /\ [Next]_vars
      => UndoKept'
  <2> SUFFICES ASSUME Types, Alone, TmpKept, CopyKept, BackupsMade, Installed, UndoKept, [Next]_vars,
                      Without({"swaps overlap", "put fails", "file skipped", "admin dies"})',
                      ~Copying', before'.jar # "none"
               PROVE  before' = [jar |-> files'.bak, ver |-> files'.verBak]
    BY DEF UndoKept
  <2>1. /\ "swaps overlap" \notin trouble' /\ "put fails" \notin trouble' /\ "file skipped" \notin trouble'
        /\ "admin dies" \notin trouble' /\ trouble \subseteq trouble'
    BY TroubleSteps DEF Without
  <2>2. /\ IsAlone
        /\ \A c \in Updates : TmpOf(c) /\ BackupOf(c)
        /\ \A c \in Rollbacks : CopyOf(c)
        /\ ~Copying /\ before.jar # "none" => before = [jar |-> files.bak, ver |-> files.verBak]
    BY <2>1 DEF Without, Alone, TmpKept, CopyKept, BackupsMade, UndoKept
  <2> QED
    BY <2>1, <2>2, WholeSwaps
<1> QED
  BY <1>1, <1>2, Typing, AloneInvariant, TmpInvariant, CopyInvariant, BackupsInvariant,
     InstalledInvariant, PTL DEF Spec

LEMMA QuietCopies == Quiet => ~Copying
  BY CallSets DEF Quiet, Copying, Idle

(* Once no request is under way version.txt is the version of the installed  *)
(* jar, and version.txt.bak that of the copy, but for what the property      *)
(* excepts.                                                                  *)
THEOREM VersionIsOfTheJar == Spec => []VersionNamesJar
<1>1. VersionsFollow => VersionNamesJar
  BY QuietCopies DEF VersionsFollow, VersionNamesJar, Without
<1> QED
  BY <1>1, VersionsInvariant, PTL

(* The copies are what the last change replaced, so that an undo brings it   *)
(* back whole, but for what the property excepts.                            *)
THEOREM UndoBringsBack == Spec => []UndoIsReady
<1>1. UndoKept => UndoIsReady
  BY QuietCopies DEF UndoKept, UndoIsReady, Without
<1> QED
  BY <1>1, UndoInvariant, PTL
=============================================================================
