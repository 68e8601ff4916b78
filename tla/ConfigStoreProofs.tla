------------------------- MODULE ConfigStoreProofs -------------------------
(***************************************************************************)
(* What the configuration files and their caches promise, for any number   *)
(* of threads, whichever requests they serve, for any requests, backups,   *)
(* failing reads and writes and crashes.  Nothing is assumed about how     *)
(* requests overlap: where the code loses an update, the history variable  *)
(* trouble says by which of its three ways, and the theorems say what each *)
(* of them leaves intact.                                                  *)
(***************************************************************************)
EXTENDS ConfigStore, FiniteSetTheorems, TLAPS

-----------------------------------------------------------------------------
\* Which requests are at which places, and what they have with them.
Loading == {"stat", "hit", "miss", "fill", "stamp"}
Saving == {"backup", "admin", "server", "finish"}

Placed ==
    /\ admin = Nothing <=> mtime = Nothing
    /\ \A t \in Threads :
        /\ pc[t] \in {"idle", "lock"} => path[t] = "admin"
        /\ pc[t] = "lock" => kind[t] \in Locks
        /\ pc[t] \in Loading => kind[t] \in Reads
        /\ pc[t] \in {"hit", "miss", "fill", "stamp"} /\ path[t] = "admin" => admin # Nothing
        /\ pc[t] = "copy" => kind[t] \in {"upload", "restore", "snapshot"}
        /\ pc[t] = "pick" => kind[t] = "restore"
        /\ pc[t] \in Saving => kind[t] \in Saves
        /\ pc[t] \in {"server", "finish"} => admin # Nothing
        /\ pc[t] # "idle" /\ kind[t] \in Saves => req[t] \in Requests
        /\ pc[t] # "idle" /\ kind[t] = "restore" => file[t] \in Seconds

Typed == TypeOK /\ Placed

\* Past "lock" every request but a read and a PUT /api/ml/config has the lock, and
\* the latter is there alone, or the lock was passed by.
Unlocked == "unlocked" \in trouble

Held ==
    \A t \in Threads : Inside(t) =>
        IF kind[t] = "ml" THEN Unlocked \/ \A u \in Threads : Inside(u) => u = t
        ELSE lock = t

\* No mtime that is still to come has been seen.
Owns(t) == pc[t] # "idle" /\ kind[t] \in Saves
Pending(t) == Owns(t) /\ pc[t] \notin {"server", "finish"}

Unseen(r) ==
    /\ r # mtime /\ r # serverMtime
    /\ \A p \in Processes : cacheMtime[p] # r
    /\ \A t \in Threads : mark[t] # r

Fresh ==
    /\ \A r \in Requests \ used : Unseen(r)
    /\ \A t \in Threads : Owns(t) => req[t] \in used
    /\ \A t \in Threads : Pending(t) => Unseen(req[t])
    /\ \A t, u \in Threads : Owns(t) /\ Owns(u) /\ req[t] = req[u] => t = u

\* t has looked up the current file.
Latest(t) == path[t] = CurrentPath /\ mark[t] = MtimeAt(CurrentPath)

Raced == "raced" \in trouble

\* What was read from the current file is the current configuration; unless fills
\* raced, so is what is cached under its stamp, or soon will be.
Cached ==
    /\ \A t \in Threads : pc[t] \in {"fill", "stamp"} /\ Latest(t) => data[t] = Current
    /\ \A t \in Threads : pc[t] = "stamp" /\ Latest(t) /\ ~Raced
                          => cacheData[ProcessOf[t]] \in {Current, Nothing}
    /\ \A p \in Processes : Stamped(p) /\ ~Raced => cacheData[p] \in {Current, Nothing}

\* An edit in load_config is at the current file, and finds the current configuration.
Loads ==
    trouble = {} =>
        \A t \in Threads : kind[t] \in Edit =>
            /\ pc[t] = "stat" => path[t] = "admin" \/ admin = Nothing
            /\ pc[t] \in {"hit", "miss", "fill", "stamp"} => Latest(t)
            /\ pc[t] = "hit" => cacheData[ProcessOf[t]] \in {Current, Nothing}

\* What a thread brings to save_config, and what its save has done.
Newest(s) == backups[s] = admin /\ \A u \in Seconds : u > s => backups[u] = Nothing

Brought(t) ==
    /\ trouble = {} /\ pc[t] \in {"backup", "admin"} /\ kind[t] \in Edit
          => data[t] = Edited(Current, req[t])
    /\ ~Unlocked /\ pc[t] = "server" => data[t] = admin
    /\ ~Unlocked /\ pc[t] = "admin" /\ admin # Nothing => \E s \in Seconds : Newest(s)

Stored ==
    /\ \A t \in Threads : Brought(t)
    /\ NoLostUpdate /\ ServerFollows
    /\ \A s \in Seconds : s > now => backups[s] = Nothing

-----------------------------------------------------------------------------
\* The assumptions of the store, one by one.
LEMMA Assumed ==
    /\ ProcessOf \in [Threads -> Processes] /\ Serves \in [Threads -> SUBSET Kinds]
    /\ Installed \notin Requests /\ Nobody \notin Threads
    /\ MaxBackups \in Nat /\ MaxBackups > 0
    /\ MaxSeconds \in Nat /\ MaxFaults \in Nat
    /\ Nothing \notin Edits /\ Nothing \notin Content /\ Nothing \notin Kinds
BY StoreAssumption, NothingAssumption DEF StoreAssumption, NothingAssumption

\* Configurations, and what is made of them, are configurations.
LEMMA Contents ==
    /\ Default \in Content /\ Whole({Installed}) \in Content
    /\ \A r \in Requests : Whole({r}) \in Content
    /\ \A c \in Content : Strip(c) \in Content
    /\ \A c \in Content, r \in Requests : Edited(c, r) \in Content
BY DEF Default, Whole, Content, Edits, Strip, Edited

\* The current configuration is one, and its file has an mtime.
LEMMA CurrentTyped ==
    ASSUME Typed
    PROVE  /\ Current \in Content /\ MtimeAt(CurrentPath) \in Edits
           /\ CurrentPath \in Paths
           /\ \A p \in Paths : FileAt(p) \in Content \cup {Nothing} /\ MtimeAt(p) \in Edits \cup {Nothing}
BY Assumed DEF Typed, TypeOK, Placed, Current, CurrentPath, FileAt, MtimeAt, Paths

LEMMA InitTyped == Init => Typed
<1> SUFFICES ASSUME Init PROVE Typed
  OBVIOUS
<1>1. admin \in Content \cup {Nothing} /\ server \in Content
  BY Contents DEF Init
<1>2. Placed
  BY Contents, Assumed DEF Init, Placed, Loading, Saving, Edits
<1>3. mtime \in Edits \cup {Nothing} /\ serverMtime \in Edits
  BY DEF Init, Edits
<1>4. now \in Seconds /\ faults \in 0..MaxFaults
  BY Assumed DEF Init, Seconds
<1>5. expected \in Content
  BY <1>1 DEF Init, Current, CurrentPath, FileAt
<1> QED
  BY <1>1, <1>2, <1>3, <1>4, <1>5, Assumed DEF Init, Typed, TypeOK, Places, Paths

\* A thread that is done leaves nothing behind.
LEMMA EndTyped ==
    ASSUME Typed, NEW t \in Threads, End(t), UNCHANGED <<admin, mtime, server>>
    PROVE  /\ lock' \in Threads \cup {Nobody}
           /\ pc' \in [Threads -> Places]
           /\ kind' \in [Threads -> Kinds \cup {Nothing}] /\ req' \in [Threads -> Edits \cup {Nothing}]
           /\ file' \in [Threads -> Seconds \cup {Nothing}] /\ path' \in [Threads -> Paths]
           /\ mark' \in [Threads -> Edits \cup {Nothing}]
           /\ data' \in [Threads -> Content \cup {Nothing}]
           /\ \A u \in Threads : pc'[u] \in {"fill", "stamp", "backup", "admin", "server"}
                                   => data'[u] # Nothing
           /\ Placed'
BY DEF Typed, TypeOK, Placed, End, Goto, Places, Loading, Saving, Paths

\* A thread that goes on to save d, or to copy it, typed as it should be.
LEMMA OnTyped ==
    ASSUME Typed, NEW t \in Threads, NEW d \in Content, NEW place \in {"backup", "copy"},
           pc' = [pc EXCEPT ![t] = place], data' = [data EXCEPT ![t] = d],
           UNCHANGED <<lock, kind, req, file, path, mark, admin, mtime, server>>,
           pc[t] # "idle",
           IF place = "backup" THEN kind[t] \in Saves ELSE kind[t] \in {"upload", "snapshot"}
    PROVE  /\ lock' \in Threads \cup {Nobody}
           /\ pc' \in [Threads -> Places]
           /\ kind' \in [Threads -> Kinds \cup {Nothing}] /\ req' \in [Threads -> Edits \cup {Nothing}]
           /\ file' \in [Threads -> Seconds \cup {Nothing}] /\ path' \in [Threads -> Paths]
           /\ mark' \in [Threads -> Edits \cup {Nothing}]
           /\ data' \in [Threads -> Content \cup {Nothing}]
           /\ \A u \in Threads : pc'[u] \in {"fill", "stamp", "backup", "admin", "server"}
                                   => data'[u] # Nothing
           /\ Placed'
<1>1. d # Nothing
  BY Assumed
<1>2. data' \in [Threads -> Content \cup {Nothing}] /\ pc' \in [Threads -> Places]
  BY DEF Typed, TypeOK, Places
<1>3. \A u \in Threads : pc'[u] \in {"fill", "stamp", "backup", "admin", "server"}
                           => data'[u] # Nothing
  BY <1>1 DEF Typed, TypeOK
<1>4. Placed'
  BY DEF Typed, TypeOK, Placed, Loading, Saving
<1> QED
  BY <1>2, <1>3, <1>4 DEF Typed, TypeOK

\* What is loaded is edited, copied or answered with.
LEMMA LoadedTyped ==
    ASSUME Typed, NEW t \in Threads, NEW c \in Content, pc[t] \in Loading, Loaded(t, c),
           UNCHANGED <<admin, mtime, server>>
    PROVE  /\ lock' \in Threads \cup {Nobody}
           /\ pc' \in [Threads -> Places]
           /\ kind' \in [Threads -> Kinds \cup {Nothing}] /\ req' \in [Threads -> Edits \cup {Nothing}]
           /\ file' \in [Threads -> Seconds \cup {Nothing}] /\ path' \in [Threads -> Paths]
           /\ mark' \in [Threads -> Edits \cup {Nothing}]
           /\ data' \in [Threads -> Content \cup {Nothing}]
           /\ \A u \in Threads : pc'[u] \in {"fill", "stamp", "backup", "admin", "server"}
                                   => data'[u] # Nothing
           /\ Placed'
<1>1. CASE End(t)
  BY <1>1, EndTyped
<1>2. CASE /\ kind[t] \in Edit
           /\ data' = [data EXCEPT ![t] = Edited(c, req[t])]
           /\ Goto(t, "backup")
           /\ UNCHANGED <<lock, kind, req, file, path, mark>>
  <2>1. kind[t] \in Saves /\ pc[t] # "idle"
    BY <1>2 DEF Loading, Saves, Kinds, Edit
  <2>2. req[t] \in Requests
    BY <2>1 DEF Typed, Placed
  <2>3. Edited(c, req[t]) \in Content
    BY <2>2, Contents
  <2>4. pc' = [pc EXCEPT ![t] = "backup"]
    BY <1>2 DEF Goto
  <2> QED
    BY <1>2, <2>1, <2>3, <2>4, OnTyped
<1>3. CASE /\ kind[t] \in {"upload", "snapshot"}
           /\ data' = [data EXCEPT ![t] = c]
           /\ Goto(t, "copy")
           /\ UNCHANGED <<lock, kind, req, file, path, mark>>
  <2>1. pc' = [pc EXCEPT ![t] = "copy"] /\ pc[t] # "idle"
    BY <1>3 DEF Goto, Loading
  <2> QED
    BY <1>3, <2>1, OnTyped
<1> QED
  BY <1>1, <1>2, <1>3 DEF Loaded

LEMMA UploadedTyped ==
    ASSUME Typed, NEW t \in Threads, kind[t] = "upload", pc[t] # "idle", Uploaded(t),
           UNCHANGED <<admin, mtime, server>>
    PROVE  /\ lock' \in Threads \cup {Nobody}
           /\ pc' \in [Threads -> Places]
           /\ kind' \in [Threads -> Kinds \cup {Nothing}] /\ req' \in [Threads -> Edits \cup {Nothing}]
           /\ file' \in [Threads -> Seconds \cup {Nothing}] /\ path' \in [Threads -> Paths]
           /\ mark' \in [Threads -> Edits \cup {Nothing}]
           /\ data' \in [Threads -> Content \cup {Nothing}]
           /\ \A u \in Threads : pc'[u] \in {"fill", "stamp", "backup", "admin", "server"}
                                   => data'[u] # Nothing
           /\ Placed'
<1>1. kind[t] \in Saves /\ req[t] \in Requests
  BY DEF Typed, Placed, Saves, Kinds
<1>2. Whole({req[t]}) \in Content
  BY <1>1, Contents
<1>3. /\ pc' = [pc EXCEPT ![t] = "backup"] /\ data' = [data EXCEPT ![t] = Whole({req[t]})]
      /\ UNCHANGED <<lock, kind, req, file, path, mark>>
  BY DEF Uploaded, Goto
<1> QED
  BY <1>1, <1>2, <1>3, OnTyped

LEMMA StepTyped == Typed /\ [Next]_vars => Typed'
<1> SUFFICES ASSUME Typed, [Next]_vars PROVE Typed'
  OBVIOUS
<1> USE DEF Typed, TypeOK, Placed, files, caches, thread, ghosts, Places, Loading, Saving, Goto, Troubled, Troubles
<1>1. ASSUME NEW t \in Threads, NEW k \in Kinds, NEW r \in Requests \cup {Nothing},
             NEW f \in Seconds \cup {Nothing}, Begin(t, k, r, f)
      PROVE  Typed'
  BY <1>1, Assumed DEF Begin, FirstStep, Reads, Locks, Saves, Kinds, Edits, Edit
<1>2. ASSUME NEW t \in Threads, Acquire(t) PROVE Typed'
  <2>1. CASE kind[t] = "put"
    <3>1. req[t] \in Requests
      BY <1>2, <2>1 DEF Acquire, Saves, Kinds
    <3>2. Whole({req[t]}) \in Content /\ Whole({req[t]}) # Nothing
      BY <3>1, Contents, Assumed
    <3> QED
      BY <1>2, <2>1, <3>1, <3>2 DEF Acquire, Reads, Locks, Saves, Kinds
  <2>2. CASE kind[t] # "put"
    BY <1>2, <2>2 DEF Acquire, Reads, Locks, Saves, Kinds
  <2> QED
    BY <2>1, <2>2
<1>18. ASSUME NEW t \in Threads, GiveUp(t) PROVE Typed'
  BY <1>18, EndTyped DEF GiveUp
<1>3. ASSUME NEW t \in Threads, Stat(t) PROVE Typed'
  <2>1. MtimeAt(path[t]) \in Edits \cup {Nothing}
    BY CurrentTyped
  <2>2. CASE FileAt(path[t]) = Nothing
    BY <1>3, <2>2, Assumed DEF Stat, Paths, FileAt
  <2>3. CASE FileAt(path[t]) # Nothing
    BY <1>3, <2>1, <2>3 DEF Stat, FileAt
  <2> QED
    BY <2>2, <2>3
<1>4. ASSUME NEW t \in Threads, Hit(t) PROVE Typed'
  <2>1. cacheData[ProcessOf[t]] \in Content \cup {Nothing} /\ pc[t] # "idle" /\ pc[t] \in Loading
    BY <1>4, Assumed DEF Hit
  <2>2. CASE cacheData[ProcessOf[t]] # Nothing
    BY <1>4, <2>1, <2>2, LoadedTyped DEF Hit
  <2>3. CASE cacheData[ProcessOf[t]] = Nothing /\ kind[t] = "upload"
    BY <1>4, <2>1, <2>3, UploadedTyped DEF Hit
  <2>4. CASE cacheData[ProcessOf[t]] = Nothing /\ kind[t] # "upload"
    BY <1>4, <2>1, <2>4, EndTyped DEF Hit
  <2> QED
    BY <2>2, <2>3, <2>4
<1>5. ASSUME NEW t \in Threads, Miss(t) PROVE Typed'
  <2>1. FileAt(path[t]) \in Content /\ FileAt(path[t]) # Nothing
    BY <1>5, Assumed DEF Miss, FileAt
  <2> QED
    BY <1>5, <2>1, Assumed DEF Miss
<1>19. ASSUME NEW t \in Threads, Unreadable(t) PROVE Typed'
  <2>1. faults' \in 0..MaxFaults /\ trouble' \subseteq Troubles
        /\ UNCHANGED <<files, backups, now, caches, used, expected, torn>>
    BY <1>19, Assumed DEF Unreadable
  <2>2. CASE path[t] = "server" /\ Loaded(t, Default)
    BY <1>19, <2>1, <2>2, LoadedTyped, Contents DEF Unreadable
  <2>3. CASE /\ path' = [path EXCEPT ![t] = "server"] /\ pc' = [pc EXCEPT ![t] = "stat"]
             /\ UNCHANGED <<lock, kind, req, file, mark, data>>
    <3>1. pc[t] \in Loading /\ pc[t] # "idle"
      BY <1>19 DEF Unreadable
    <3> QED
      BY <2>1, <2>3, <3>1 DEF Paths
  <2> QED
    BY <1>19, <2>2, <2>3 DEF Unreadable
<1>6. ASSUME NEW t \in Threads, FillData(t) PROVE Typed'
  <2>1. ProcessOf[t] \in Processes /\ pc[t] = "fill" /\ data[t] \in Content
    BY <1>6, Assumed DEF FillData
  <2>2. cacheData' \in [Processes -> Content \cup {Nothing}]
    BY <1>6, <2>1 DEF FillData
  <2>3. /\ pc' = [pc EXCEPT ![t] = "stamp"] /\ trouble' \subseteq Troubles
        /\ UNCHANGED <<files, backups, now, lock, cachePath, cacheMtime, kind, req, file, path, mark,
                       data, used, faults, expected, torn>>
    BY <1>6 DEF FillData
  <2>4. pc' \in [Threads -> Places]
    BY <2>3
  <2> QED
    BY <2>1, <2>2, <2>3, <2>4
<1>7. ASSUME NEW t \in Threads, FillStamp(t) PROVE Typed'
  BY <1>7, LoadedTyped, Assumed DEF FillStamp
<1>8. ASSUME NEW t \in Threads, Copy(t) PROVE Typed'
  <2>1. CASE Fails(t) /\ UNCHANGED backups
    BY <1>8, <2>1, EndTyped, Assumed DEF Copy, Fails
  <2>2. CASE kind[t] = "snapshot" /\ End(t) /\ UNCHANGED faults
    BY <1>8, <2>2, EndTyped DEF Copy
  <2>3. CASE /\ kind[t] = "restore" /\ Goto(t, "pick")
             /\ UNCHANGED <<lock, kind, req, file, path, mark, data>>
             /\ UNCHANGED faults
    BY <1>8, <2>3 DEF Copy
  <2>4. CASE kind[t] = "upload" /\ Uploaded(t) /\ UNCHANGED faults
    BY <1>8, <2>4, UploadedTyped DEF Copy
  <2> QED
    BY <1>8, <2>1, <2>2, <2>3, <2>4 DEF Copy
<1>9. ASSUME NEW t \in Threads, Pick(t) PROVE Typed'
  <2>1. CASE End(t)
    BY <1>9, <2>1, EndTyped DEF Pick
  <2>2. CASE ~End(t)
    BY <1>9, <2>2 DEF Pick, Saves, Kinds
  <2> QED
    BY <2>1, <2>2
<1>10. ASSUME NEW t \in Threads, Backup(t) PROVE Typed'
  <2>1. CASE Fails(t)
    BY <1>10, <2>1, EndTyped, Assumed DEF Backup, Fails
  <2>2. CASE ~Fails(t)
    BY <1>10, <2>2, Assumed DEF Backup
  <2> QED
    BY <2>1, <2>2
<1>11. ASSUME NEW t \in Threads, WriteAdmin(t) PROVE Typed'
  <2>1. data[t] \in Content /\ data[t] # Nothing /\ req[t] \in Requests
    BY <1>11 DEF WriteAdmin
  <2>2. Intended(t) \in Content
    BY <2>1, Contents DEF Intended
  <2>3. CASE Fails(t) /\ UNCHANGED <<admin, mtime, expected>>
    BY <1>11, <2>3, EndTyped, Assumed DEF WriteAdmin, Fails
  <2>4. CASE /\ admin' = data[t] /\ mtime' = req[t] /\ expected' = Intended(t)
             /\ Goto(t, "server")
             /\ UNCHANGED <<lock, kind, req, file, path, mark, data, faults>>
    BY <1>11, <2>1, <2>2, <2>4, Assumed DEF WriteAdmin, Edits
  <2> QED
    BY <1>11, <2>3, <2>4 DEF WriteAdmin
<1>12. ASSUME NEW t \in Threads, WriteServer(t) PROVE Typed'
  <2>1. Strip(data[t]) \in Content /\ Strip(data[t]) # Nothing /\ req[t] \in Requests
    BY <1>12, Contents, Assumed DEF WriteServer
  <2>2. CASE Fails(t) /\ torn' = TRUE /\ UNCHANGED <<server, serverMtime>>
    BY <1>12, <2>2, EndTyped, Assumed DEF WriteServer, Fails
  <2>3. CASE /\ server' = Strip(data[t]) /\ serverMtime' = req[t] /\ torn' = FALSE
             /\ Goto(t, "finish")
             /\ UNCHANGED <<lock, kind, req, file, path, mark, data, faults>>
    BY <1>12, <2>1, <2>3 DEF WriteServer, Edits
  <2> QED
    BY <1>12, <2>2, <2>3 DEF WriteServer
<1>13. ASSUME NEW t \in Threads, Finish(t) PROVE Typed'
  BY <1>13, EndTyped DEF Finish, Trimmed
<1>14. CASE Cleanup
  BY <1>14 DEF Cleanup, Trimmed
<1>15. CASE Tick
  BY <1>15, Assumed DEF Tick, Seconds
<1>16. CASE Crash
  BY <1>16, Assumed DEF Crash, Paths
<1>17. CASE UNCHANGED vars
  BY <1>17 DEF vars
<1> HIDE DEF Typed, TypeOK, Placed
<1> QED
  BY <1>1, <1>2, <1>3, <1>4, <1>5, <1>6, <1>7, <1>8, <1>9, <1>10, <1>11, <1>12, <1>13, <1>14,
     <1>15, <1>16, <1>17, <1>18, <1>19, ZenonT(30) DEF Next
-----------------------------------------------------------------------------
LEMMA InitHeld == Init => Held
BY DEF Init, Held, Inside

\* Past "lock" there is one request at a time, besides reads.
LEMMA Alone ==
    ASSUME Typed, Held, ~Unlocked, NEW t \in Threads, NEW u \in Threads, Inside(t), Inside(u)
    PROVE  t = u
BY DEF Held

LEMMA StepHeld == Typed /\ Held /\ [Next]_vars => Held'
<1> SUFFICES ASSUME Typed, Held, [Next]_vars PROVE Held'
  OBVIOUS
<1> USE DEF Typed, TypeOK, Placed, Held, Inside, Unlocked, files, caches, thread, ghosts, Goto, Loading, Saving, Troubled
<1>1. ASSUME NEW t \in Threads, NEW k \in Kinds, NEW r \in Requests \cup {Nothing},
             NEW f \in Seconds \cup {Nothing}, Begin(t, k, r, f)
      PROVE  Held'
  BY <1>1, Assumed DEF Begin, FirstStep, Locks, Kinds
<1>2. ASSUME NEW t \in Threads, Acquire(t) PROVE Held'
  BY <1>2, Assumed DEF Acquire
<1>18. ASSUME NEW t \in Threads, GiveUp(t) PROVE Held'
  BY <1>18, Assumed DEF GiveUp, End
<1>3. ASSUME NEW t \in Threads, Stat(t) PROVE Held'
  BY <1>3, Assumed DEF Stat
<1>4. ASSUME NEW t \in Threads, Hit(t) PROVE Held'
  BY <1>4, Assumed DEF Hit, Loaded, Uploaded, End
<1>5. ASSUME NEW t \in Threads, Miss(t) PROVE Held'
  BY <1>5, Assumed DEF Miss
<1>19. ASSUME NEW t \in Threads, Unreadable(t) PROVE Held'
  BY <1>19, Assumed DEF Unreadable, Loaded, End
<1>6. ASSUME NEW t \in Threads, FillData(t) PROVE Held'
  BY <1>6, Assumed DEF FillData
<1>7. ASSUME NEW t \in Threads, FillStamp(t) PROVE Held'
  BY <1>7, Assumed DEF FillStamp, Loaded, End
<1>8. ASSUME NEW t \in Threads, Copy(t) PROVE Held'
  BY <1>8, Assumed DEF Copy, Fails, Uploaded, End
<1>9. ASSUME NEW t \in Threads, Pick(t) PROVE Held'
  BY <1>9, Assumed DEF Pick, End
<1>10. ASSUME NEW t \in Threads, Backup(t) PROVE Held'
  BY <1>10, Assumed DEF Backup, Fails, End
<1>11. ASSUME NEW t \in Threads, WriteAdmin(t) PROVE Held'
  BY <1>11, Assumed DEF WriteAdmin, Fails, End
<1>12. ASSUME NEW t \in Threads, WriteServer(t) PROVE Held'
  BY <1>12, Assumed DEF WriteServer, Fails, End
<1>13. ASSUME NEW t \in Threads, Finish(t) PROVE Held'
  BY <1>13, Assumed DEF Finish, End
<1>14. CASE Cleanup
  BY <1>14, Assumed DEF Cleanup
<1>15. CASE Tick
  BY <1>15, Assumed DEF Tick
<1>16. CASE Crash
  BY <1>16, Assumed DEF Crash
<1>17. CASE UNCHANGED vars
  BY <1>17, Assumed DEF vars
<1> HIDE DEF Typed, TypeOK, Placed, Held, Inside, Unlocked, files, caches, thread, ghosts, Goto, Loading, Saving, Troubled
<1> QED
  BY <1>1, <1>2, <1>3, <1>4, <1>5, <1>6, <1>7, <1>8, <1>9, <1>10, <1>11, <1>12, <1>13, <1>14,
     <1>15, <1>16, <1>17, <1>18, <1>19, ZenonT(30) DEF Next

-----------------------------------------------------------------------------
LEMMA InitFresh == Init => Fresh
BY Assumed DEF Init, Fresh, Unseen, Owns, Pending, Edits

\* A thread that is done has seen and awaits nothing.
LEMMA EndFresh ==
    ASSUME Typed, Fresh, NEW t \in Threads, End(t),
           UNCHANGED <<mtime, serverMtime, cacheMtime, used>>
    PROVE  Fresh'
BY Assumed DEF Typed, TypeOK, Fresh, Unseen, Owns, Pending, End, Goto, Edits

LEMMA StepFresh == Typed /\ Fresh /\ [Next]_vars => Fresh'
<1> SUFFICES ASSUME Typed, Fresh, [Next]_vars PROVE Fresh'
  OBVIOUS
<1> USE DEF Typed, TypeOK, Placed, Fresh, Unseen, Owns, Pending, files, caches, thread, ghosts, Goto, Loading, Saving, Saves, Kinds, Edits
<1>1. ASSUME NEW t \in Threads, NEW k \in Kinds, NEW r \in Requests \cup {Nothing},
             NEW f \in Seconds \cup {Nothing}, Begin(t, k, r, f)
      PROVE  Fresh'
  BY <1>1, Assumed DEF Begin, FirstStep
<1>2. ASSUME NEW t \in Threads, Acquire(t) PROVE Fresh'
  BY <1>2, Assumed DEF Acquire
<1>18. ASSUME NEW t \in Threads, GiveUp(t) PROVE Fresh'
  BY <1>18, EndFresh DEF GiveUp
<1>3. ASSUME NEW t \in Threads, Stat(t) PROVE Fresh'
  BY <1>3, Assumed DEF Stat, MtimeAt
<1>4. ASSUME NEW t \in Threads, Hit(t) PROVE Fresh'
  <2>1. CASE End(t)
    BY <1>4, <2>1, EndFresh DEF Hit
  <2>2. CASE ~End(t)
    BY <1>4, <2>2, Assumed DEF Hit, Loaded, Uploaded
  <2> QED
    BY <2>1, <2>2
<1>5. ASSUME NEW t \in Threads, Miss(t) PROVE Fresh'
  BY <1>5, Assumed DEF Miss
<1>19. ASSUME NEW t \in Threads, Unreadable(t) PROVE Fresh'
  <2>1. UNCHANGED <<mtime, serverMtime, cacheMtime, used>> /\ pc[t] \in {"stat", "miss"}
    BY <1>19 DEF Unreadable
  <2>2. CASE End(t)
    BY <2>1, <2>2, EndFresh
  <2>3. CASE ~End(t)
    <3>1. /\ UNCHANGED <<kind, req, mark>>
          /\ \E place \in {"stat", "backup", "copy"} : pc' = [pc EXCEPT ![t] = place]
      BY <1>19, <2>3 DEF Unreadable, Loaded
    <3> QED
      BY <2>1, <3>1, Assumed
  <2> QED
    BY <2>2, <2>3
<1>6. ASSUME NEW t \in Threads, FillData(t) PROVE Fresh'
  BY <1>6, Assumed DEF FillData
<1>7. ASSUME NEW t \in Threads, FillStamp(t) PROVE Fresh'
  <2>1. /\ \A p \in Processes : cacheMtime'[p] \in {cacheMtime[p], mark[t]}
        /\ UNCHANGED <<mtime, serverMtime, used>> /\ pc[t] = "stamp"
    BY <1>7, Assumed DEF FillStamp
  <2>2. CASE End(t)
    BY <2>1, <2>2, Assumed DEF End
  <2>3. CASE pc' \in {[pc EXCEPT ![t] = "backup"], [pc EXCEPT ![t] = "copy"]} /\ UNCHANGED <<kind, req, mark>>
    BY <2>1, <2>3, Assumed
  <2> QED
    BY <1>7, <2>2, <2>3 DEF FillStamp, Loaded
<1>8. ASSUME NEW t \in Threads, Copy(t) PROVE Fresh'
  <2>1. CASE End(t)
    BY <1>8, <2>1, EndFresh DEF Copy
  <2>2. CASE ~End(t)
    BY <1>8, <2>2, Assumed DEF Copy, Fails, Uploaded
  <2> QED
    BY <2>1, <2>2
<1>9. ASSUME NEW t \in Threads, Pick(t) PROVE Fresh'
  <2>1. CASE End(t)
    BY <1>9, <2>1, EndFresh DEF Pick
  <2>2. CASE ~End(t)
    BY <1>9, <2>2, Assumed DEF Pick
  <2> QED
    BY <2>1, <2>2
<1>10. ASSUME NEW t \in Threads, Backup(t) PROVE Fresh'
  <2>1. CASE End(t)
    BY <1>10, <2>1, EndFresh DEF Backup, Fails
  <2>2. CASE ~End(t)
    BY <1>10, <2>2, Assumed DEF Backup, Fails
  <2> QED
    BY <2>1, <2>2
<1>11. ASSUME NEW t \in Threads, WriteAdmin(t) PROVE Fresh'
  <2>1. CASE Fails(t) /\ UNCHANGED <<admin, mtime, expected>>
    BY <1>11, <2>1, EndFresh DEF WriteAdmin, Fails
  <2>2. CASE /\ mtime' = req[t] /\ pc' = [pc EXCEPT ![t] = "server"]
             /\ UNCHANGED <<kind, req, mark>>
    <3>1. UNCHANGED <<serverMtime, cacheMtime, used>> /\ Pending(t)
      BY <1>11 DEF WriteAdmin
    <3>2. \A u \in Threads : Pending(u)' => Pending(u) /\ u # t
      BY <2>2
    <3> QED
      BY <2>2, <3>1, <3>2
  <2> QED
    BY <1>11, <2>1, <2>2 DEF WriteAdmin
<1>12. ASSUME NEW t \in Threads, WriteServer(t) PROVE Fresh'
  <2>1. CASE Fails(t) /\ UNCHANGED <<server, serverMtime>>
    BY <1>12, <2>1, EndFresh DEF WriteServer, Fails
  <2>2. CASE /\ serverMtime' = req[t] /\ pc' = [pc EXCEPT ![t] = "finish"]
             /\ UNCHANGED <<kind, req, mark>>
    BY <1>12, <2>2, Assumed DEF WriteServer
  <2> QED
    BY <1>12, <2>1, <2>2 DEF WriteServer
<1>13. ASSUME NEW t \in Threads, Finish(t) PROVE Fresh'
  BY <1>13, Assumed DEF Finish, End
<1>14. CASE Cleanup
  BY <1>14, Assumed DEF Cleanup
<1>15. CASE Tick
  BY <1>15, Assumed DEF Tick
<1>16. CASE Crash
  BY <1>16, Assumed DEF Crash
<1>17. CASE UNCHANGED vars
  BY <1>17, Assumed DEF vars
<1> HIDE DEF Typed, TypeOK, Placed, Fresh, Unseen, Owns, Pending, files, caches, thread, ghosts, Goto, Loading, Saving, Saves, Kinds, Edits
<1> QED
  BY <1>1, <1>2, <1>3, <1>4, <1>5, <1>6, <1>7, <1>8, <1>9, <1>10, <1>11, <1>12, <1>13, <1>14,
     <1>15, <1>16, <1>17, <1>18, <1>19, ZenonT(30) DEF Next

-----------------------------------------------------------------------------
LEMMA InitCached == Init => Cached
BY Assumed DEF Init, Cached, Stamped, CurrentPath, MtimeAt, FileAt, Current

LEMMA StepCached == Typed /\ Fresh /\ Cached /\ [Next]_vars => Cached'
<1> SUFFICES ASSUME Typed, Fresh, Cached, [Next]_vars PROVE Cached'
  OBVIOUS
<1> USE DEF Typed, TypeOK, Placed, Fresh, Unseen, Owns, Pending, Cached, Latest, Raced, Stamped, files, caches, thread, ghosts, Goto, Loading, Saving, Saves, Kinds, Troubled, Current, CurrentPath, FileAt, MtimeAt
<1>1. ASSUME NEW t \in Threads, NEW k \in Kinds, NEW r \in Requests \cup {Nothing},
             NEW f \in Seconds \cup {Nothing}, Begin(t, k, r, f)
      PROVE  Cached'
  BY <1>1, Assumed DEF Begin, FirstStep
<1>2. ASSUME NEW t \in Threads, Acquire(t) PROVE Cached'
  BY <1>2, Assumed DEF Acquire
<1>18. ASSUME NEW t \in Threads, GiveUp(t) PROVE Cached'
  BY <1>18, Assumed DEF GiveUp, End
<1>3. ASSUME NEW t \in Threads, Stat(t) PROVE Cached'
  BY <1>3, Assumed DEF Stat
<1>4. ASSUME NEW t \in Threads, Hit(t) PROVE Cached'
  BY <1>4, Assumed DEF Hit, Loaded, Uploaded, End
<1>5. ASSUME NEW t \in Threads, Miss(t) PROVE Cached'
  BY <1>5, Assumed DEF Miss
<1>19. ASSUME NEW t \in Threads, Unreadable(t) PROVE Cached'
  BY <1>19, Assumed DEF Unreadable, Loaded, End
<1>6. ASSUME NEW t \in Threads, FillData(t) PROVE Cached'
  <2> DEFINE p == ProcessOf[t]
  <2>1. /\ p \in Processes /\ pc[t] = "fill" /\ data[t] \in Content
        /\ UNCHANGED <<files, cachePath, cacheMtime, kind, path, mark, data>>
        /\ cacheData' = [cacheData EXCEPT ![p] = data[t]]
        /\ pc' = [pc EXCEPT ![t] = "stamp"]
    BY <1>6, Assumed DEF FillData
  <2>2. ~Raced' => ~Raced /\ ~Races(t)
    BY <1>6 DEF FillData
  <2>3. Current' = Current /\ CurrentPath' = CurrentPath
        /\ (\A u \in Threads : Latest(u)' <=> Latest(u))
        /\ (\A q \in Processes : Stamped(q)' <=> Stamped(q))
    BY <2>1
  <2> HIDE DEF Current, CurrentPath, Latest, Stamped, Raced, FileAt, MtimeAt
  <2>4. \A u \in Threads : pc'[u] \in {"fill", "stamp"} /\ Latest(u)' => data'[u] = Current'
    BY <2>1, <2>3
  <2>5. ASSUME NEW u \in Threads, pc'[u] = "stamp", Latest(u)', ~Raced'
        PROVE  cacheData'[ProcessOf[u]] \in {Current, Nothing}'
    <3>1. CASE u = t
      BY <2>1, <2>3, <2>5, <3>1
    <3>2. CASE u # t /\ ProcessOf[u] = p
      BY <2>1, <2>2, <2>3, <2>5, <3>2 DEF Races
    <3>3. CASE u # t /\ ProcessOf[u] # p
      BY <2>1, <2>2, <2>3, <2>5, <3>3, Assumed
    <3> QED
      BY <3>1, <3>2, <3>3
  <2>6. ASSUME NEW q \in Processes, Stamped(q)', ~Raced'
        PROVE  cacheData'[q] \in {Current, Nothing}'
    BY <2>1, <2>2, <2>3, <2>6 DEF Races
  <2> QED
    BY <2>4, <2>5, <2>6
<1>7. ASSUME NEW t \in Threads, FillStamp(t) PROVE Cached'
  BY <1>7, Assumed DEF FillStamp, Loaded, End
<1>8. ASSUME NEW t \in Threads, Copy(t) PROVE Cached'
  BY <1>8, Assumed DEF Copy, Fails, Uploaded, End
<1>9. ASSUME NEW t \in Threads, Pick(t) PROVE Cached'
  <2>1. /\ pc' = [pc EXCEPT ![t] = IF backups[file[t]] = Nothing THEN "idle" ELSE "backup"]
        /\ pc[t] = "pick" /\ UNCHANGED <<files, caches, trouble>>
        /\ \A u \in Threads \ {t} : UNCHANGED <<path[u], mark[u], data[u]>>
    BY <1>9 DEF Pick, End
  <2> QED
    BY <2>1, Assumed
<1>10. ASSUME NEW t \in Threads, Backup(t) PROVE Cached'
  BY <1>10, Assumed DEF Backup, Fails, End
<1>11. ASSUME NEW t \in Threads, WriteAdmin(t) PROVE Cached'
  <2>1. CASE Fails(t) /\ UNCHANGED <<admin, mtime, expected>>
    BY <1>11, <2>1, Assumed DEF WriteAdmin, Fails, End
  <2>2. CASE /\ admin' = data[t] /\ mtime' = req[t]
             /\ UNCHANGED <<lock, kind, req, file, path, mark, data, faults>>
    <3>1. Unseen(req[t]) /\ CurrentPath' = "admin" /\ MtimeAt(CurrentPath)' = req[t]
          /\ UNCHANGED <<cachePath, cacheMtime>>
      BY <1>11, <2>2, Assumed DEF WriteAdmin
    <3>2. (\A u \in Threads : ~Latest(u)') /\ \A p \in Processes : ~Stamped(p)'
      BY <2>2, <3>1
    <3> QED
      BY <3>2
  <2> QED
    BY <1>11, <2>1, <2>2 DEF WriteAdmin
<1>12. ASSUME NEW t \in Threads, WriteServer(t) PROVE Cached'
  BY <1>12, Assumed DEF WriteServer, Fails, End
<1>13. ASSUME NEW t \in Threads, Finish(t) PROVE Cached'
  BY <1>13, Assumed DEF Finish, End
<1>14. CASE Cleanup
  BY <1>14, Assumed DEF Cleanup
<1>15. CASE Tick
  BY <1>15, Assumed DEF Tick
<1>16. CASE Crash
  BY <1>16, Assumed DEF Crash
<1>17. CASE UNCHANGED vars
  BY <1>17, Assumed DEF vars
<1> HIDE DEF Typed, TypeOK, Placed, Fresh, Unseen, Owns, Pending, Cached, Latest, Raced, Stamped, files, caches, thread, ghosts, Goto, Loading, Saving, Saves, Kinds, Troubled, Current, CurrentPath, FileAt, MtimeAt
<1> QED
  BY <1>1, <1>2, <1>3, <1>4, <1>5, <1>6, <1>7, <1>8, <1>9, <1>10, <1>11, <1>12, <1>13, <1>14,
     <1>15, <1>16, <1>17, <1>18, <1>19, ZenonT(30) DEF Next

-----------------------------------------------------------------------------
LEMMA InitLoads == Init => Loads
BY Assumed DEF Init, Loads

LEMMA StepLoads == Typed /\ Held /\ Cached /\ Loads /\ [Next]_vars => Loads'
<1> SUFFICES ASSUME Typed, Held, Cached, Loads, [Next]_vars PROVE Loads'
  OBVIOUS
<1> USE DEF Typed, TypeOK, Placed, Loads, Latest, Stamped, Unlocked, Raced, files, caches, thread, ghosts, Goto, Loading, Saving, Saves, Kinds, Edit, Locks, Troubled, Current, CurrentPath, FileAt, MtimeAt
<1>1. ASSUME NEW t \in Threads, NEW k \in Kinds, NEW r \in Requests \cup {Nothing},
             NEW f \in Seconds \cup {Nothing}, Begin(t, k, r, f)
      PROVE  Loads'
  BY <1>1, Assumed DEF Begin, FirstStep
<1>2. ASSUME NEW t \in Threads, Acquire(t) PROVE Loads'
  BY <1>2, Assumed DEF Acquire
<1>18. ASSUME NEW t \in Threads, GiveUp(t) PROVE Loads'
  BY <1>18, Assumed DEF GiveUp, End
<1>3. ASSUME NEW t \in Threads, Stat(t) PROVE Loads'
  <2>1. /\ \A u \in Threads \ {t} : UNCHANGED <<pc[u], path[u], mark[u]>>
        /\ UNCHANGED <<files, caches, kind, trouble>>
    BY <1>3 DEF Stat
  <2>2. CASE FileAt(path[t]) = Nothing
    BY <1>3, <2>1, <2>2, Assumed DEF Stat
  <2>3. CASE FileAt(path[t]) # Nothing
    <3>1. trouble = {} /\ kind[t] \in Edit => path[t] = CurrentPath
      BY <1>3, <2>3, Assumed DEF Stat, Paths
    <3>2. path'[t] = path[t] /\ mark'[t] = MtimeAt(path[t]) /\ pc'[t] \in {"hit", "miss"}
          /\ (pc'[t] = "hit" => /\ cachePath[ProcessOf[t]] = path[t]
                                /\ cacheMtime[ProcessOf[t]] = MtimeAt(path[t]))
      BY <1>3, <2>3 DEF Stat
    <3>3. trouble = {} /\ kind[t] \in Edit /\ pc'[t] = "hit"
            => cacheData[ProcessOf[t]] \in {Current, Nothing}
      BY <3>1, <3>2, Assumed DEF Cached
    <3> QED
      BY <2>1, <3>1, <3>2, <3>3
  <2> QED
    BY <2>2, <2>3
<1>4. ASSUME NEW t \in Threads, Hit(t) PROVE Loads'
  BY <1>4, Assumed DEF Hit, Loaded, Uploaded, End
<1>5. ASSUME NEW t \in Threads, Miss(t) PROVE Loads'
  BY <1>5, Assumed DEF Miss
<1>19. ASSUME NEW t \in Threads, Unreadable(t) PROVE Loads'
  <2>1. /\ UNCHANGED <<files, caches>>
        /\ kind[t] \in Edit => trouble' # {}
        /\ trouble' = {} => trouble = {}
    BY <1>19 DEF Unreadable
  <2>2. /\ \A u \in Threads \ {t} : UNCHANGED <<pc[u], kind[u], path[u], mark[u]>>
        /\ kind'[t] \in {kind[t], Nothing}
    <3>1. CASE End(t)
      BY <3>1, Assumed DEF End
    <3>2. CASE ~End(t)
      BY <1>19, <3>2, Assumed DEF Unreadable, Loaded
    <3> QED
      BY <3>1, <3>2
  <2>3. trouble' = {} => kind'[t] \notin Edit
    BY <2>1, <2>2, Assumed
  <2> QED
    BY <2>1, <2>2, <2>3
<1>6. ASSUME NEW t \in Threads, FillData(t) PROVE Loads'
  <2>1. trouble' = {} => trouble = {} /\ ~Races(t)
    BY <1>6 DEF FillData
  <2>2. /\ pc' = [pc EXCEPT ![t] = "stamp"] /\ pc[t] = "fill"
        /\ cacheData' = [cacheData EXCEPT ![ProcessOf[t]] = data[t]]
        /\ UNCHANGED <<files, cachePath, cacheMtime, kind, path, mark>>
    BY <1>6 DEF FillData
  <2>3. ASSUME NEW u \in Threads, trouble' = {}, pc'[u] = "hit", kind[u] \in Edit
        PROVE  cacheData'[ProcessOf[u]] \in {Current, Nothing}
    <3>1. u # t /\ pc[u] = "hit" /\ cacheData[ProcessOf[u]] \in {Current, Nothing}
      BY <2>1, <2>2, <2>3
    <3>2. ProcessOf[u] = ProcessOf[t] => data[t] = Current
      BY <2>1, <2>3, <3>1 DEF Races
    <3> QED
      BY <2>2, <3>1, <3>2, Assumed
  <2> QED
    BY <2>1, <2>2, <2>3
<1>7. ASSUME NEW t \in Threads, FillStamp(t) PROVE Loads'
  BY <1>7, Assumed DEF FillStamp, Loaded, End
<1>8. ASSUME NEW t \in Threads, Copy(t) PROVE Loads'
  BY <1>8, Assumed DEF Copy, Fails, Uploaded, End
<1>9. ASSUME NEW t \in Threads, Pick(t) PROVE Loads'
  BY <1>9, Assumed DEF Pick, End
<1>10. ASSUME NEW t \in Threads, Backup(t) PROVE Loads'
  BY <1>10, Assumed DEF Backup, Fails, End
<1>11. ASSUME NEW t \in Threads, WriteAdmin(t) PROVE Loads'
  <2>1. CASE Fails(t) /\ UNCHANGED <<admin, mtime, expected>>
    BY <1>11, <2>1, Assumed DEF WriteAdmin, Fails, End
  <2>2. CASE /\ pc' = [pc EXCEPT ![t] = "server"]
             /\ UNCHANGED <<lock, kind, req, file, path, mark, data, faults>>
    <3>1. UNCHANGED <<trouble, caches>> /\ Inside(t)
      BY <1>11 DEF WriteAdmin, Inside
    <3>2. ASSUME NEW u \in Threads, trouble = {}, kind[u] \in Edit PROVE pc'[u] \notin Loading
      BY <2>2, <3>1, <3>2, Alone DEF Inside
    <3> QED
      BY <2>2, <3>1, <3>2
  <2> QED
    BY <1>11, <2>1, <2>2 DEF WriteAdmin
<1>12. ASSUME NEW t \in Threads, WriteServer(t) PROVE Loads'
  BY <1>12, Assumed DEF WriteServer, Fails, End
<1>13. ASSUME NEW t \in Threads, Finish(t) PROVE Loads'
  BY <1>13, Assumed DEF Finish, End
<1>14. CASE Cleanup
  BY <1>14, Assumed DEF Cleanup
<1>15. CASE Tick
  BY <1>15, Assumed DEF Tick
<1>16. CASE Crash
  BY <1>16, Assumed DEF Crash
<1>17. CASE UNCHANGED vars
  BY <1>17, Assumed DEF vars
<1> HIDE DEF Typed, TypeOK, Placed, Loads, Latest, Stamped, Unlocked, Raced, files, caches, thread, ghosts, Goto, Loading, Saving, Saves, Kinds, Edit, Locks, Troubled, Current, CurrentPath, FileAt, MtimeAt
<1> QED
  BY <1>1, <1>2, <1>3, <1>4, <1>5, <1>6, <1>7, <1>8, <1>9, <1>10, <1>11, <1>12, <1>13, <1>14,
     <1>15, <1>16, <1>17, <1>18, <1>19, ZenonT(30) DEF Next

-----------------------------------------------------------------------------
LEMMA InitStored == Init => Stored
<1> SUFFICES ASSUME Init PROVE Stored
  OBVIOUS
<1>1. Strip(Current) = server /\ Current = expected
  BY Assumed DEF Init, Current, CurrentPath, FileAt, Strip, Whole
<1> QED
  BY <1>1 DEF Init, Stored, Brought, NoLostUpdate, EveryEditStays, ServerFollows, Seconds

\* The cleanup keeps the newest backup.
LEMMA NewestStays ==
    ASSUME Typed
    PROVE  /\ \A s \in Seconds : Trimmed[s] \in {backups[s], Nothing}
           /\ \A s \in Seconds : Newest(s) => Trimmed[s] = admin
                                           /\ \A u \in Seconds : u > s => Trimmed[u] = Nothing
<1>1. \A s \in Seconds : Trimmed[s] \in {backups[s], Nothing}
  BY DEF Trimmed
<1>2. ASSUME NEW s \in Seconds, Newest(s) PROVE Trimmed[s] = admin
  <2>1. {u \in Seconds : u > s /\ backups[u] # Nothing} = {}
    BY <1>2 DEF Newest
  <2>2. Cardinality({u \in Seconds : u > s /\ backups[u] # Nothing}) = 0
    BY <2>1, FS_EmptySet
  <2> QED
    BY <1>2, <2>2, Assumed DEF Trimmed, Newest
<1>3. ASSUME NEW s \in Seconds, Newest(s), NEW u \in Seconds, u > s PROVE Trimmed[u] = Nothing
  BY <1>1, <1>3 DEF Newest
<1> QED
  BY <1>1, <1>2, <1>3

\* A request that ends outside a save, or that says it was cut off in one.
LEMMA EndStored ==
    ASSUME Typed, Stored, NEW t \in Threads, End(t),
           UNCHANGED <<admin, expected, server, backups, now>>, trouble \subseteq trouble',
           torn' \in BOOLEAN, torn => torn', pc[t] = "server" => torn'
    PROVE  Stored'
BY DEF Typed, TypeOK, Stored, Brought, NoLostUpdate, EveryEditStays, ServerFollows, Newest, Unlocked, End, Goto, Current, CurrentPath, FileAt

\* What an edit starts from is the current configuration.
LEMMA LoadedStored ==
    ASSUME Typed, Stored, NEW t \in Threads, NEW c \in Content, Loaded(t, c), pc[t] \in Loading,
           kind[t] \in Edit /\ trouble' = {} => c = Current,
           UNCHANGED <<admin, expected, server, backups, now, torn>>, trouble \subseteq trouble'
    PROVE  Stored'
<1>1. CASE End(t)
  BY <1>1, EndStored DEF Typed, TypeOK, Loading
<1>2. CASE /\ kind[t] \in Edit
           /\ data' = [data EXCEPT ![t] = Edited(c, req[t])]
           /\ Goto(t, "backup")
           /\ UNCHANGED <<lock, kind, req, file, path, mark>>
  BY <1>2 DEF Typed, TypeOK, Stored, Brought, NoLostUpdate, EveryEditStays, ServerFollows, Newest, Unlocked, Goto, Loading, Current, CurrentPath, FileAt
<1>3. CASE /\ kind[t] \in {"upload", "snapshot"}
           /\ data' = [data EXCEPT ![t] = c]
           /\ Goto(t, "copy")
           /\ UNCHANGED <<lock, kind, req, file, path, mark>>
  BY <1>3 DEF Typed, TypeOK, Stored, Brought, NoLostUpdate, EveryEditStays, ServerFollows, Newest, Unlocked, Goto, Loading, Current, CurrentPath, FileAt
<1> QED
  BY <1>1, <1>2, <1>3 DEF Loaded

LEMMA StepStored == Typed /\ Held /\ Cached /\ Loads /\ Stored /\ [Next]_vars => Stored'
<1> SUFFICES ASSUME Typed, Held, Cached, Loads, Stored, [Next]_vars PROVE Stored'
  OBVIOUS
<1> USE DEF Typed, TypeOK, Placed, Stored, Brought, NoLostUpdate, EveryEditStays, ServerFollows, Newest, Unlocked, files, caches, thread, ghosts, Goto, Loading, Saving, Saves, Kinds, Edit, Troubled, Current, CurrentPath, FileAt
<1>1. ASSUME NEW t \in Threads, NEW k \in Kinds, NEW r \in Requests \cup {Nothing},
             NEW f \in Seconds \cup {Nothing}, Begin(t, k, r, f)
      PROVE  Stored'
  BY <1>1, Assumed DEF Begin, FirstStep
<1>2. ASSUME NEW t \in Threads, Acquire(t) PROVE Stored'
  <2>1. pc[t] = "lock" /\ trouble \subseteq trouble'
        /\ UNCHANGED <<files, backups, now, kind, req, expected, torn>>
    BY <1>2 DEF Acquire
  <2>2. /\ pc'[t] \in {"backup", "copy", "stat"} /\ (pc'[t] = "backup" => kind[t] = "put")
        /\ \A u \in Threads \ {t} : UNCHANGED <<pc[u], data[u]>>
    BY <1>2 DEF Acquire
  <2> QED
    BY <2>1, <2>2
<1>18. ASSUME NEW t \in Threads, GiveUp(t) PROVE Stored'
  BY <1>18, EndStored DEF GiveUp
<1>3. ASSUME NEW t \in Threads, Stat(t) PROVE Stored'
  BY <1>3, Assumed DEF Stat
<1>4. ASSUME NEW t \in Threads, Hit(t) PROVE Stored'
  <2> DEFINE c == cacheData[ProcessOf[t]]
  <2>1. pc[t] = "hit" /\ UNCHANGED <<files, backups, now, caches, used, faults, ghosts>>
    BY <1>4 DEF Hit
  <2>2. CASE c # Nothing
    <3>1. c \in Content /\ (kind[t] \in Edit /\ trouble = {} => c = Current)
      BY <2>1, <2>2, Assumed DEF Loads
    <3> QED
      BY <1>4, <2>1, <2>2, <3>1, LoadedStored DEF Hit
  <2>3. CASE c = Nothing /\ kind[t] = "upload"
    BY <1>4, <2>1, <2>3 DEF Hit, Uploaded
  <2>4. CASE c = Nothing /\ kind[t] # "upload"
    BY <1>4, <2>1, <2>4, EndStored DEF Hit
  <2> QED
    BY <2>2, <2>3, <2>4
<1>5. ASSUME NEW t \in Threads, Miss(t) PROVE Stored'
  BY <1>5, Assumed DEF Miss
<1>19. ASSUME NEW t \in Threads, Unreadable(t) PROVE Stored'
  <2>1. /\ pc[t] \in {"stat", "miss"} /\ trouble \subseteq trouble' /\ ~(kind[t] \in Edit /\ trouble' = {})
        /\ UNCHANGED <<files, backups, now, caches, used, expected, torn>>
    BY <1>19 DEF Unreadable
  <2>2. CASE path[t] = "server" /\ Loaded(t, Default)
    BY <2>1, <2>2, LoadedStored, Contents
  <2>3. CASE pc' = [pc EXCEPT ![t] = "stat"] /\ UNCHANGED <<kind, req, data>>
    BY <2>1, <2>3
  <2> QED
    BY <1>19, <2>2, <2>3 DEF Unreadable
<1>6. ASSUME NEW t \in Threads, FillData(t) PROVE Stored'
  <2>1. /\ pc' = [pc EXCEPT ![t] = "stamp"] /\ pc[t] = "fill" /\ trouble \subseteq trouble'
        /\ UNCHANGED <<files, backups, now, kind, req, data, expected, torn>>
    BY <1>6 DEF FillData
  <2> QED
    BY <2>1
<1>7. ASSUME NEW t \in Threads, FillStamp(t) PROVE Stored'
  <2>1. data[t] \in Content /\ pc[t] = "stamp"
    BY <1>7 DEF FillStamp
  <2>2. kind[t] \in Edit /\ trouble = {} => data[t] = Current
    BY <2>1 DEF Loads, Cached
  <2> QED
    BY <1>7, <2>1, <2>2, LoadedStored DEF FillStamp
<1>8. ASSUME NEW t \in Threads, Copy(t) PROVE Stored'
  <2>1. CASE Fails(t) /\ UNCHANGED backups
    BY <1>8, <2>1, EndStored DEF Copy, Fails
  <2>2. CASE backups' = [backups EXCEPT ![now] = IF kind[t] = "restore" THEN server ELSE data[t]]
    <3>1. Inside(t) /\ UNCHANGED <<files, now, ghosts>> /\ pc[t] = "copy"
      BY <1>8 DEF Copy, Inside
    <3>2. ~Unlocked => \A u \in Threads \ {t} : pc[u] \notin {"backup", "admin", "server"}
      BY <3>1, Alone DEF Inside
    <3>3. \A s \in Seconds : s > now => s # now /\ backups[s] = Nothing
      BY DEF Seconds
    <3>4. \A s \in Seconds : s > now' => backups'[s] = Nothing
      BY <2>2, <3>1, <3>3
    <3>5. /\ pc'[t] \in {"idle", "pick", "backup"} /\ kind'[t] \notin Edit
          /\ \A u \in Threads \ {t} : pc'[u] = pc[u] /\ kind'[u] = kind[u] /\ data'[u] = data[u] /\ req'[u] = req[u]
      BY <1>8, <3>1, Assumed DEF Copy, Fails, End, Uploaded
    <3> QED
      BY <3>1, <3>2, <3>4, <3>5
  <2> QED
    BY <1>8, <2>1, <2>2 DEF Copy
<1>9. ASSUME NEW t \in Threads, Pick(t) PROVE Stored'
  <2>1. CASE End(t)
    BY <1>9, <2>1, EndStored DEF Pick
  <2>2. CASE ~End(t)
    BY <1>9, <2>2 DEF Pick
  <2> QED
    BY <2>1, <2>2
<1>10. ASSUME NEW t \in Threads, Backup(t) PROVE Stored'
  <2>1. CASE Fails(t) /\ UNCHANGED backups
    BY <1>10, <2>1, EndStored DEF Backup, Fails
  <2>2. CASE /\ backups' = IF admin = Nothing THEN backups ELSE [backups EXCEPT ![now] = admin]
             /\ pc' = [pc EXCEPT ![t] = "admin"]
             /\ UNCHANGED <<lock, kind, req, file, path, mark, data, faults>>
    <3>1. Inside(t) /\ UNCHANGED <<files, now, ghosts>> /\ pc[t] = "backup"
      BY <1>10 DEF Backup, Inside
    <3>2. ~Unlocked => \A u \in Threads \ {t} : pc[u] \notin {"backup", "admin", "server"}
      BY <3>1, Alone DEF Inside
    <3>3. now \in Seconds /\ \A s \in Seconds : s > now => s # now /\ backups[s] = Nothing
      BY DEF Seconds
    <3>4. admin # Nothing => Newest(now)'
      BY <2>2, <3>1, <3>3
    <3>5. \A s \in Seconds : s > now' => backups'[s] = Nothing
      BY <2>2, <3>1, <3>3
    <3> QED
      BY <2>2, <3>1, <3>2, <3>3, <3>4, <3>5
  <2> QED
    BY <1>10, <2>1, <2>2 DEF Backup
<1>11. ASSUME NEW t \in Threads, WriteAdmin(t) PROVE Stored'
  <2>1. CASE Fails(t) /\ UNCHANGED <<admin, mtime, expected>>
    BY <1>11, <2>1, EndStored DEF WriteAdmin, Fails
  <2>2. CASE /\ admin' = data[t] /\ mtime' = req[t] /\ expected' = Intended(t)
             /\ pc' = [pc EXCEPT ![t] = "server"]
             /\ UNCHANGED <<lock, kind, req, file, path, mark, data, faults>>
    <3>1. Inside(t) /\ UNCHANGED <<server, backups, now, torn, trouble>> /\ pc[t] = "admin"
          /\ data[t] # Nothing
      BY <1>11 DEF WriteAdmin, Inside
    <3>2. ~Unlocked => \A u \in Threads \ {t} : pc[u] \notin {"backup", "admin", "server"}
      BY <3>1, Alone DEF Inside
    <3>3. trouble = {} => data[t] = Intended(t)
      BY <3>1 DEF Intended
    <3> QED
      BY <2>2, <3>1, <3>2, <3>3
  <2> QED
    BY <1>11, <2>1, <2>2 DEF WriteAdmin
<1>12. ASSUME NEW t \in Threads, WriteServer(t) PROVE Stored'
  <2>1. CASE Fails(t) /\ torn' = TRUE /\ UNCHANGED <<server, serverMtime>>
    BY <1>12, <2>1, EndStored DEF WriteServer, Fails
  <2>2. CASE /\ server' = Strip(data[t]) /\ pc' = [pc EXCEPT ![t] = "finish"]
             /\ UNCHANGED <<lock, kind, req, file, path, mark, data, faults>>
    BY <1>12, <2>2 DEF WriteServer
  <2> QED
    BY <1>12, <2>1, <2>2 DEF WriteServer
<1>13. ASSUME NEW t \in Threads, Finish(t) PROVE Stored'
  <2>1. backups' = Trimmed /\ UNCHANGED <<files, now, ghosts>> /\ End(t) /\ pc[t] = "finish"
    BY <1>13 DEF Finish
  <2>2. \A s \in Seconds : s > now' => backups'[s] = Nothing
    BY <2>1, NewestStays
  <2>3. ASSUME NEW u \in Threads, pc'[u] = "admin", admin # Nothing, ~Unlocked
        PROVE  \E s \in Seconds : Newest(s)'
    BY <2>1, <2>3, NewestStays DEF End
  <2> QED
    BY <2>1, <2>2, <2>3 DEF End
<1>14. CASE Cleanup
  <2>1. backups' = Trimmed /\ UNCHANGED <<files, now, thread, ghosts>>
    BY <1>14 DEF Cleanup
  <2>2. \A s \in Seconds : s > now' => backups'[s] = Nothing
    BY <2>1, NewestStays
  <2>3. ASSUME NEW u \in Threads, pc'[u] = "admin", admin # Nothing, ~Unlocked
        PROVE  \E s \in Seconds : Newest(s)'
    BY <2>1, <2>3, NewestStays
  <2> QED
    BY <2>1, <2>2, <2>3
<1>15. CASE Tick
  <2>1. \A s \in Seconds : s > now' => s > now
    BY <1>15, Assumed DEF Tick, Seconds
  <2> QED
    BY <1>15, <2>1 DEF Tick
<1>16. CASE Crash
  BY <1>16, Assumed DEF Crash
<1>17. CASE UNCHANGED vars
  BY <1>17, Assumed DEF vars
<1> HIDE DEF Typed, TypeOK, Placed, Stored, Brought, NoLostUpdate, EveryEditStays, ServerFollows, Newest, Unlocked, files, caches, thread, ghosts, Goto, Loading, Saving, Saves, Kinds, Edit, Troubled, Current, CurrentPath, FileAt
<1> QED
  BY <1>1, <1>2, <1>3, <1>4, <1>5, <1>6, <1>7, <1>8, <1>9, <1>10, <1>11, <1>12, <1>13, <1>14,
     <1>15, <1>16, <1>17, <1>18, <1>19, ZenonT(30) DEF Next

-----------------------------------------------------------------------------
IInv == Typed /\ Held /\ Fresh /\ Cached /\ Loads /\ Stored

LEMMA Inductive == Init /\ [][Next]_vars => []IInv
<1>1. Init => IInv
  BY InitTyped, InitHeld, InitFresh, InitCached, InitLoads, InitStored DEF IInv
<1>2. IInv /\ [Next]_vars => IInv'
  BY StepTyped, StepHeld, StepFresh, StepCached, StepLoads, StepStored DEF IInv
<1> QED
  BY <1>1, <1>2, PTL

\* Files, caches, the lock and every request keep their types (config_manager.py).
THEOREM StoreTypes == Spec => []TypeOK
BY Inductive, PTL DEF Spec, IInv, Typed

\* The configuration is what the requests since its last replacement made of it:
\* load_config and save_config of two processes lose no edit under CONFIG_LOCK,
\* whichever reads and writes fail and wherever the container ends, unless an edit was
\* made to what load_config falls back to, a PUT /api/ml/config ran beside another
\* request, or two threads of a process filled its cache at once.
THEOREM NoUpdateIsLost == Spec => []NoLostUpdate
BY Inductive, PTL DEF Spec, IInv, Stored

\* A cache whose path and mtime are the current file's holds the current configuration
\* (load_config), although it is filled in separate assignments without the lock, by
\* reads, edits and unlocked saves alike, unless two fills of it raced.
THEOREM CachesAreCoherent == Spec => []CacheCoherent
<1>1. IInv => CacheCoherent
  BY DEF IInv, Cached, Raced, CacheCoherent
<1> QED
  BY <1>1, Inductive, PTL DEF Spec

\* The PLC4X server's file is the admin file stripped whenever no save is between its
\* two writes (save_config), unless the last one was cut off there or one had no lock;
\* racing fills and edits of a fallback do not part the two.
THEOREM ServerFileFollows == Spec => []ServerFollows
BY Inductive, PTL DEF Spec, IInv, Stored

\* Whatever is overwritten is in a backup file at that moment, also when the
\* cleanup, which takes no lock, has run since the backup was made, and also when what
\* overwrites it was made from an old configuration; unless a save had no lock.
THEOREM BackupComesFirst == Spec => BackedUpFirst
<1> DEFINE BackedUp == admin # Nothing /\ mtime' # mtime /\ "unlocked" \notin trouble
                          => \E s \in Seconds : backups[s] = admin
<1>1. ASSUME NEW t \in Threads, WriteAdmin(t), IInv PROVE BackedUp
  BY <1>1 DEF WriteAdmin, IInv, Stored, Brought, Newest, Unlocked
<1>2. ASSUME NEW t \in Threads, IInv,
             \/ Acquire(t) \/ GiveUp(t) \/ Stat(t) \/ Hit(t) \/ Miss(t) \/ Unreadable(t)
             \/ FillData(t) \/ FillStamp(t) \/ Copy(t) \/ Pick(t) \/ Backup(t)
             \/ WriteServer(t) \/ Finish(t)
      PROVE  UNCHANGED mtime
  BY <1>2 DEF Acquire, GiveUp, Stat, Hit, Miss, Unreadable, FillData, FillStamp, Copy, Pick,
              Backup, WriteServer, Finish, files
<1>3. ASSUME NEW t \in Threads, NEW k, NEW r, NEW f, Begin(t, k, r, f) PROVE UNCHANGED mtime
  BY <1>3 DEF Begin, files
<1>4. Cleanup \/ Tick \/ Crash => UNCHANGED mtime
  BY DEF Cleanup, Tick, Crash, files
<1>5. IInv /\ [Next]_vars => [BackedUp]_vars
  BY <1>1, <1>2, <1>3, <1>4 DEF Next
<1> QED
  BY <1>5, Inductive, PTL DEF Spec, BackedUpFirst
=============================================================================
