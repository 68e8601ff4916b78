---------------------------- MODULE ConfigStore ----------------------------
(***************************************************************************)
(* The two configuration files and their backups (admin/config_manager.py, *)
(* and the routes that change them in config_routes.py, device_routes.py,  *)
(* server_routes.py and ml_routes.py).  Requests run on threads of two     *)
(* uvicorn processes.  They share the files and CONFIG_LOCK, a file lock;  *)
(* each process has a cache of the file it read last, validated by the     *)
(* file's path and mtime.  Until the first save there may be no admin file *)
(* (init_config makes config.yml only); load_config then reads config.yml, *)
(* and so it does when the admin file cannot be read.                      *)
(*                                                                         *)
(* A configuration is the set of edits in it, and which of them still have *)
(* their admin-only fields (extras).  A request is named by what it adds.  *)
(* The mtime of a file is the request that wrote it: two writes never have *)
(* the same mtime.  Backup files are named by the second they were made in.*)
(* POST /api/demo/seed, which rewrites both files in place without lock,   *)
(* backup or invalidation, is left out.                                    *)
(***************************************************************************)
EXTENDS Naturals, FiniteSets

CONSTANTS Threads, Processes,
          ProcessOf,     \* ProcessOf[t]: the process of thread t
          Serves,        \* Serves[t]: the kinds of request that thread t runs
          Requests,      \* requests that change the configuration
          Installed,     \* names the configuration there was before them
          Nobody,        \* the lock is free
          Nothing,       \* no data, no file
          MaxBackups,    \* BACKUP_MAX_FILES
          MaxSeconds,    \* bound: seconds the clock ticks
          MaxFaults      \* bound: file reads and writes that fail, and crashes

Kinds == {"edit",      \* change devices, tags, limits, server settings: read-modify-write
          "ml",        \* PUT /api/ml/config: read-modify-write without the lock
          "put",       \* PUT /api/config: the whole configuration
          "upload", "restore", "snapshot",    \* backups: upload, restore, create
          "read"}      \* any GET

Reads == {"edit", "ml", "upload", "snapshot", "read"}    \* kinds that call load_config
Locks == Kinds \ {"ml", "read"}
Saves == Kinds \ {"snapshot", "read"}
Edit == {"edit", "ml"}    \* kinds that save what they have loaded, changed
Paths == {"admin", "server"}    \* ADMIN_CONFIG_PATH, CONFIG_PATH

ASSUME StoreAssumption ==
    /\ ProcessOf \in [Threads -> Processes]
    /\ Serves \in [Threads -> SUBSET Kinds]
    /\ Installed \notin Requests /\ Nobody \notin Threads
    /\ MaxBackups \in Nat \ {0}
    /\ {MaxSeconds, MaxFaults} \subseteq Nat

Edits == Requests \cup {Installed}
Content == [edits : SUBSET Edits, extras : SUBSET Edits]
Seconds == 0..MaxSeconds

ASSUME NothingAssumption ==
    Nothing \notin Edits /\ Nothing \notin Content /\ Nothing \notin Kinds

VARIABLES
    admin,      \* config.yml.admin, or Nothing
    mtime,      \* its mtime
    server,     \* config.yml
    serverMtime,
    backups,    \* backups[s]: config_<s>.yml, or Nothing
    now,        \* the second the clock shows
    lock,       \* the thread that holds CONFIG_LOCK, or Nobody
    cacheData,  \* _config_cache of each process
    cachePath,  \* _config_cache_path of each process
    cacheMtime, \* _config_cache_mtime of each process
    pc,         \* pc[t]: the next step of thread t
    kind,       \* kind[t], req[t]: the request it runs
    req,
    file,       \* file[t]: the backup a restore was asked for
    path,       \* path[t]: the file load_config is at
    mark,       \* mark[t]: the mtime it has read
    data,       \* data[t]: the configuration it has loaded, or is to save
    used,       \* requests begun so far
    faults,     \* failed reads and writes, and crashes of the container
    (* observation only *)
    expected,   \* the configuration there should be
    torn,       \* a save ended between its two writes
    trouble     \* which of Troubles there has been

files  == <<admin, mtime, server, serverMtime>>
caches == <<cacheData, cachePath, cacheMtime>>
thread == <<pc, kind, req, file, path, mark, data>>
ghosts == <<expected, torn, trouble>>
vars == <<files, backups, now, lock, caches, thread, used, faults, ghosts>>

Places == {"idle", "lock", "stat", "hit", "miss", "fill", "stamp", "copy", "pick",
           "backup", "admin", "server", "finish"}

\* The ways in which this code loses an update or hands out an old configuration.
Troubles == {"fallback",    \* an edit could not read the file it was to change
             "unlocked",    \* PUT /api/ml/config ran beside another request
             "raced"}       \* two threads of a process filled its cache

TypeOK ==
    /\ admin \in Content \cup {Nothing} /\ server \in Content
    /\ mtime \in Edits \cup {Nothing} /\ serverMtime \in Edits
    /\ backups \in [Seconds -> Content \cup {Nothing}] /\ now \in Seconds
    /\ lock \in Threads \cup {Nobody}
    /\ cacheData \in [Processes -> Content \cup {Nothing}]
    /\ cachePath \in [Processes -> Paths \cup {Nothing}]
    /\ cacheMtime \in [Processes -> Edits \cup {Nothing}]
    /\ pc \in [Threads -> Places]
    /\ kind \in [Threads -> Kinds \cup {Nothing}] /\ req \in [Threads -> Edits \cup {Nothing}]
    /\ file \in [Threads -> Seconds \cup {Nothing}]
    /\ path \in [Threads -> Paths] /\ mark \in [Threads -> Edits \cup {Nothing}]
    /\ data \in [Threads -> Content \cup {Nothing}]
    /\ \A t \in Threads : pc[t] \in {"fill", "stamp", "backup", "admin", "server"}
                            => data[t] # Nothing
    /\ used \subseteq Requests
    /\ faults \in 0..MaxFaults
    /\ expected \in Content /\ torn \in BOOLEAN /\ trouble \subseteq Troubles

\* A whole configuration: with its edits it has their admin-only fields.
Whole(edits) == [edits |-> edits, extras |-> edits]

\* get_default_config
Default == Whole({})

\* _strip_admin_fields
Strip(c) == [c EXCEPT !.extras = {}]

\* c with the edit r made to it.
Edited(c, r) == [edits |-> c.edits \cup {r}, extras |-> c.extras \cup {r}]

FileAt(p) == IF p = "admin" THEN admin ELSE server
MtimeAt(p) == IF p = "admin" THEN mtime ELSE serverMtime

\* The file that load_config takes when it can read, and what is in it.
CurrentPath == IF admin = Nothing THEN "server" ELSE "admin"
Current == FileAt(CurrentPath)

\* Before the first save there is no admin file.
Init ==
    /\ \/ admin = Whole({Installed}) /\ mtime = Installed
       \/ admin = Nothing /\ mtime = Nothing
    /\ server = Strip(Whole({Installed})) /\ serverMtime = Installed
    /\ backups = [s \in Seconds |-> Nothing] /\ now = 0
    /\ lock = Nobody
    /\ cacheData = [p \in Processes |-> Nothing]
    /\ cachePath = [p \in Processes |-> Nothing] /\ cacheMtime = [p \in Processes |-> Nothing]
    /\ pc = [t \in Threads |-> "idle"]
    /\ kind = [t \in Threads |-> Nothing] /\ req = [t \in Threads |-> Nothing]
    /\ file = [t \in Threads |-> Nothing] /\ path = [t \in Threads |-> "admin"]
    /\ mark = [t \in Threads |-> Nothing] /\ data = [t \in Threads |-> Nothing]
    /\ used = {} /\ faults = 0
    /\ expected = Current /\ torn = FALSE /\ trouble = {}

-----------------------------------------------------------------------------
Goto(t, place) == pc' = [pc EXCEPT ![t] = place]

\* The request is over, well or with an exception; "with CONFIG_LOCK" lets go.
End(t) ==
    /\ Goto(t, "idle")
    /\ kind' = [kind EXCEPT ![t] = Nothing] /\ req' = [req EXCEPT ![t] = Nothing]
    /\ file' = [file EXCEPT ![t] = Nothing] /\ path' = [path EXCEPT ![t] = "admin"]
    /\ mark' = [mark EXCEPT ![t] = Nothing] /\ data' = [data EXCEPT ![t] = Nothing]
    /\ lock' = IF lock = t THEN Nobody ELSE lock

\* Slips, here and below, are for the mutation check.
Slip_FirstStep(k) == IF k \in Reads THEN "stat" ELSE "lock"

FirstStep(k) == IF k \in Locks THEN "lock" ELSE "stat"

\* Within what CONFIG_LOCK should keep apart.
Inside(t) == pc[t] \notin {"idle", "lock"} /\ kind[t] # "read"

Troubled(what, when) == trouble' = IF when THEN trouble \cup {what} ELSE trouble

\* A request arrives.  A PUT brings its configuration with it, an upload too.
Begin(t, k, r, f) ==
    /\ pc[t] = "idle" /\ k \in Serves[t]
    /\ IF k \in Saves THEN r \in Requests \ used /\ used' = used \cup {r}
       ELSE r = Nothing /\ UNCHANGED used
    /\ IF k = "restore" THEN f \in Seconds /\ backups[f] # Nothing ELSE f = Nothing
    /\ Goto(t, FirstStep(k))
    /\ kind' = [kind EXCEPT ![t] = k] /\ req' = [req EXCEPT ![t] = r]
    /\ file' = [file EXCEPT ![t] = f]
    /\ Troubled("unlocked", k = "ml" /\ \E u \in Threads : Inside(u))
    /\ UNCHANGED <<files, backups, now, lock, caches, path, mark, data, faults,
                   expected, torn>>

\* CONFIG_LOCK.acquire.  A PUT has nothing to read.
Acquire(t) ==
    /\ pc[t] = "lock" /\ lock = Nobody
    /\ lock' = t
    /\ IF kind[t] = "put"
       THEN Goto(t, "backup") /\ data' = [data EXCEPT ![t] = Whole({req[t]})]
       ELSE Goto(t, IF kind[t] = "restore" THEN "copy" ELSE "stat") /\ UNCHANGED data
    /\ Troubled("unlocked", \E u \in Threads : kind[u] = "ml")
    /\ UNCHANGED <<files, backups, now, caches, kind, req, file, path, mark, used, faults, expected, torn>>

\* CONFIG_LOCK is not free within its timeout: the request fails.
GiveUp(t) ==
    /\ pc[t] = "lock" /\ lock # Nobody
    /\ End(t)
    /\ UNCHANGED <<files, backups, now, caches, used, faults, ghosts>>

-----------------------------------------------------------------------------
(* load_config: for the admin file, then for config.yml: compare path and  *)
(* mtime with the cache's, then return the cache, or read the file and     *)
(* fill the cache, one assignment after the other (path and mtime as one:  *)
(* a path without its mtime is no hit).                                    *)

Stat(t) ==
    LET p == ProcessOf[t] IN
    /\ pc[t] = "stat"
    /\ IF FileAt(path[t]) = Nothing
       THEN path' = [path EXCEPT ![t] = "server"] /\ UNCHANGED <<mark, pc>>
       ELSE /\ mark' = [mark EXCEPT ![t] = MtimeAt(path[t])]
            /\ Goto(t, IF /\ cachePath[p] = path[t] /\ cacheMtime[p] = MtimeAt(path[t])
                          /\ cacheData[p] # Nothing
                       THEN "hit" ELSE "miss")
            /\ UNCHANGED path
    /\ UNCHANGED <<files, backups, now, lock, caches, kind, req, file, data, used, faults, ghosts>>

\* What each kind of request does with the configuration c it has loaded.
Loaded(t, c) ==
    \/ /\ kind[t] \in Edit
       /\ data' = [data EXCEPT ![t] = Edited(c, req[t])]
       /\ Goto(t, "backup")
       /\ UNCHANGED <<lock, kind, req, file, path, mark>>
    \/ kind[t] \in {"edit", "read"} /\ End(t)      \* an edit refused (404, 409), a GET answered
    \/ /\ kind[t] \in {"upload", "snapshot"}
       /\ data' = [data EXCEPT ![t] = c]
       /\ Goto(t, "copy")
       /\ UNCHANGED <<lock, kind, req, file, path, mark>>

\* An upload goes on to save what it brought.
Uploaded(t) ==
    /\ Goto(t, "backup")
    /\ data' = [data EXCEPT ![t] = Whole({req[t]})]
    /\ UNCHANGED <<lock, kind, req, file, path, mark>>

\* The cache may have been emptied since Stat: the copy is then of None.  An edit fails
\* on it; an upload and a snapshot make a backup of nothing (left out here).  (Under the
\* lock only PUT /api/ml/config can have emptied it.)
Hit(t) ==
    LET c == cacheData[ProcessOf[t]] IN
    /\ pc[t] = "hit"
    /\ IF c # Nothing THEN Loaded(t, c)
       ELSE IF kind[t] = "upload" THEN Uploaded(t) ELSE End(t)
    /\ UNCHANGED <<files, backups, now, caches, used, faults, ghosts>>

Miss(t) ==
    /\ pc[t] = "miss"
    /\ data' = [data EXCEPT ![t] = FileAt(path[t])]
    /\ Goto(t, "fill")
    /\ UNCHANGED <<files, backups, now, lock, caches, kind, req, file, path, mark, used, faults, ghosts>>

\* The file cannot be looked up, opened or parsed, or is empty: the next one is
\* tried, after config.yml the default configuration is taken.
Unreadable(t) ==
    /\ pc[t] \in {"stat", "miss"} /\ FileAt(path[t]) # Nothing
    /\ faults < MaxFaults /\ faults' = faults + 1
    /\ \/ /\ path[t] = "admin"
          /\ path' = [path EXCEPT ![t] = "server"]
          /\ Goto(t, "stat")
          /\ UNCHANGED <<lock, kind, req, file, mark, data>>
       \/ path[t] = "server" /\ Loaded(t, Default)
    /\ Troubled("fallback", kind[t] \in Edit)
    /\ UNCHANGED <<files, backups, now, caches, used, expected, torn>>

\* In process p load_config will take what is cached for the current file.
Stamped(p) == cachePath[p] = CurrentPath /\ cacheMtime[p] = MtimeAt(CurrentPath)

\* t fills the cache with something else than the current configuration when
\* the stamp says, or another thread is about to say or to read, that it is current.
Races(t) ==
    /\ data[t] # Current
    /\ \/ Stamped(ProcessOf[t])
       \/ \E u \in Threads \ {t} : ProcessOf[u] = ProcessOf[t] /\ pc[u] \in {"hit", "stamp"}

FillData(t) ==
    /\ pc[t] = "fill"
    /\ cacheData' = [cacheData EXCEPT ![ProcessOf[t]] = data[t]]
    /\ Goto(t, "stamp")
    /\ Troubled("raced", Races(t))
    /\ UNCHANGED <<files, backups, now, lock, cachePath, cacheMtime, kind, req, file, path, mark,
                   data, used, faults, expected, torn>>

Slip_FillStamp(t) ==
    /\ pc[t] = "stamp"
    /\ cachePath' = [cachePath EXCEPT ![ProcessOf[t]] = path[t]]
    /\ cacheMtime' = [cacheMtime EXCEPT ![ProcessOf[t]] = MtimeAt(path[t])]
    /\ Loaded(t, data[t])
    /\ UNCHANGED <<files, backups, now, cacheData, used, faults, ghosts>>

FillStamp(t) ==
    /\ pc[t] = "stamp"
    /\ cachePath' = [cachePath EXCEPT ![ProcessOf[t]] = path[t]]
    /\ cacheMtime' = [cacheMtime EXCEPT ![ProcessOf[t]] = mark[t]]
    /\ Loaded(t, data[t])
    /\ UNCHANGED <<files, backups, now, cacheData, used, faults, ghosts>>

-----------------------------------------------------------------------------
(* Backups made by the routes themselves.  Any write of theirs, and of     *)
(* save_config, may fail; the request then ends there.                     *)

Fails(t) == faults < MaxFaults /\ faults' = faults + 1 /\ End(t)

\* A restore first copies the server's file; upload and create write what they
\* have loaded.  All take the name of the present second.
Copy(t) ==
    /\ pc[t] = "copy"
    /\ \/ /\ backups' = [backups EXCEPT ![now] = IF kind[t] = "restore" THEN server ELSE data[t]]
          /\ UNCHANGED faults
          /\ \/ kind[t] = "snapshot" /\ End(t)
             \/ /\ kind[t] = "restore" /\ Goto(t, "pick")
                /\ UNCHANGED <<lock, kind, req, file, path, mark, data>>
             \/ kind[t] = "upload" /\ Uploaded(t)
       \/ Fails(t) /\ UNCHANGED backups
    /\ UNCHANGED <<files, now, caches, used, ghosts>>

Pick(t) ==
    /\ pc[t] = "pick"
    /\ IF backups[file[t]] = Nothing THEN End(t)
       ELSE /\ data' = [data EXCEPT ![t] = backups[file[t]]]
            /\ Goto(t, "backup")
            /\ UNCHANGED <<lock, kind, req, file, path, mark>>
    /\ UNCHANGED <<files, backups, now, caches, used, faults, ghosts>>

-----------------------------------------------------------------------------
(* save_config.                                                            *)

Slip_Backup(t) ==
    /\ pc[t] = "backup"
    /\ backups' = IF backups[now] = Nothing THEN [backups EXCEPT ![now] = admin] ELSE backups
    /\ Goto(t, "admin")
    /\ UNCHANGED <<files, now, lock, caches, kind, req, file, path, mark, data, used, faults, ghosts>>

\* Without an admin file there is nothing to copy.
Backup(t) ==
    /\ pc[t] = "backup"
    /\ \/ /\ backups' = IF admin = Nothing THEN backups ELSE [backups EXCEPT ![now] = admin]
          /\ Goto(t, "admin")
          /\ UNCHANGED <<lock, kind, req, file, path, mark, data, faults>>
       \/ Fails(t) /\ UNCHANGED backups
    /\ UNCHANGED <<files, now, caches, used, ghosts>>

\* What a save should leave: an edit adds to what is there, anything else
\* replaces it.
Intended(t) == IF kind[t] \in Edit THEN Edited(expected, req[t]) ELSE data[t]

Slip_WriteAdmin(t) ==
    /\ pc[t] = "admin"
    /\ admin' = data[t] /\ mtime' = req[t]
    /\ expected' = Intended(t)
    /\ Goto(t, "server")
    /\ lock' = IF lock = t THEN Nobody ELSE lock
    /\ UNCHANGED <<server, serverMtime, backups, now, caches, kind, req, file, path, mark, data,
                   used, faults, torn, trouble>>

WriteAdmin(t) ==
    /\ pc[t] = "admin"
    /\ \/ /\ admin' = data[t] /\ mtime' = req[t]
          /\ expected' = Intended(t)
          /\ Goto(t, "server")
          /\ UNCHANGED <<lock, kind, req, file, path, mark, data, faults>>
       \/ Fails(t) /\ UNCHANGED <<admin, mtime, expected>>
    /\ UNCHANGED <<server, serverMtime, backups, now, caches, used, torn, trouble>>

WriteServer(t) ==
    /\ pc[t] = "server"
    /\ \/ /\ server' = Strip(data[t]) /\ serverMtime' = req[t]
          /\ torn' = FALSE
          /\ Goto(t, "finish")
          /\ UNCHANGED <<lock, kind, req, file, path, mark, data, faults>>
       \/ Fails(t) /\ torn' = TRUE /\ UNCHANGED <<server, serverMtime>>
    /\ UNCHANGED <<admin, mtime, backups, now, caches, used, expected, trouble>>

\* _cleanup_old_backups: the newest MaxBackups files stay.
Trimmed ==
    [s \in Seconds |->
        IF Cardinality({u \in Seconds : u > s /\ backups[u] # Nothing}) < MaxBackups
        THEN backups[s] ELSE Nothing]

\* _invalidate_config_cache in this process, and the cleanup.
Finish(t) ==
    /\ pc[t] = "finish"
    /\ cacheData' = [cacheData EXCEPT ![ProcessOf[t]] = Nothing]
    /\ cachePath' = [cachePath EXCEPT ![ProcessOf[t]] = Nothing]
    /\ cacheMtime' = [cacheMtime EXCEPT ![ProcessOf[t]] = Nothing]
    /\ backups' = Trimmed
    /\ End(t)
    /\ UNCHANGED <<files, now, used, faults, ghosts>>

-----------------------------------------------------------------------------
\* POST /api/backups/cleanup, without the lock.
Cleanup ==
    /\ backups' = Trimmed
    /\ UNCHANGED <<files, now, lock, caches, thread, used, faults, ghosts>>

Tick ==
    /\ now < MaxSeconds
    /\ now' = now + 1
    /\ UNCHANGED <<files, backups, lock, caches, thread, used, faults, ghosts>>

\* Both processes end together and are started again; the lock is let go.
Crash ==
    /\ faults < MaxFaults /\ faults' = faults + 1
    /\ lock' = Nobody
    /\ cacheData' = [p \in Processes |-> Nothing]
    /\ cachePath' = [p \in Processes |-> Nothing] /\ cacheMtime' = [p \in Processes |-> Nothing]
    /\ pc' = [t \in Threads |-> "idle"]
    /\ kind' = [t \in Threads |-> Nothing] /\ req' = [t \in Threads |-> Nothing]
    /\ file' = [t \in Threads |-> Nothing] /\ path' = [t \in Threads |-> "admin"]
    /\ mark' = [t \in Threads |-> Nothing] /\ data' = [t \in Threads |-> Nothing]
    /\ torn' = (torn \/ \E t \in Threads : pc[t] = "server")
    /\ UNCHANGED <<files, backups, now, used, expected, trouble>>

Next ==
    \/ \E t \in Threads, k \in Kinds, r \in Requests \cup {Nothing}, f \in Seconds \cup {Nothing} :
          Begin(t, k, r, f)
    \/ \E t \in Threads :
          \/ Acquire(t) \/ GiveUp(t)
          \/ Stat(t) \/ Hit(t) \/ Miss(t) \/ Unreadable(t) \/ FillData(t) \/ FillStamp(t)
          \/ Copy(t) \/ Pick(t)
          \/ Backup(t) \/ WriteAdmin(t) \/ WriteServer(t) \/ Finish(t)
    \/ Cleanup \/ Tick \/ Crash

Spec == Init /\ [][Next]_vars

-----------------------------------------------------------------------------
\* No update is lost: the configuration has exactly the edits made since its last
\* replacement as a whole, with their admin-only fields, whoever else read or wrote.
EveryEditStays == Current = expected

\* The same but for the three ways in which this code does lose one: an edit of what
\* load_config falls back to, a save without the lock, two threads filling one cache.
NoLostUpdate == trouble = {} => EveryEditStays

\* A cache that load_config would take for valid holds the current configuration,
\* unless two fills of it raced.
CacheCoherent ==
    "raced" \notin trouble =>
        \A p \in Processes : cacheData[p] # Nothing /\ Stamped(p) => cacheData[p] = Current

\* Between the writes of saves the PLC4X server's file is the admin file stripped,
\* unless the last save was cut off between the two, or one had no lock.
ServerFollows ==
    /\ "unlocked" \notin trouble /\ ~torn
    /\ \A t \in Threads : pc[t] # "server"
    => server = Strip(Current)

\* At the moment the admin file is overwritten, a backup file has what it held,
\* unless a save had no lock.
BackedUpFirst ==
    [][admin # Nothing /\ mtime' # mtime /\ "unlocked" \notin trouble
          => \E s \in Seconds : backups[s] = admin]_vars
=============================================================================
