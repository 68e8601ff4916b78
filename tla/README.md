# PLC4X Manager: specification and verification

TLA+ specifications of PLC4X Manager, the web console around a PLC4X OPC-UA
server: what its concurrent parts do, checked by TLC on small instances, and
theorems about them checked by TLAPS for every instance. Paths below are
relative to `src/`.

Contents: [the system](#the-system), [inventory](#inventory),
[the modules](#the-modules), [runs](#runs-and-what-they-show),
[fairness](#fairness), [theorems](#theorems), [findings](#findings),
[left out](#what-is-left-out), [plan](#plan).

## The system

Four containers share one volume of configuration, one database (SQLite or
TimescaleDB, `admin/database.py`), and an MQTT broker.

| container | processes | what it does |
|---|---|---|
| `admin` | the poller (`admin/poller.py`), uvicorn on 8443 and uvicorn on 8080 (`admin/main.py`) | console API; polling, alarms, writing to InfluxDB and MQTT |
| `plc4x-server` | the Java OPC-UA server, the EtherNet/IP service and its poller (`server/`) | reads PLCs, serves their tags as OPC-UA nodes |
| `ml` | the predictor (`ml/predictor.py`) | anomaly detection, forecasts, failure models |
| infrastructure | mosquitto, InfluxDB, Grafana, database | external |

`admin/entrypoint.sh` starts the three admin processes and ends when any of
them ends (`wait -n`); the container is then started again. So in every module
of this project a crash of one admin process is a crash of all three.

How the parts interact:

    browser --HTTP--> API (8443, 8080) --CONFIG_LOCK--> config.yml.admin, config.yml, backups
       ^                 |   |   |                               |
       | WebSocket       |   |   +--.train-request/.train-result.json--> predictor --> model files
       |                 |   +--acknowledge--> alarms table              +--> failure_models
       |   MQTT          |                       ^
       +---bridge <------+------ poller ---------+--> alarm_history, InfluxDB
                         |         |
                         |         +--OPC-UA session--> PLC4X server --> PLCs
                         +--TCP queue--> EtherNet/IP service --> PLCs <-- EtherNet/IP poller

The database is also written by both uvicorn processes over one connection each
(logbook, failures, audit rows), by the predictor, and by the poller for a
moment at a time. Small files of the data directory (secret, admin password, login
failures, OPC-UA users, HMI screens) are written by both uvicorn processes.

## Inventory

For each part: its state, its operations, what is hard about it, and what makes
it correct. `PROJECT.json` has the same list with sources and status, and under
`hazards` each hard spot at its line.

**Alarm limits and grading** (`admin/poller.py`, `evaluate_alarms`;
`routes/device_routes.py`, `_validate_threshold_values`).
State: per tag up to four limits, a deadband and profiles selected by another
tag's value; whether an alarm is active. Operation: grade a value. Hard: the
deadband is multiplied into the limit, four comparisons happen in a fixed order,
and an active alarm widens them. Correct: no chatter, a critical value is
graded critical, the band between the warnings is quiet.

**Alarm engine** (`admin/poller.py`; `routes/alarm_routes.py`).
State: the memory of the poller (`_alarms["active"]`), the `alarms` table,
`alarm_history`. Operations: load, evaluate (reload flags, grade each tag,
raise, escalate, clear), save; acknowledge one or all; change limits. Hard:
statements of one cycle commit separately, operators update rows from another
process between them, a crash or a failing statement can come anywhere.
Correct: nothing that was shown is forgotten or archived twice,
acknowledgements are neither invented nor lost.

**OPC-UA poll loop** (`admin/poller.py`, `poller_loop`, `poll_once`,
`_ensure_opcua_connection`). State: the one session, its endpoint, a failure
counter, an error counter, the pause. Operations: health check, connect, look up
the namespace, read, publish, back off. Hard: three exception paths share the
counter; read errors are swallowed; the port can change under a live session.
Correct: one session, to the configured server, and recovery without help.

**Configuration store** (`admin/config_manager.py` and the routes that save).
State: the full file (there is none before the first save: `init_config` makes only
`config.yml`), the server's stripped file, backups, a file lock, one
cache per process. Operations: read-modify-write edits, replacement, upload,
restore, snapshot, cleanup, reads. Hard: two processes with caches validated by
mtime, reads and one save (`PUT /api/ml/config`) outside the lock, a file that cannot be
read and is passed over for the next, a save that is three writes. Correct: no update
lost, no stale cache believed, the server's file follows, a backup first.

**Model training over files** (`routes/failure_routes.py`,
`ml/predictive_maintenance.py`, `ml/predictor.py`). State: a request file and
a result file, the model file, the row of `failure_models`. Operations: call,
wait, take; check, consume, train, commit, answer. Hard: both sides write in
place and poll, either container can die, names are missing. Correct: trained
at most once, answered with a fresh and own result, row and model agree.

**Live push** (`admin/main.py`, `ws_manager.py`, `poller.py`). State: a room of
sockets, snapshots being sent to, the MQTT subscription. Operations: register,
read rows, sync, listen, leave; publish, broadcast, reap. Hard: sends suspend on
a snapshot while sockets come and go; initial rows and live messages overlap.
Correct: no alarm falls between them, nobody is held up, nobody comes back.

**Device and tag catalog** (`routes/device_routes.py`, `static/js/app.js`). State:
the devices of the configuration, their tags, calculated tags, limits and two
switches; what a page shows of them. Operations: add, replace, rename, toggle,
delete; tags, limits and calculated tags one by one; the demo devices; all devices at
once (`PUT /api/config`, upload, restore, demo seed). Hard:
everything is found by name, a page sends back a whole device it loaded
earlier, and renames move keys that alarms and live values use. Correct: names
and aliases find one thing, what was answered as stored stays.

**PLC4X server jar and container** (`routes/plc4x_routes.py`,
`routes/server_routes.py`, `server/entrypoint.sh`). State: the jar and its
version with a copy of each, a temporary jar, the container, the loop that
starts java. Operations: update, rollback, restart; start, retry, give up, notice a
new configuration. Hard: many steps that can each fail while the server is
stopped, nothing serialises the requests, and starting a container that runs
does nothing. Correct: the server runs afterwards, java runs the installed jar,
the version names it, an undo brings the last one back.

**EtherNet/IP service and poller** (`server/plctag_*.py`, `routes/plctag_routes.py`).
State: a queue of connections, a cooldown per controller, a connection lock; the
poller's own connections and the mtime of its configuration. Operations:
discovery, health, tags, reads and writes; poll, reload. Hard: PLCs accept few
CIP connections and the poller does not take the lock; the panel gives up after
thirty seconds and its request is carried out all the same; the configuration can
be read half-written. Correct: one connection of either, a cooldown apart, no
older write after a newer one, and the poller ends up with what is configured; a
device that fails does not stop the others.

**PLC writes** (`routes/live_routes.py`). State: the node id a write is at, the
calls the server still has, the store of virtual tags, the write log and its
fallback file. Hard: a call that timed out may still be carried out, the next id
is tried meanwhile, and closing the session can fail after the write. Correct:
the log tells what was written, nothing old comes back.

**Shared database, audit and maintenance** (`admin/database.py`, `admin/audit.py`,
`routes/logbook_routes.py`, `routes/failure_routes.py`). State: tables and
versions, rows, one connection per process, two fallback files. Operations:
migrate, insert, look up, commit, append and trim, prune. Hard: the connection and so the
transaction is shared by all coroutines of a process, a failed statement leaves
it open, both processes migrate at once. Correct: what was answered is kept,
nobody keeps the write lock, a recorded version has its tables.

**Authentication and lockout** (`admin/auth.py`, `routes/auth_routes.py`,
`routes/user_routes.py`). State: a signing secret, the admin password in a file
and in each memory, a file of login failures, the OPC-UA users. Hard:
read-modify-write of two processes under locks of one, a first start of both at
once. Correct: who fails too often is locked out of both processes, both agree
on secret and password, no change of users is lost.

**HMI screens** (`routes/hmi_routes.py`, `static/js/hmi.js`). State: one JSON tree of
plants, areas and equipment, saved whole through a shared temporary file. Hard:
two processes without a lock, browsers that save a stale copy. Correct: the file
is never short of what was answered.

**Others**: the manager's self-update; analytics, formulas and OEE (floating
point); replay and reports; the chat assistant; certificates; the browser
application beyond its device form and HMI page; seed data and deployment.

## The modules

| module | models | state ↔ code | actions ↔ code |
|---|---|---|---|
| `AlarmThresholds` | what a limit record may be, which record applies, what severity, side and deadband give | operators only | `Accepted` is `_validate_threshold_values`, `Resolve` is `resolve_thresholds`, `Severity` and `Condition` the comparisons of `evaluate_alarms` |
| `AlarmBand` | one tag with limits, graded cycle after cycle | `alarm`: severity of the tag's active alarm | `Evaluate`: one iteration of the loop |
| `AlarmBoard` | abstract: what the alarm system promises an operator | `row`, `archive` | rows appear, change, are acknowledged; a row leaves only to the archive |
| `AlarmEngine` | the poller's cycle, the table, the history, operators, crashes | `active` is `_alarms["active"]`, `table` is `alarms`, `history` counts rows of `alarm_history` | one action per statement that commits: `Load`, `Poll`, `ReloadAcks`, one per tag (`Skip`, `WithinLimits`, `Sustain`, `Raise`, `Escalate`), `Clear`, `Save`; `AckLookup`/`AckUpdate`/`AckAll`; `SetLimits`; a failing form of each statement; `Crash` |
| `OpcuaPoller` | the loop and its session, the server, the configured port | `client`, `clientUrl`, `failCount`, `errors` as in the code; `open` and `live` are the sessions each side knows | one action per outcome of each call that is awaited |
| `ConfigStore` | files, lock, caches and backups under every kind of request | `admin`, `mtime`, `server`, `serverMtime`, `backups`, `lock`; `cacheData`, `cachePath`, `cacheMtime`; `trouble`: a history of the ways an update gets lost | one action per access to a file or a cache: `Stat`, `Hit`, `Miss`, `Unreadable`, `FillData`, `FillStamp`, `Copy`, `Pick`, `Backup`, `WriteAdmin`, `WriteServer`, `Finish`; `Acquire` and `GiveUp` for the lock |
| `TrainIpc` | both sides of the file exchange | `request`, `result`, `model`, `active`; `step` and `pc` are the two programs' positions | one action per access to a file, a row or a commit; a crash of either container |
| `ServerContainer` | the server's container: entrypoint, updates, rollbacks, restarts | `files` are the four files in `/app`, `tmp` the shared download, `attempt` and `seen` are `ATTEMPT` and `CONFIG_MTIME`; `trouble` is a history of what went wrong | one action per call of the Docker daemon or access to the temporary file; one per turn of the script's loops |
| `LiveFeed` | poller, MQTT thread, broadcasts, reaper, `ws_live` | `registered` is the room, `targets` and `failed` the locals of a broadcast | one action from await to await |
| `EipService` | the service with its queue and the panel in front of it | `queue`, `lock`, `last` (`_last_connection`), `composite` (`_composite_flag`), `todo`: CIP operations to come; `value`: what each tag of a controller holds | `Ask` and `GiveUp` are the panel, `Accept`, `Deny`, `Connect`, `Exchange`, `Answer` the one thread of the service |
| `EipPoller`, `Eip` | the poller beside it, and both together | `file` is `config.yml`, `known` is `last_config_mtime` | one action per access to the file, per connection opened and closed; `LoadBreaks`, `PollBreaks` and a form of `PollEnd` for exceptions that end the cycle; `SaveConfig`, and `SeedOpens`/`SeedWrites` for a seed that writes in place |
| `DeviceCatalog` | every request that edits devices, and the page | `devices`; `page`: what each page shows; `trouble`: a history of what the properties do not withstand | one action per request, `PutConfig`, `Restore` and `SeedDemo` for those that replace all devices, `Show` for the page's load |
| `PlcWrite` | `POST /api/live/write` over that catalog | `sent`: calls the server has; `plc`, `store`: what tags hold; `row`, `said`: log and answer | one action per awaited call and its outcomes, `Perform` for the server |
| `SharedDb` | migrations, requests, audit, fallback files, maintenance over shared connections | `conn`: transaction, write lock, snapshot and uncommitted rows of each process; `gone` and `dropped`: histories of lines trimmed and lines that could not be written | one action per statement, commit or write of a file |
| `AdminProcess` | the two uvicorn processes and their event loops | `boot`, `loop` | the crash of the container |
| `Accounts` | secret, passwords, login failures, OPC-UA users | `envSecret` is `JWT_SECRET`, `secretFile`, `credFile`, `failFile`, `users` are the files, `memory` what each process holds | one action per access to a file |
| `HmiScreens` | the tree and its save | `file`, `tmp` and `content`: which file has which name, and what is in it | one action per request (it reads the tree), then `OpenTmp`, `WriteTmp`, `Replace` |
| `AdminFiles` | `Accounts` and `HmiScreens` in the same two processes | | a handler keeps its event loop until it answers; a crash meets both |

`AlarmEngine` uses `AlarmThresholds` for grading and implements `AlarmBoard`
under the mapping `Board`. `LiveFeed` takes from the engine's cycle only the
order of message and row. `PlcWrite` extends `DeviceCatalog`, so that devices change
while a write is under way; `Eip` composes the service with the poller through
the controllers' connections; `AdminFiles` composes the small files through the
event loops. `MC*` modules hold values for constants, and
`*Proofs` modules the theorems, some of two components (which is why `AlarmBand`,
`LiveFeed` and `TrainIpc` name their `BandInit`, `FeedNext`, `TrainSpec` after themselves). Definitions called `Slip_...`, or commented as
mutants, are plausible slips in a definition next to them, used to see that the
properties notice them; no specification uses one.

### Assumptions of the models

* *AlarmThresholds.* Values are integers, and a comparison with a deadband of
  `p` percent is multiplied by 100: no rounding.
* *AlarmEngine.* A reading is a number or none (`Offline`). An occurrence is one row from raise to clear; occurrences are
  numbered per tag, which the code does not do but distinguishes by timestamp.
  The JSON fallback file (`alarms.json`) is left out.
* *OpcuaPoller.* A session has an endpoint and an identity. A connect that
  `wait_for` cancels may leave a session behind that only the server ends
  (`abandoned`); asyncua is external. `read_device` swallows read errors, so a
  dead session can still yield "ok" (its tags are then not good). `load_config`
  returns `{}` on error, that is no devices. A failing write of the cache file is
  not modelled. Counters stop where nothing asks for their value any more.
* *ConfigStore.* Every write of a file has its own mtime. TZ is UTC, so
  both ways of naming a backup agree. Writing a backup is one step, whole or not at
  all, and so is the copy an upload makes of a configuration; backups of nothing and
  backups cut short are left out. `FileLock`
  is thread-local, so it also excludes threads of one process; its timeout may come
  whenever another holds it. A file that cannot be looked up, opened or parsed, or is
  empty, is passed over as `load_config` does, down to the default configuration.
  `POST /api/demo/seed`, which overwrites
  both files in place without lock, backup or invalidation, is left out here; the
  devices it brings are in `DeviceCatalog`, its half-written file in `EipPoller`.
* *TrainIpc.* Time is left out: the predictor may sleep, and a call may give up,
  at any time. The predictor's `exists` and `open` of the request are one step:
  nobody else unlinks that file.
* *ServerContainer.* Reading a file out of the container and putting its copy back is
  one step of a backup. `put_archive` extracts in the order of the tar and may stop after
  any file. The end of the admin container (any of its processes ending, and
  uvicorn ends by itself after 50000 requests) cuts off all requests. A save
  of `config.yml` in the second of the one before, which the script's `stat -c %Y`
  cannot tell apart, is left out, and so are the pauses between attempts.
  A failed `stop` leaves the container running. A request is an update, a rollback or a
  restart, and only one of them.
* *EipService, EipPoller.* The service's thread is single, as its code is
  (`HTTPServer`, not its threading form). Time is ticks; the moments before the start are more
  than a cooldown ago. What a controller answers is good, bad or nothing to go on with, at
  will. Every write of `config.yml` has an mtime of its own. A malformed device (no name,
  no connection string, or a plant or name with `#` or `+`, none of which
  `PUT /api/config` refuses) raises where it is met, or not. The values polled and
  their cache file are left out.
* *DeviceCatalog, PlcWrite.* A request is one step. All but the demo seed hold
  `CONFIG_LOCK` from read to save; what that is worth in the files, and the ways of losing
  an edit there, is `ConfigStore`. A body names an alias
  once among its tags and once among its calculated tags. The demo devices have distinct
  names, and none has a calculated tag with the alias of a tag, as in
  `demo-devices.json`. Of the
  four node ids tried the server knows two (the first and the third); an unknown
  one is an exception, after which the session is closed. A connect or a namespace lookup
  that fails is one step, answered without a row. A write of a tag is
  known by its request, not by its value.
* *SharedDb.* Fallback files are locked for a moment only. Every append to one may fail,
  which the code passes over, and every rewrite by a trim may fail or be cut off anywhere; no row is old enough for
  a prune to remove what a property speaks of; a commit does not fail. A
  transaction begins before the first statement that writes, as the driver does
  it; a write fails while another holds the lock for longer than the busy
  timeout, or if the snapshot is not the newest. Rows of requests are inserted, never
  updated.
* *Accounts, HmiScreens.* `JWT_SECRET` is set for both processes or for neither. A
  secret that was made may fail to be saved, before the file is opened or after. A handler that never awaits keeps its event loop; the
  handlers for OPC-UA users run in threads. Two processes that write one file
  from its start can leave a mixture, which is no JSON (`cut`). The processes are
  finitely many. Tokens do not
  expire.
* *LiveFeed.* One coroutine runs at a time and no section under the manager's
  `asyncio.Lock` contains an await. This is the HTTP instance: the HTTPS one
  (`main.py:155`) starts neither the bridge nor the reaper. After a restart of
  the container the initial state has the rows there are.

## Runs and what they show

All runs use TLC with two workers; deadlock is checked except where the system
may come to rest: in `live` once every socket is closed and every alarm over, in
`server` once java runs and every request is over, and in `eip`, `catalog`,
`database` and `files` once the bounded requests are over.

| run | instance | shows |
|---|---|---|
| `band` | one tag, limits from {unset, -100, 0, 100, 200}, deadband 1 % or 10 %, values around every limit and its deadband | `NoChatter`, `CriticalNotMasked` for every record the validation accepts |
| `engine` | two tags, one with a profile selected by the other and one without limits; 2 occurrences per tag, 1 crash, 1 failing statement, 1 operator | `HistoryComplete`, `EarlyAckKept`, and that the engine implements `AlarmBoard` |
| `opcua` | two ports, intervals {0, 7200} (both outside the clip), two session identities, `_OPCUA_MAX_FAILS` = 3 as in the code | `OneSession`, `ReadsConfiguredServer`, `Recovers` |
| `config` | a pool thread and the event loop of one process (GETs, `PUT /api/ml/config`), a pool thread of the other, with or without an admin file at first; 2 requests, 1 backup kept, 2 seconds, 1 failing read, write or crash; up to the first trouble | `NoLostUpdate`, `CacheCoherent`, `ServerFollows`, `BackedUpFirst` |
| `train` | 2 calls for one model in either process, 2 crashes | `AtMostOnce`, `FreshAnswer`, `RowDescribesModel`, `RequestTaken` |
| `live` | 2 sockets, 1 alarm, the reaper, 2 connections at most | `RegisteredWhileServed`, `NoGap`, `Pushed` |
| `server` | two updates to different versions, one rollback, one restart; any one trouble, one crash or clean exit of java, a good or bad `config.yml` and one save of it, `MAX_RETRIES` = 2 (5 in the code) | `NotLeftStopped`, `RunningIsInstalled`, `VersionNamesJar`, `UndoIsReady`, `ComesBack` |
| `eip` | three inputs out of a discovery, a batch of two tags, a write of one of them, a health check and writes of `config.yml`; three controllers, one of them malformed, cooldown of one tick | `OkStands`, `OneConnectionEach`, `CooldownKept`, `PollsConfigured` |
| `catalog` | two names, two aliases of which one is virtual, one page, three edits out of every request, whole configurations with and without a name twice, two writes over four node ids | `NamesUnique`, `AliasesDisjoint`, `EditsKept`, `LogTellsTruth`, `NewestStands` |
| `database` | two processes, two versions of two statements, two requests, a trim to one line, two prunes, four inputs (requests, rounds, another writer, crashes) | `AnswersKept`, `NothingLeftOpen`, `SchemaWhole` |
| `files` | two processes, one address, two attempts allowed, two passwords, two users, two levels of screens, three inputs | `LockedOut`, `OneCredential`, `UsersKept`, `ScreensKept` |
| `config_read_unlocked` | edits in both processes and a GET on the event loop of one; 3 requests, nothing fails | `EveryEditStays` is violated |

Why the bounds are enough to be interesting:

* *band.* The non-unset limits give orders and equalities on both sides of zero; the
  values are each limit, its deadband edges for
  both widths, and one on either side of each. The run has 15 thousand states.
* *engine.* Two occurrences per tag are needed for an escalation and for a row
  whose key has a successor; two tags for a profile and for a cycle that is
  half done; a crash and a fault may both come in one behaviour, anywhere.
* *opcua.* Two identities allow a session to be leaked while another is in use;
  two ports are a change and a change back.
* *config.* Two seconds give two backups under `BACKUP_MAX_FILES` = 1 (50 in
  the code), so that the cleanup deletes; two requests and their interleavings
  in two processes, beside reads of the same process, make every order of load and save. The
  requests are alike (symmetry): no constant but the set names them. The run ends a behaviour at
  the first trouble (the constraint `MCUntroubled`): `NoLostUpdate` says nothing after it, and what
  the other three still promise there is proved for all instances. It has 1.2
  million states and takes a minute and a half; `config_read_unlocked` needs three requests
  (the one lost, the one that overwrites it, and one whose data is old).
* *train.* Two calls in a row, or at once, each a crash of either side away from
  its end; `FreshAnswer` needs a first call to give up and a second to begin.
* *server.* Two updates share the temporary file and the container in every order,
  a rollback and a restart fall anywhere between. Two attempts are one retry and
  giving up; with one save there is a configuration to be refused and one to come
  back with.
* *live.* One alarm, because messages are independent of each other except
  through the room; two sockets, one to fail and one to be held up.
* *eip.* Any two of the requests meet in either order, one abandoned; a third input
  is a save or a third request. Of the three controllers one is used by
  both programs, one is only polled, and one is malformed, with and without the others
  beside it; a seed takes two inputs. 860 thousand states.
* *catalog.* Two edits make a page stale and a third is made from it; two names are
  a rename to a free and to a taken one; two writes are one that may answer late and
  one after it. The two writes are alike (symmetry). 2.6 million states.
* *database.* Two requests share a connection or race from two; two statements per
  version are a crash within one; four inputs leave room for a failure that
  another writer caused and a request that follows it. 1.6 million states.
* *files.* Two failures lock an address and a third attempt is refused; two
  jobs race for the password file; two screens requests overlap, or follow each
  other with a crash between; a secret of the environment, of the file, or made, and one that
  could not be saved. 2 million states. The processes are alike, and so are the jobs
  (symmetry): no constant tells them apart and no property is temporal.

Exceptions. Several properties name what they do not withstand, by a history
variable (`trouble`, `mishap`, `strayed`, `suspect`, `raced`, `failed`, `gone`, `dropped`). For
each entry the code as it is has a counterexample without it. What is claimed is
no more than the property says: within the model and its assumptions above, nothing
else breaks it. The exceptions of `ConfigStore` are three: `fallback` (an edit was
made to what `load_config` falls back to when the admin file cannot be read, and
saved over it; `config_manager.py:98`), `unlocked` (`PUT /api/ml/config` ran beside
another request; `ml_routes.py:411`), and `raced` (two threads of one process filled its
cache; `config_manager.py:89`). `NoLostUpdate` names all three; `CacheCoherent`
withstands the first two, `ServerFollows` and `BackedUpFirst` the first and the last.
`saved amid crash` of `ComesBack` is set when `config.yml` was saved at any time since
the last launch, also while java served, and is never cleared: with more than one
save it would excuse too much, and the run has one.

## Fairness

Safety properties need none. Five properties are about progress:

* `Recovers` (`opcua`) assumes weak fairness of `Loop`: the loop is a thread that
  always goes on, because each of its calls returns or is cut off by its own
  timeout. Nothing is assumed of the server or the network; the property itself
  says "once the server stays up and sessions are no longer dropped".
* `RequestTaken` (`train`) assumes weak fairness of `Predictor`: its loop catches
  every exception and sleeps a bounded time. Calls may stop anywhere.
* `ComesBack` (`server`) assumes weak fairness of `Entrypoint`: the script never
  blocks except in java and in sleeps of at most a minute. Nothing is assumed
  of requests; a server that one of them has stopped is an exception by name, and when
  that happens is `NotLeftStopped`.
* `Pushed` (`live`) assumes weak fairness of `Push(m)` (the MQTT thread and the
  event loop run) and of `Send(m, s)`: `asyncio.wait_for` ends each send after
  five seconds, one way or the other. It does not assume that a send succeeds,
  that a browser reads, or that the reaper runs.
* `PollsConfigured` (`eip`) assumes weak fairness of the poller's steps: its loop
  catches every exception and its reads have timeouts. Nothing is assumed of those
  who write the configuration; they are bounded, so there is a last one.

## Theorems

TLAPS checks these for every value of the constants that satisfies the
assumption named in the module; each is the unbounded form of what a run shows.

| module | theorems | from |
|---|---|---|
| `AlarmProofs`: one tag | `BandTypes`, `DeadbandPreventsChatter`, `CriticalIsNeverMasked`, `QuietInsideBand` | `BandAssumption` (`Unset` is no integer) |
| `AlarmProofs`: the engine | `TypeCorrect`, `NothingForgotten`, `ArchivedOnce`, `AcksAreOperators`, `PublishedIsMemory`, `EarlyAcksKept`, `EngineImplementsBoard` | `EngineAssumption` |
| `ConfigStoreProofs` | `StoreTypes`, `NoUpdateIsLost`, `CachesAreCoherent`, `ServerFileFollows`, `BackupComesFirst` | `StoreAssumption`, `NothingAssumption`: any threads, processes and kinds of request |
| `ServerContainerProofs` | `TypeCorrect`, `NotStopped`, `RunsWhatIsInstalled`, `VersionIsOfTheJar`, `UndoBringsBack` | `ContainerAssumption` |
| `PlcWriteProofs`: the catalog | `NamesAreUnique`, `AliasesAreDisjoint`, `EditsAreKept` | `CatalogAssumption` |
| `PlcWriteProofs`: writes over it | `LogTellsTheTruth`, `NewestWriteStands` | `CatalogAssumption`, `WriteAssumption` |
| `FilesProofs`: training | `IpcTypes`, `TrainedOnce`, `AnswersAreFresh`, `RowsDescribeModels` | `IpcAssumption` |
| `FilesProofs`: the small files | `UsersAreKept`, `OneCredentialStands`, `LockedOutStands`, `ScreensAreKept` | `ProcessAssumption`, `AccountsAssumption`, `ScreensAssumption` |
| `LiveProofs`: the poll loop | `TypesCorrect`, `OneSessionOpen`, `ReadsWhatIsConfigured`, `ClientIsReplaced`, `BackoffIsBounded` | `PollerAssumption` |
| `LiveProofs`: the push | `FeedTypes`, `RoomMatchesHandlers`, `NothingFallsBetween` | `FeedAssumption` |
| `EipProofs` | `ServiceTypes`, `WritesStand`, `CooldownIsKept`, `OneConnection` | `ServiceAssumption` |
| `SharedDbProofs` | `TypesCorrect`, `SchemaIsWhole`, `NoTransactionForgotten`, `AnswersAreKept` | `DbAssumption` |

With these, every invariant and every action property of the passing runs is a
theorem, and so is the refinement of `AlarmBoard`.

The arguments:

* *Band.* The facts are about operators: for a limit at or above zero the
  comparison with a deadband is implied by the one without, so an alarm a value
  raised is kept by that value as long as one limit it has reached is of that kind, and a critical comparison that holds without
  a deadband holds with one. The limits below zero stay in the theorems as the case
  they name. The products of limit and percentage are nonlinear;
  lemmas reduce them to multiplication by a number that is not negative.
* *Engine.* None of the properties is inductive alone. The inductive invariant is
  `TypeInv /\ SafetyInv`. The core is `RowsHandedOver`: a row whose alarm memory
  no longer holds has been handed to the history already, which is what lets
  `Save` delete it, and lets a crash before `Save` bring the alarm back without
  losing it. `ActiveNotArchived` counts the other direction for
  `HistoryOncePerLife`; `FlagsKnown` says which acknowledgements memory does not
  know (those that came in since the reload), and gives `EarlyAckKept`.
  The refinement follows step by step from the same invariant.
* *Configuration.* Nothing is assumed of who serves what beside whom; `trouble`
  records the overlaps that matter. `Held`: past "lock"
  every request but a read has the lock, or is `PUT /api/ml/config`, and then alone, or
  `unlocked` is set. `Fresh`: an mtime that is still to come
  has been seen by no cache and no reader, so that an old mark never validates new
  data or the reverse. `Cached` is what threads know on their way through
  `load_config` until two fills raced: a cache that is stamped with the current file holds it, and a
  thread that would stamp it so has, or is about to put, the current file there.
  `Loads` says that what an edit has loaded is the current configuration, or `raced` or `fallback`
  is set. `Stored` carries that into
  `save_config`: an edit's data is the configuration and the edit, and the backup made
  is the newest, which the cleanup, running at any time, does not delete.
* *Poll loop.* `Staged` and `Held` say where the client and the session being
  opened are at each stage, hence which sessions are open; `Counting` says that
  the checks a client has failed in a row are among the failures the code has
  counted and are fewer than the limit. `BackoffBounded` is inductive by itself once
  the five powers of two are computed.
* *EtherNet/IP.* `Connections` (the lock is held exactly while a connection of the
  service is open), `Ordered` (the queue is in the order of asking, and who is
  served was asked before all of it) give `Written`: what a tag holds was asked
  no earlier than any write that succeeded. `Cooled` relates the end of the last
  connection to `_last_connection`, through exceptions and composites.
* *Database.* `Whole` says how far each process is in which version while the
  other may be ahead, with every table of what is recorded. `RowsKept` says where
  the rows of a request are at each of its stages: in the open transaction of its
  process, or committed, or in a file, or among the lines that were trimmed or could not be
  written; nothing rolls back, so they only move on.
* *Server.* Four chains over the types, each checked by TLC with two troubles in one
  behaviour (4.8 million states) before it was proved. `Rescued`: while the container is
  stopped, some request is on a way that ends with a start, which is `NotLeftStopped`
  at rest. `Alone`: a swap whose start met no other stays alone, so that `StoppedAmid`
  holds (the server is off from the start of a swap to its end, and what
  java has loaded is the jar installed). `TmpKept`, `CopyKept` and `BackupsMade` say what the
  temporary file, the copies read by a rollback and the copies made by an update
  hold at each stage; from them `VersionsFollow` (version files follow jars, and their
  copies too, outside the copying of an update) and `UndoKept` (what a rollback
  would put back is what the last change replaced).
* *Catalog.* `DistinctNames` and `DisjointAliases` are inductive over the types: a
  request checks names and aliases under the lock, and what it does not check
  `trouble` records. `PromisesStand` follows each tag, calculated tag and limit answered as
  stored through every request, by a lemma for each way a list of devices
  changes (one is put, removed, or some are joined): what a request does not take
  back stands, or a page was stale, a form had no limits, a whole configuration did without
  it, or two devices had one name.
* *Writes.* `CallsKept` is the path of a write: a call is out only while its request
  waits for it or once it has timed out. `RowsKept` says what the log row
  may claim at each point of the path, and `LogTellsTruth` is its end. `OrderKept`: the
  writes that were over when another began stay over, so they can reach the
  tag after it only by a call that had timed out, which is the exception
  `NewestStands` names.
* *Small files.* `LoopKept` ties each handler that never awaits to its event loop, so that
  two requests to one file come from two processes. `SecretKept`: at most one process
  makes a secret that the history does not mark, and then nobody else has
  one; who has a secret that is not in force has a mark. `FailuresKept` and `TreeKept`: what a handler holds of a file between
  reading and writing is the file, or the history marks the address or the save.
  `JobsKept`: under `PasswordLock` what a job has loaded is the table. That a save always finds a
  name for its temporary file is `FreshFile`: of one file more than there are processes,
  one is in nobody's hands (cardinality).
* *Training.* `OnceInv` (a request that is there, or has just been read, has
  not been trained), `AnswerInv` (the result a call may still read has been
  written since it began) and `ModelInv` (what is committed is what was dumped)
  are inductive one by one over the types.
* *Live feed.* `NoGap` splits into what could be heard (`HeardIsPushed`) and what
  was a row when the handler read (`ReadIsSent`); both need that the room is
  the served sockets (`RegisteredWhileServed`) and that an alarm has one message.

Model-checked only: `Recovers`, `RequestTaken`, `ComesBack`, `Pushed` and
`PollsConfigured`, because the prover handles no liveness under fairness. Proved and in no run: the type
invariants, `HistoryOncePerLife`, `AckNotInvented`, `TableIsMemory`, `NeverStuck`,
`BackoffBounded` and `InsideBandNoAlarm`.

## Findings

`config_read_unlocked` is a run that TLC ends with a counterexample: a GET can
leave old data under a new mtime in the cache of its process, and the next locked
edit starts from it (`admin/config_manager.py:89`), so that the edit in between
is lost (`EveryEditStays`).

More is visible in the models without a run of its own.

*Alarms.* With a negative limit the deadband points outward (`admin/poller.py:772`),
and an alarm on a constant value is cleared and raised in turn, or a critical value graded
as a warning; `NoChatter` and `CriticalNotMasked` name such limits. An acknowledgement between the reload of
the flags and the save of the same cycle is overwritten (`poller.py:855`).
Removing the last limits of the configuration leaves their alarms active, because of the
early return before the loop that clears orphans (`poller.py:667`).

*Configuration and catalog.* An admin file that cannot be read, or is empty, is silently
passed over for the stripped file or an empty configuration, and the next edit saves that over
everything (`config_manager.py:98`; `fallback` in `NoLostUpdate`). A restore backs up the
server's stripped file, and that backup can be restored as the full
configuration (`Pick` in `ConfigStore`; `admin/routes/server_routes.py:401`). Backups are named by the
second, so that a second save within one replaces the backup of the first. The
device form's PUT drops the limits of a device (`static/js/app.js:1365`).
`add_tag` looks through the tags only (`device_routes.py:219`), and its
`KeyError` is answered as 404 because `LookupError` is caught first
(`device_routes.py:228`); a body may have a tag and a calculated tag of one alias
(`validators.py:47`). A PUT may rename a device to a name that is taken
(`device_routes.py:143`), a whole configuration may have a name twice and replaces what it
does not know of (`config_routes.py:57`), and loading the demo devices after a rename duplicates
what they identify.

*Server.* A restart of the server during an update makes the start at its end do nothing, so
that java goes on with the old jar under the new `version.txt`
(`RunningIsInstalled` names it; `admin/routes/plc4x_routes.py:183`). A truncated
download is installed as if it were complete (`UpdateCutShort`;
`plc4x_routes.py:139`). A fix of the configuration saved between the last failed
start and the `stat` after it is never tried (`ComesBack` names it;
`server/entrypoint.sh:59`), and crashes count up to the limit over the whole
life of the container (`entrypoint.sh:55`).

*EtherNet/IP.* A device that stops answering or is deleted keeps its last entry in
the cache, which `get_cache` merges whatever its age (`server/plctag_poller.py:186`,
`admin/poller.py:1007`). The poller does not know the service's lock, so that a
controller meets two connections (`plctag_poller.py:275`). A device whose name or plant no
topic can hold, when it fails, ends the cycle from within the handler, and those after it are
not polled (`plctag_poller.py:299`).

*Writes.* A write to a virtual tag is answered and logged as done when its store could
not be saved. A node id the server does not know ends the attempts with an
exception; the ids behind it are reached only after timeouts and errors of a
conversion. A write that timed out may be carried out after it was reported as
failed (`live_routes.py:257`), and a failing disconnect skips the log row (L269).

*Database.* A second failure type of a name that exists (409) leaves the write lock
held until that process commits something else (`failure_routes.py:66`). After a
failed statement, a SELECT and a commit elsewhere, all writes of a process fail until its
restart; its audit rows then go to the fallback file, where
docs/INSTALLATION.md:778 has them in a table. An entry or audit row that cannot be appended to
its file either is passed over, and the request answered as done (`audit.py:82`, 257).

*Files.* At the first start both processes may make a secret of their own
(`auth.py:43`), and a secret that cannot be saved is used until the next start
(`auth.py:61`); a new admin password is unknown to the other process until it
restarts (`auth_routes.py:161`); two logins at once can lose a failure
(`auth.py:237`); two saves of the screens at once can put half a file in place
(`hmi_routes.py:54`), and a browser's save replaces the tree by its copy, however
old (`hmi.js:607`).

*Training and push.* Two trainings at once share one result file, and a call can return the
other's metrics (`failure_routes.py:277`). A broker restart leaves the
MQTT thread without a subscription (`BrokerRestart`; `admin/main.py:124`), and an
alarm whose message comes before a browser registers and whose row is
written after it has read the rows reaches it neither way (`early` and `late` in
`NoGap`; `admin/poller.py:823`).

## What is left out

Parts with status `not_modelled` in `PROJECT.json`, with the reason there: analytics, OEE
and formulas are floating point; deployment, rendering and reports
have no state worth a model; the chat assistant calls an external model;
self-update and certificates are commands run one after the other.

Inside the modelled parts: the values of tags beyond
their grade, virtual tags as the poller computes them, InfluxDB and MQTT
publishing of values, chat notifications (broadcast like alarms), `alarms.json`,
the demo seed among the configuration files (it is in `DeviceCatalog` and `EipPoller`), the real-time budget of a poll (ten seconds for all devices),
the browser's fallback to polling, which never starts for a socket that was
dropped but not closed; the connection test and the OPC-UA discovery, which
change nothing, and the formula of a calculated tag; the values of the EtherNet/IP cache;
updates and deletions of rows, the four-hourly copy of the database
(`database.py:251-280`) and the one-time import of files; roles, plants, API keys and
the expiry of tokens, each a check of one request; the upload of HMI images.

## Plan

Done, in this order: alarm grading, engine and board; poll loop; configuration
store; training; live push; the server's container; the proofs of bands,
engine, training and feed; the EtherNet/IP service with the poller beside it; the
catalog with PLC writes over it; the shared database; the small files of the two
processes; the proofs of poll loop, EtherNet/IP, database and configuration store, then
of server container, catalog, writes, logins and screens.

Next, the most important first:

1. An abstract configuration (one atomic register of edits) that `ConfigStore`
   implements, and `DeviceCatalog` over it, so that a request that is one step there
   is shown to be one.
2. What a step may never do, as theorems from the invariants there are: that the history
   of alarms only grows, that an answered row of the database stays.
3. The four-hourly copy of the database beside writers, and rows that are updated.
4. The renames of `DeviceCatalog` composed with the keys of `AlarmEngine`.
