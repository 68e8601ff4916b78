---------------------------- MODULE OpcuaPoller ----------------------------
(***************************************************************************)
(* The poll loop of the poller process and its one persistent OPC-UA       *)
(* session (poller_loop, poll_once and _ensure_opcua_connection in         *)
(* admin/poller.py).  The loop is one thread: a cycle loads the config,    *)
(* makes sure of the session, reads the devices, publishes the result and  *)
(* sleeps.  Around it the config changes, and the OPC-UA server restarts,  *)
(* hangs, comes back on another port or drops a session.                   *)
(*                                                                         *)
(* A session is open from the connect of the poller's client object until  *)
(* that object is closed; it is live as long as the server knows it.  What *)
(* the values of the tags are is the subject of AlarmEngine; here a result *)
(* is "ok" (error None) or "error".                                        *)
(***************************************************************************)
EXTENDS Integers

CONSTANTS Urls,          \* endpoints: one per configured tcpPort
          Intervals,     \* shortest pollInterval over the enabled devices
          Identities,    \* tell the sessions to one endpoint apart
          NoSession,
          NoUrl,         \* no cycle under way
          NoDevices,     \* the config lists no device
          MaxFails       \* _OPCUA_MAX_FAILS

\* A session: the endpoint it was opened to, and an identity, free again once the
\* session is closed.
Sessions == [at : Urls, id : Identities]

ASSUME PollerAssumption ==
    /\ Intervals \subseteq Int /\ NoDevices \notin Intervals
    /\ NoSession \notin Sessions /\ NoUrl \notin Urls
    /\ MaxFails \in Nat \ {0}

VARIABLES
    config,     \* the config file: [url, interval]
    server,     \* the OPC-UA server: "up", "down", or "slow" (may time out)
    serverUrl,  \* the endpoint it listens on since it started
    live,       \* open sessions the server knows
    pc,         \* where the loop is
    url,        \* opcua_url of this cycle
    interval,   \* shortest pollInterval of this cycle's devices
    client,     \* _opcua_client
    clientUrl,  \* _opcua_url_current
    opening,    \* connected, but not yet _opcua_client
    open,       \* sessions the poller has opened and not closed
    failCount,  \* _opcua_fail_count
    result,     \* this cycle's result: "ok" or "error"
    errors,     \* consecutive_errors
    pause,      \* sleep_time before the next cycle (1 during a cycle)
    cache,      \* what the live cache shows: "none", "empty", "ok" or "error"
    (* observation only *)
    abandoned,  \* sessions whose connect was cut off by its timeout
    misses      \* health checks failed in a row on the present client

cycle   == <<pc, url, interval, result>>
session == <<client, clientUrl, opening, open, abandoned>>
env     == <<config, server, serverUrl>>
vars == <<env, live, cycle, session, failCount, errors, pause, cache, misses>>

\* Only failCount < MaxFails, failCount = 0 and min(errors - 1, 4) are ever
\* asked, so both counters stop counting where nothing changes any more.
FailCap == MaxFails + 1
ErrorCap == 5
Capped(n, cap) == IF n > cap THEN cap ELSE n

TypeOK ==
    /\ config \in [url : Urls, interval : Intervals \cup {NoDevices}]
    /\ server \in {"up", "down", "slow"} /\ serverUrl \in Urls
    /\ live \subseteq open
    /\ pc \in {"start", "idle", "ensure", "connect", "namespace", "read", "publish"}
    /\ url \in Urls \cup {NoUrl} /\ interval \in Intervals \cup {NoDevices}
    /\ result \in {"ok", "error"}
    /\ client \in Sessions \cup {NoSession} /\ clientUrl \in Urls
    /\ opening \in Sessions \cup {NoSession}
    /\ open \subseteq Sessions /\ abandoned \subseteq Sessions
    /\ failCount \in 0..FailCap /\ errors \in 0..ErrorCap
    /\ pause \in Nat /\ 1 <= pause /\ pause <= 3600
    /\ cache \in {"none", "empty", "ok", "error"}
    /\ misses \in 0..FailCap

Init ==
    /\ config \in [url : Urls, interval : Intervals \cup {NoDevices}]
    /\ server = "down" /\ serverUrl = config.url
    /\ live = {}
    /\ pc = "start" /\ url = NoUrl /\ interval = NoDevices /\ result = "ok"
    /\ client = NoSession /\ clientUrl = config.url /\ opening = NoSession
    /\ open = {} /\ abandoned = {}
    /\ failCount = 0 /\ errors = 0 /\ pause = 10 /\ cache = "none"
    /\ misses = 0

-----------------------------------------------------------------------------
(* Sleeping.  (Slip_... definitions, here and below, are plausible slips   *)
(* of the code, for the mutation check.)                                   *)

Smaller(a, b) == IF a < b THEN a ELSE b
Larger(a, b) == IF a > b THEN a ELSE b

Clip(seconds) == Larger(1, Smaller(seconds, 3600))

Backoff(seconds, n) == Smaller(60, seconds * (2 ^ Smaller(n - 1, 4)))

-----------------------------------------------------------------------------
(* The cycle.                                                              *)

\* sleep(10), init_mqtt, init_influxdb, load_alarms
Start ==
    /\ pc = "start"
    /\ pc' = "idle"
    /\ UNCHANGED <<env, live, url, interval, result, session, failCount, errors, pause, cache,
                   misses>>

LoadConfig ==
    /\ pc = "idle"
    /\ IF config.interval = NoDevices
       THEN /\ cache' = "empty" /\ pause' = 5
            /\ UNCHANGED <<pc, url, interval>>
       ELSE /\ pc' = "ensure" /\ url' = config.url /\ interval' = config.interval
            /\ pause' = 1
            /\ UNCHANGED cache
    /\ UNCHANGED <<env, live, result, session, failCount, errors, misses>>

\* What answers at an endpoint, and whether an answer can fail to come.
Serves(u) == server # "down" /\ serverUrl = u
MayFail(kind) == server # "up" /\ (kind = "timeout" \/ server = "down")
Answers(s) == Serves(s.at) /\ s \in live

\* _force_close_client, whether the server hears of it or not.
Close(s) == open' = open \ {s} /\ live' = live \ {s}

\* The except clauses of poll_once, given the count they find.
Counted(kind, n) == IF kind = "timeout" /\ n > 0 THEN n ELSE Capped(n + 1, FailCap)

Failed(kind, n) ==
    /\ failCount' = Counted(kind, n)
    /\ result' = "error"
    /\ pc' = "publish"

NoClient ==
    /\ pc = "ensure" /\ client = NoSession
    /\ pc' = "connect"
    /\ UNCHANGED <<env, live, url, interval, result, session, failCount, errors, pause, cache,
                   misses>>

UrlChanged ==
    /\ pc = "ensure" /\ client # NoSession /\ clientUrl # url
    /\ Close(client)
    /\ client' = NoSession
    /\ misses' = 0
    /\ pc' = "connect"
    /\ UNCHANGED <<env, url, interval, result, clientUrl, opening, abandoned, failCount,
                   errors, pause, cache>>

Slip_Verifying == pc = "ensure" /\ client # NoSession

Verifying == pc = "ensure" /\ client # NoSession /\ clientUrl = url

HealthOk ==
    /\ Verifying /\ Answers(client)
    /\ misses' = 0
    /\ pc' = "read"
    /\ UNCHANGED <<env, live, url, interval, result, session, failCount, errors, pause, cache>>

Slip_HealthFails(kind) ==
    /\ Verifying
    /\ MayFail(kind) \/ ~Answers(client)
    /\ misses' = Capped(misses + 1, FailCap)
    /\ Failed(kind, Capped(failCount + 1, FailCap))
    /\ UNCHANGED <<env, live, url, interval, session, errors, pause, cache>>

\* Below MaxFails the exception goes to poll_once; at MaxFails it reconnects.
HealthFails(kind) ==
    /\ Verifying
    /\ MayFail(kind) \/ ~Answers(client)
    /\ LET n == Capped(failCount + 1, FailCap) IN
       \/ /\ n < MaxFails
          /\ misses' = Capped(misses + 1, FailCap)
          /\ Failed(kind, n)
          /\ UNCHANGED <<live, client, open>>
       \/ /\ n >= MaxFails
          /\ misses' = 0
          /\ failCount' = n
          /\ Close(client)
          /\ client' = NoSession
          /\ pc' = "connect"
          /\ UNCHANGED result
    /\ UNCHANGED <<env, url, interval, clientUrl, opening, abandoned, errors, pause, cache>>

Fresh == {s \in Sessions : s.at = url} \ open

Opened(s) == open' = open \cup {s} /\ live' = live \cup {s}

ConnectOk ==
    /\ pc = "connect" /\ Serves(url)
    /\ \E s \in Fresh : Opened(s) /\ opening' = s
    /\ pc' = "namespace"
    /\ UNCHANGED <<env, url, interval, result, client, clientUrl, abandoned, failCount, errors,
                   pause, cache, misses>>

\* A connect cut off by its timeout may leave a session behind.  The bound: one
\* at a time is left.
ConnectFails(kind) ==
    /\ pc = "connect"
    /\ MayFail(kind) \/ ~Serves(url)
    /\ Failed(kind, failCount)
    /\ \/ UNCHANGED <<live, open, abandoned>>
       \/ /\ kind = "timeout" /\ Serves(url) /\ abandoned = {}
          /\ \E s \in Fresh : Opened(s) /\ abandoned' = {s}
    /\ UNCHANGED <<env, url, interval, client, clientUrl, opening, errors, pause, cache,
                   misses>>

NamespaceOk ==
    /\ pc = "namespace" /\ Answers(opening)
    /\ client' = opening /\ clientUrl' = url /\ opening' = NoSession
    /\ failCount' = 0 /\ misses' = 0
    /\ pc' = "read"
    /\ UNCHANGED <<env, live, url, interval, result, open, abandoned, errors, pause, cache>>

Slip_NamespaceFails(kind) ==
    /\ pc = "namespace"
    /\ MayFail(kind) \/ ~Answers(opening)
    /\ opening' = NoSession
    /\ Failed(kind, failCount)
    /\ UNCHANGED <<env, live, open, url, interval, client, clientUrl, abandoned, errors,
                   pause, cache, misses>>

NamespaceFails(kind) ==
    /\ pc = "namespace"
    /\ MayFail(kind) \/ ~Answers(opening)
    /\ Close(opening)
    /\ opening' = NoSession
    /\ Failed(kind, failCount)
    /\ UNCHANGED <<env, url, interval, client, clientUrl, abandoned, errors, pause, cache,
                   misses>>

\* read_device swallows every failure of a single read, so the gather ends well
\* even on a dead session, with tags marked read_error; only its timeout is an
\* error of the cycle.
ReadOk ==
    /\ pc = "read"
    /\ failCount' = 0
    /\ result' = "ok"
    /\ pc' = "publish"
    /\ UNCHANGED <<env, live, url, interval, session, errors, pause, cache, misses>>

ReadTimeout ==
    /\ pc = "read"
    /\ server # "up" \/ ~Answers(client)
    /\ Failed("timeout", failCount)
    /\ UNCHANGED <<env, live, url, interval, session, errors, pause, cache, misses>>

EndCycle == pc' = "idle" /\ url' = NoUrl /\ interval' = NoDevices /\ result' = "ok"

\* update_cache, process_results and evaluate_alarms.
Publish ==
    /\ pc = "publish"
    /\ cache' = result
    /\ errors' = IF result = "error" THEN Capped(errors + 1, ErrorCap) ELSE 0
    /\ pause' = IF errors' > 0 THEN Backoff(Clip(interval), errors') ELSE Clip(interval)
    /\ EndCycle
    /\ UNCHANGED <<env, live, session, failCount, misses>>

\* process_results or evaluate_alarms raises (its file lock timed out, say).
PublishRaises ==
    /\ pc = "publish"
    /\ cache' = result
    /\ errors' = Capped((IF result = "error" THEN errors + 1 ELSE 0) + 1, ErrorCap)
    /\ pause' = Backoff(5, errors')
    /\ EndCycle
    /\ UNCHANGED <<env, live, session, failCount, misses>>

-----------------------------------------------------------------------------
(* Around it.                                                              *)

SetConfig(c) ==
    /\ config' = c
    /\ UNCHANGED <<server, serverUrl, live, cycle, session, failCount, errors, pause, cache,
                   misses>>

\* The server container restarts and listens where the config now says.
ServerRestart ==
    /\ server' = "up" /\ serverUrl' = config.url /\ live' = {}
    /\ abandoned' = {} /\ open' = open \ abandoned
    /\ UNCHANGED <<config, cycle, client, clientUrl, opening, failCount, errors, pause,
                   cache, misses>>

ServerDown ==
    /\ server' = "down" /\ live' = {}
    /\ abandoned' = {} /\ open' = open \ abandoned
    /\ UNCHANGED <<config, serverUrl, cycle, client, clientUrl, opening, failCount, errors,
                   pause, cache, misses>>

ServerSlows ==
    /\ server = "up" /\ server' = "slow"
    /\ UNCHANGED <<config, serverUrl, live, cycle, session, failCount, errors, pause, cache,
                   misses>>

ServerRecovers ==
    /\ server = "slow" /\ server' = "up"
    /\ UNCHANGED <<config, serverUrl, live, cycle, session, failCount, errors, pause, cache,
                   misses>>

\* The server drops a session, or its session timeout ends an abandoned one.
LoseSession(s) ==
    /\ s \in live
    /\ live' = live \ {s}
    /\ abandoned' = abandoned \ {s}
    /\ open' = IF s \in abandoned THEN open \ {s} ELSE open
    /\ UNCHANGED <<env, cycle, client, clientUrl, opening, failCount, errors, pause, cache,
                   misses>>

\* The process dies; its sockets close, and it is started again.
Crash ==
    /\ pc # "start"
    /\ pc' = "start" /\ url' = NoUrl /\ interval' = NoDevices /\ result' = "ok"
    /\ client' = NoSession /\ clientUrl' = config.url /\ opening' = NoSession
    /\ open' = {} /\ live' = {} /\ abandoned' = {}
    /\ failCount' = 0 /\ errors' = 0 /\ pause' = 10 /\ misses' = 0
    /\ UNCHANGED <<env, cache>>

Loop ==
    \/ Start \/ LoadConfig \/ NoClient \/ UrlChanged \/ HealthOk
    \/ \E kind \in {"timeout", "error"} :
          HealthFails(kind) \/ ConnectFails(kind) \/ NamespaceFails(kind)
    \/ ConnectOk \/ NamespaceOk \/ ReadOk \/ ReadTimeout \/ Publish \/ PublishRaises

Around ==
    \/ \E c \in [url : Urls, interval : Intervals \cup {NoDevices}] : SetConfig(c)
    \/ ServerRestart \/ ServerDown \/ ServerSlows \/ ServerRecovers
    \/ \E s \in Sessions : LoseSession(s)
    \/ Crash

Next == Loop \/ Around

\* The loop is a thread that always goes on; nothing is asked of its surroundings.
Spec == Init /\ [][Next]_vars /\ WF_vars(Loop)

-----------------------------------------------------------------------------
\* "This poller uses exactly 1": whatever connects, reconnects and failures came
\* before, no session is open but the one in use or being set up, and one that a
\* timed-out connect may have left.
OneSession ==
    /\ client = NoSession \/ opening = NoSession
    /\ open \ abandoned \subseteq {client, opening}

\* Values are only read from the endpoint the config named when the cycle began.
ReadsConfiguredServer == pc = "read" => client # NoSession /\ client.at = url

\* However failures of checks, reads and connects mix, a client never survives
\* MaxFails health checks failed in a row.
NeverStuck == client # NoSession => misses < MaxFails

\* Whatever failed, and however often, the next attempt is at most a minute away.
BackoffBounded == errors > 0 => pause <= 60

\* Once the server is up where the config says, and stays so, and no more sessions
\* are dropped and no more crashes happen, the cache shows a good result and goes on showing one.
Healthy ==
    server = "up" /\ serverUrl = config.url /\ config.interval # NoDevices

Disturbance == Crash \/ \E s \in Sessions : LoseSession(s)

Recovers == <>[]Healthy /\ <>[][~Disturbance]_vars => <>[](cache = "ok")
=============================================================================
