------------------------------ MODULE LiveFeed ------------------------------
(***************************************************************************)
(* Live push to browsers: the poller publishes an alarm over MQTT when it  *)
(* raises it and writes its row at the end of the cycle                    *)
(* (admin/poller.py); the API process has a thread subscribed to the       *)
(* broker, which hands every message to the event loop, where it is        *)
(* broadcast to the registered sockets (admin/main.py, ws_manager.py); a   *)
(* new socket is also sent the rows there are.                             *)
(*                                                                         *)
(* This is the instance that serves HTTP.  The one that serves HTTPS runs  *)
(* ws_live too, but neither the thread nor the reaper: see the README.     *)
(*                                                                         *)
(* A socket is one connection of a browser; one that reconnects brings a   *)
(* new socket.  A crash of the poller or of the API restarts both and      *)
(* closes every socket: what follows is another behaviour, which begins    *)
(* with the rows there are.                                                *)
(*                                                                         *)
(* The event loop runs one coroutine at a time, and no section under the   *)
(* manager's asyncio.Lock contains an await: each is part of one step.     *)
(***************************************************************************)
EXTENDS Naturals, Sequences, FiniteSets

CONSTANTS Sockets,
          Alarms,           \* occurrences of alarms: one message and one row each
          Ping,             \* the message of the reaper
          MaxConnections    \* _MAX_CONNECTIONS

ASSUME FeedAssumption ==
    /\ Ping \notin Alarms
    /\ MaxConnections \in Nat \ {0}

Messages == Alarms \cup {Ping}

VARIABLES
    alarm,      \* alarm[a]: "none", "raised", "saved" (a row not acknowledged) or "over"
    bridge,     \* the MQTT thread: "off" (starting), "on", or "deaf" (no subscription)
    inFlight,   \* published, and on the way to the thread
    busy,       \* busy[m]: "none", "scheduled" (coroutine created) or "sending"
    targets,    \* targets[m]: sockets of the snapshot that m is still being sent to
    failed,     \* failed[m]: those it could not be sent to
    stage,      \* stage[s]: where the handler of s is
    rows,       \* rows[s]: the rows the handler has read
    registered, \* the sockets of room "live"
    (* observation only *)
    seen,       \* seen[s]: alarms sent to s, live or with the rows
    early,      \* early[s]: alarms published before s was registered, their row unwritten
    late,       \* late[s]: alarms whose row was written after s had read the rows
    unheard,    \* alarms whose message never reached the thread
    unsynced,   \* sockets that could not read the rows
    dropped     \* sockets removed because a send to them failed

poller  == <<alarm>>
mqtt    == <<bridge, inFlight>>
fanout  == <<busy, targets, failed>>
handler == <<stage, rows>>
ghosts  == <<seen, early, late, unheard, unsynced, dropped>>
feedVars    == <<poller, mqtt, fanout, handler, registered, ghosts>>

\* The order of the handler's steps; after each there is an await.  Slip_...
\* definitions are for the mutation check.
Slip_Flow == <<"query", "sync", "register", "listen">>

Flow == <<"register", "query", "sync", "listen">>

After(from) == Flow[(CHOOSE i \in DOMAIN Flow : Flow[i] = from) + 1]

Stages == {"register", "query", "sync", "listen", "closed"}

FeedTypeOK ==
    /\ alarm \in [Alarms -> {"none", "raised", "saved", "over"}]
    /\ bridge \in {"off", "on", "deaf"} /\ inFlight \subseteq Alarms
    /\ busy \in [Messages -> {"none", "scheduled", "sending"}]
    /\ targets \in [Messages -> SUBSET Sockets] /\ failed \in [Messages -> SUBSET Sockets]
    /\ \A m \in Messages : busy[m] # "sending" => targets[m] = {} /\ failed[m] = {}
    /\ stage \in [Sockets -> Stages] /\ rows \in [Sockets -> SUBSET Alarms]
    /\ registered \subseteq Sockets
    /\ {seen, early, late} \subseteq [Sockets -> SUBSET Alarms]
    /\ unheard \subseteq Alarms /\ unsynced \subseteq Sockets /\ dropped \subseteq Sockets

FeedInit ==
    /\ alarm \in [Alarms -> {"none", "saved"}]
    /\ bridge = "off" /\ inFlight = {}
    /\ busy = [m \in Messages |-> "none"]
    /\ targets = [m \in Messages |-> {}] /\ failed = [m \in Messages |-> {}]
    /\ stage = [s \in Sockets |-> Flow[1]] /\ rows = [s \in Sockets |-> {}]
    /\ registered = {}
    /\ seen = [s \in Sockets |-> {}] /\ early = [s \in Sockets |-> {}]
    /\ late = [s \in Sockets |-> {}]
    /\ unheard = {} /\ unsynced = {} /\ dropped = {}

-----------------------------------------------------------------------------
(* The poller.  AlarmEngine has its cycle; here only the order of message  *)
(* and row matters.                                                        *)

\* The message may not get through: no broker, or nobody subscribed.
Raise(a) ==
    /\ alarm[a] = "none"
    /\ alarm' = [alarm EXCEPT ![a] = "raised"]
    /\ \/ bridge = "on" /\ inFlight' = inFlight \cup {a} /\ UNCHANGED unheard
       \/ unheard' = unheard \cup {a} /\ UNCHANGED inFlight
    /\ UNCHANGED <<bridge, fanout, handler, registered, seen, early, late, unsynced, dropped>>

HasRead(s) == stage[s] \in {"sync", "listen"}

\* save_alarms: one transaction for every alarm raised.
Save ==
    LET Written == {a \in Alarms : alarm[a] = "raised"} IN
    /\ Written # {}
    /\ alarm' = [a \in Alarms |-> IF a \in Written THEN "saved" ELSE alarm[a]]
    /\ late' = [s \in Sockets |-> IF HasRead(s) THEN late[s] \cup Written ELSE late[s]]
    /\ early' = [s \in Sockets |-> IF HasRead(s) THEN early[s] ELSE early[s] \ Written]
    /\ UNCHANGED <<mqtt, fanout, handler, registered, seen, unheard, unsynced, dropped>>

\* Cleared, or acknowledged.
Over(a) ==
    /\ alarm[a] \in {"raised", "saved"}
    /\ alarm' = [alarm EXCEPT ![a] = "over"]
    /\ early' = [s \in Sockets |-> early[s] \ {a}]
    /\ late' = [s \in Sockets |-> late[s] \ {a}]
    /\ UNCHANGED <<mqtt, fanout, handler, registered, seen, unheard, unsynced, dropped>>

-----------------------------------------------------------------------------
(* The MQTT thread.                                                        *)

\* connect and subscribe, or the thread ends.
Subscribe ==
    /\ bridge = "off"
    /\ bridge' \in {"on", "deaf"}
    /\ UNCHANGED <<poller, inFlight, fanout, handler, registered, ghosts>>

\* The broker restarts.  loop_forever connects again, but nothing subscribes again.
BrokerRestart ==
    /\ bridge = "on"
    /\ bridge' = "deaf" /\ inFlight' = {}
    /\ unheard' = unheard \cup inFlight
    /\ UNCHANGED <<poller, fanout, handler, registered, seen, early, late, unsynced, dropped>>

OnMessage(a) ==
    /\ a \in inFlight
    /\ inFlight' = inFlight \ {a}
    /\ busy' = [busy EXCEPT ![a] = "scheduled"]
    /\ UNCHANGED <<poller, bridge, targets, failed, handler, registered, ghosts>>

-----------------------------------------------------------------------------
(* broadcast, and _reap_dead_connections, which is a broadcast of a ping:  *)
(* a snapshot, one concurrent send per socket, and at the end the removal  *)
(* of the sockets that failed.                                             *)

Snapshot(m) ==
    /\ busy' = [busy EXCEPT ![m] = IF registered = {} THEN "none" ELSE "sending"]
    /\ targets' = [targets EXCEPT ![m] = registered]
    /\ UNCHANGED <<poller, mqtt, failed, handler, registered, ghosts>>

Broadcast(a) == busy[a] = "scheduled" /\ Snapshot(a)

Reap == busy[Ping] = "none" /\ registered # {} /\ Snapshot(Ping)

Sent(m, s) == s \in targets[m] /\ targets' = [targets EXCEPT ![m] = @ \ {s}]

SendOk(m, s) ==
    /\ Sent(m, s)
    /\ stage[s] # "closed"
    /\ seen' = [seen EXCEPT ![s] = @ \cup ({m} \ {Ping})]
    /\ UNCHANGED <<poller, mqtt, busy, failed, handler, registered, early, late, unheard, unsynced,
                   dropped>>

Slip_SendFails(m, s) ==
    /\ Sent(m, s)
    /\ UNCHANGED <<poller, mqtt, busy, failed, handler, registered, ghosts>>

\* The socket is closed, or a slow browser has not taken the message in five seconds.
SendFails(m, s) ==
    /\ Sent(m, s)
    /\ failed' = [failed EXCEPT ![m] = @ \cup {s}]
    /\ UNCHANGED <<poller, mqtt, busy, handler, registered, ghosts>>

\* The sockets that failed leave the room; they are not closed.
Finish(m) ==
    /\ busy[m] = "sending" /\ targets[m] = {}
    /\ busy' = [busy EXCEPT ![m] = "none"]
    /\ failed' = [failed EXCEPT ![m] = {}]
    /\ registered' = registered \ failed[m]
    /\ dropped' = dropped \cup (failed[m] \cap registered)
    /\ UNCHANGED <<poller, mqtt, targets, handler, seen, early, late, unheard, unsynced>>

-----------------------------------------------------------------------------
(* ws_live.                                                                *)

Goto(s, to) == stage' = [stage EXCEPT ![s] = to]

\* The handler returns; nothing is remembered of a closed socket.
End(s) ==
    /\ Goto(s, "closed")
    /\ rows' = [rows EXCEPT ![s] = {}]
    /\ seen' = [seen EXCEPT ![s] = {}]
    /\ early' = [early EXCEPT ![s] = {}] /\ late' = [late EXCEPT ![s] = {}]
    /\ unsynced' = unsynced \ {s} /\ dropped' = dropped \ {s}

\* ws.accept() is done: the limit and the token are checked, and the socket joins the room.
Register(s) ==
    /\ stage[s] = "register"
    /\ \/ /\ Cardinality(registered) < MaxConnections
          /\ registered' = registered \cup {s}
          /\ early' = [early EXCEPT ![s] = {a \in Alarms : alarm[a] = "raised"}]
          /\ Goto(s, After("register"))
          /\ UNCHANGED <<rows, seen, late, unsynced, dropped>>
       \/ End(s) /\ UNCHANGED registered
    /\ UNCHANGED <<poller, mqtt, fanout, unheard>>

Query(s) ==
    /\ stage[s] = "query"
    /\ \/ /\ rows' = [rows EXCEPT ![s] = {a \in Alarms : alarm[a] = "saved"}]
          /\ Goto(s, After("query"))
          /\ UNCHANGED unsynced
       \/ /\ Goto(s, "listen")      \* the SELECT raises; no rows are sent
          /\ unsynced' = unsynced \cup {s}
          /\ UNCHANGED rows
    /\ UNCHANGED <<poller, mqtt, fanout, registered, seen, early, late, unheard, dropped>>

\* If the browser has gone this raises; the handler notices when it listens.
Sync(s) ==
    /\ stage[s] = "sync"
    /\ seen' = [seen EXCEPT ![s] = @ \cup rows[s]]
    /\ rows' = [rows EXCEPT ![s] = {}]
    /\ Goto(s, After("sync"))
    /\ UNCHANGED <<poller, mqtt, fanout, registered, early, late, unheard, unsynced, dropped>>

Slip_Leave(s) ==
    /\ stage[s] = "listen"
    /\ End(s)
    /\ UNCHANGED <<poller, mqtt, fanout, registered, unheard>>

\* The browser has gone: WebSocketDisconnect, and the finally clause.
Leave(s) ==
    /\ stage[s] = "listen"
    /\ End(s)
    /\ registered' = registered \ {s}
    /\ UNCHANGED <<poller, mqtt, fanout, unheard>>

-----------------------------------------------------------------------------
Push(m) ==
    \/ m \in Alarms /\ (OnMessage(m) \/ Broadcast(m))
    \/ Finish(m)

Send(m, s) == SendOk(m, s) \/ SendFails(m, s)

Handler(s) == Register(s) \/ Query(s) \/ Sync(s) \/ Leave(s)

FeedNext ==
    \/ \E a \in Alarms : Raise(a) \/ Over(a)
    \/ Save \/ Subscribe \/ BrokerRestart \/ Reap
    \/ \E m \in Messages : Push(m)
    \/ \E m \in Messages, s \in Sockets : Send(m, s)
    \/ \E s \in Sockets : Handler(s)

\* The thread and the event loop run, and every send ends or times out.
Fairness ==
    /\ \A m \in Messages : WF_feedVars(Push(m))
    /\ \A m \in Messages, s \in Sockets : WF_feedVars(Send(m, s))

FeedSpec == FeedInit /\ [][FeedNext]_feedVars /\ Fairness

-----------------------------------------------------------------------------
Served == {s \in Sockets : stage[s] \in {"query", "sync", "listen"}}

\* A socket is in the room exactly while its handler serves it, unless a failed send
\* took it out: no snapshot taken earlier brings back one that has left.
RegisteredWhileServed == registered = Served \ dropped

\* On its way to s, or just found undeliverable.
Coming(a, s) == a \in inFlight \/ busy[a] = "scheduled" \/ s \in targets[a] \cup failed[a]

\* Register first, read the rows after: a browser that is connected has been sent
\* every alarm that has a row, or is about to be.  It misses only one whose message
\* came too early for it, or never, and whose row was written too late.
NoGap ==
    \A s \in Sockets \ (dropped \cup unsynced), a \in Alarms :
        /\ stage[s] = "listen" /\ alarm[a] = "saved"
        /\ a \notin late[s] \/ a \notin early[s] \cup unheard
        => a \in seen[s] \/ Coming(a, s)

\* A message that is on its way reaches every browser that is connected then, and
\* none of them can hold it up for the others: a socket that cannot be sent to leaves
\* the room instead.
Pushed ==
    \A a \in Alarms, s \in Sockets :
        a \in inFlight /\ s \in registered
        ~> a \in seen[s] \/ s \notin registered \/ a \in unheard

-----------------------------------------------------------------------------
(* The parts of the inductive invariant behind NoGap: see LiveProofs.      *)

\* An alarm has one message, from when it is raised.
OneMessage ==
    \A a \in Alarms :
        /\ a \in inFlight => alarm[a] # "none" /\ busy[a] = "none"
        /\ busy[a] # "none" => alarm[a] # "none"

DroppedAreServed == dropped \subseteq Served

NothingLateYet == \A s \in Sockets : ~HasRead(s) => late[s] = {}

\* What a socket in the room could hear of live, it has or will.
HeardIsPushed ==
    \A s \in Served \ dropped, a \in Alarms :
        /\ alarm[a] = "raised" \/ (alarm[a] = "saved" /\ a \in late[s])
        /\ a \notin early[s] \cup unheard
        => a \in seen[s] \/ Coming(a, s)

\* What was a row when the handler read the rows, it has sent or will.
ReadIsSent ==
    \A s \in Sockets \ unsynced, a \in Alarms :
        HasRead(s) /\ alarm[a] = "saved" /\ a \notin late[s]
        => a \in seen[s] \/ (stage[s] = "sync" /\ a \in rows[s])
=============================================================================
