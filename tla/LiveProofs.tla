----------------------------- MODULE LiveProofs -----------------------------
(***************************************************************************)
(* Theorems about the poller's sessions (OpcuaPoller) and about the live   *)
(* push to browsers (LiveFeed).                                            *)
(*                                                                         *)
(* The poll loop, for any endpoints, intervals and limit of failed checks, *)
(* and however the server, the config and the process behave: four         *)
(* invariants build on each other: types, where the client and the session *)
(* being opened are at each stage of a cycle, which sessions are open, and *)
(* how failed checks are counted.                                          *)
(*                                                                         *)
(* The push, for any number of sockets, alarms and connections: each step  *)
(* preserves five invariants; NoGap follows from the last two of them,     *)
(* HeardIsPushed and ReadIsSent.                                           *)
(***************************************************************************)
EXTENDS OpcuaPoller, LiveFeed, TLAPS

-----------------------------------------------------------------------------
(* OpcuaPoller.                                                            *)

\* The counters and the pauses.
LEMMA Counters ==
    /\ FailCap \in Nat /\ FailCap = MaxFails + 1 /\ MaxFails \in Nat \ {0}
    /\ \A n \in Nat : /\ Capped(n, FailCap) \in 0 .. FailCap
                      /\ Capped(n, ErrorCap) \in 0 .. ErrorCap
                      /\ n > 0 => Capped(n, ErrorCap) \in 1 .. ErrorCap
    /\ \A n \in 0 .. FailCap, kind \in {"timeout", "error"} :
          Counted(kind, n) \in 0 .. FailCap /\ Counted(kind, n) >= n
BY PollerAssumption DEF PollerAssumption, FailCap, ErrorCap, Capped, Counted

Seconds(n, longest) == n \in Nat /\ 1 <= n /\ n <= longest

LEMMA Clipped == \A i \in Int : Seconds(Clip(i), 3600)
BY DEF Clip, Larger, Smaller, Seconds

LEMMA BackedOff ==
    \A seconds \in Nat \ {0}, n \in 1 .. 5 : Seconds(Backoff(seconds, n), 60)
<1>1. ASSUME NEW seconds \in Nat \ {0}, NEW n \in 1 .. 5 PROVE Seconds(Backoff(seconds, n), 60)
  <2>1. ASSUME NEW k \in Int, k = 0 \/ k = 1 \/ k = 2 \/ k = 3 \/ k = 4
        PROVE  Seconds(Smaller(60, seconds * (2 ^ k)), 60)
    <3>1. CASE k = 0
      <4>1. 2 ^ k = 1
        BY <3>1
      <4>2. Seconds(Smaller(60, seconds * 1), 60)
        BY DEF Smaller, Seconds
      <4> QED
        BY <4>1, <4>2, Zenon
    <3>2. CASE k = 1
      <4>1. 2 ^ k = 2
        BY <3>2
      <4>2. Seconds(Smaller(60, seconds * 2), 60)
        BY DEF Smaller, Seconds
      <4> QED
        BY <4>1, <4>2, Zenon
    <3>3. CASE k = 2
      <4>1. 2 ^ k = 4
        BY <3>3
      <4>2. Seconds(Smaller(60, seconds * 4), 60)
        BY DEF Smaller, Seconds
      <4> QED
        BY <4>1, <4>2, Zenon
    <3>4. CASE k = 3
      <4>1. 2 ^ k = 8
        BY <3>4
      <4>2. Seconds(Smaller(60, seconds * 8), 60)
        BY DEF Smaller, Seconds
      <4> QED
        BY <4>1, <4>2, Zenon
    <3>5. CASE k = 4
      <4>1. 2 ^ k = 16
        BY <3>5
      <4>2. Seconds(Smaller(60, seconds * 16), 60)
        BY DEF Smaller, Seconds
      <4> QED
        BY <4>1, <4>2, Zenon
    <3> QED
      BY <2>1, <3>1, <3>2, <3>3, <3>4, <3>5
  <2> DEFINE k == Smaller(n - 1, 4)
  <2>2. k \in Int /\ (k = 0 \/ k = 1 \/ k = 2 \/ k = 3 \/ k = 4)
    BY DEF Smaller
  <2>3. Backoff(seconds, n) = Smaller(60, seconds * (2 ^ k))
    BY DEF Backoff
  <2> HIDE DEF k
  <2> QED
    BY <2>1, <2>2, <2>3
<1> QED
  BY <1>1

-----------------------------------------------------------------------------
(* Types.                                                                  *)

\* A cycle under way has its endpoint and its interval.
Polling == pc \in {"ensure", "connect", "namespace", "read", "publish"}
InCycle == Polling => url \in Urls /\ interval \in Intervals

Typed == TypeOK /\ InCycle

LEMMA InitTyped == Init => Typed
BY PollerAssumption, Counters
   DEF Init, Typed, TypeOK, InCycle, Polling, PollerAssumption, ErrorCap

\* Closing and opening keep live among open.
LEMMA Sessioned ==
    ASSUME TypeOK
    PROVE  /\ \A s : Close(s) => live' \subseteq open' /\ open' \subseteq Sessions
           /\ \A s \in Sessions : Opened(s) => live' \subseteq open' /\ open' \subseteq Sessions
BY DEF TypeOK, Close, Opened

LEMMA LoopTyped == Typed /\ Loop => Typed'
<1> SUFFICES ASSUME Typed, Loop PROVE Typed'
  OBVIOUS
<1> USE PollerAssumption DEF Typed, TypeOK, InCycle, Polling, env, cycle, session, PollerAssumption
<1>1. CASE Start
  BY <1>1 DEF Start
<1>2. CASE LoadConfig
  BY <1>2 DEF LoadConfig
<1>3. CASE NoClient
  BY <1>3 DEF NoClient
<1>4. CASE UrlChanged
  BY <1>4, Sessioned, Counters DEF UrlChanged
<1>5. CASE HealthOk
  BY <1>5, Counters DEF HealthOk, Verifying
<1>6. ASSUME NEW kind \in {"timeout", "error"}, HealthFails(kind) PROVE Typed'
  <2> DEFINE n == Capped(failCount + 1, FailCap)
  <2>1. n \in 0 .. FailCap /\ Capped(misses + 1, FailCap) \in 0 .. FailCap
    BY Counters
  <2>2. Counted(kind, n) \in 0 .. FailCap
    BY <2>1, Counters
  <2>3. /\ UNCHANGED <<env, url, interval, clientUrl, opening, abandoned, errors, pause, cache>>
        /\ Verifying
        /\ \/ /\ misses' = Capped(misses + 1, FailCap)
              /\ failCount' = Counted(kind, n) /\ result' = "error" /\ pc' = "publish"
              /\ UNCHANGED <<live, client, open>>
           \/ /\ misses' = 0 /\ failCount' = n
              /\ Close(client) /\ client' = NoSession /\ pc' = "connect"
              /\ UNCHANGED result
    BY <1>6 DEF HealthFails, Failed
  <2> HIDE DEF n
  <2> QED
    BY <2>1, <2>2, <2>3, Sessioned, Counters DEF Verifying
<1>7. ASSUME NEW kind \in {"timeout", "error"}, ConnectFails(kind) PROVE Typed'
  <2>1. Counted(kind, failCount) \in 0 .. FailCap
    BY Counters
  <2>2. /\ failCount' = Counted(kind, failCount) /\ result' = "error" /\ pc' = "publish"
        /\ pc = "connect"
        /\ UNCHANGED <<env, url, interval, client, clientUrl, opening, errors, pause, cache,
                       misses>>
        /\ \/ UNCHANGED <<live, open, abandoned>>
           \/ \E s \in Fresh : Opened(s) /\ abandoned' = {s}
    BY <1>7 DEF ConnectFails, Failed
  <2> QED
    BY <2>1, <2>2, Sessioned DEF Fresh
<1>8. CASE ConnectOk
  BY <1>8, Sessioned DEF ConnectOk, Fresh
<1>9. CASE NamespaceOk
  BY <1>9, Counters DEF NamespaceOk
<1>10. ASSUME NEW kind \in {"timeout", "error"}, NamespaceFails(kind) PROVE Typed'
  <2>1. Counted(kind, failCount) \in 0 .. FailCap
    BY Counters
  <2> QED
    BY <1>10, <2>1, Sessioned DEF NamespaceFails, Failed
<1>11. CASE ReadOk
  BY <1>11, Counters DEF ReadOk
<1>12. CASE ReadTimeout
  <2>1. Counted("timeout", failCount) \in 0 .. FailCap
    BY Counters
  <2> QED
    BY <1>12, <2>1 DEF ReadTimeout, Failed
<1>13. CASE Publish \/ PublishRaises
  <2>1. /\ errors' \in 0 .. ErrorCap
        /\ PublishRaises => errors' \in 1 .. ErrorCap
    <3>1. /\ errors + 1 \in Nat /\ errors + 1 > 0 /\ 0 + 1 = 1 /\ 0 \in 0 .. ErrorCap
          /\ (errors + 1) + 1 \in Nat /\ (errors + 1) + 1 > 0
      BY DEF ErrorCap
    <3>2. /\ Capped(errors + 1, ErrorCap) \in 0 .. ErrorCap
          /\ Capped((errors + 1) + 1, ErrorCap) \in 1 .. ErrorCap
          /\ Capped(0 + 1, ErrorCap) \in 1 .. ErrorCap
      BY <3>1, Counters
    <3>3. CASE Publish
      <4>1. errors' = IF result = "error" THEN Capped(errors + 1, ErrorCap) ELSE 0
        BY <3>3 DEF Publish
      <4>2. ~PublishRaises \/ errors' \in 1 .. ErrorCap
        <5>1. PublishRaises => errors' = Capped((IF result = "error" THEN errors + 1 ELSE 0) + 1, ErrorCap)
          BY DEF PublishRaises
        <5> QED
          BY <3>2, <5>1
      <4> QED
        BY <3>1, <3>2, <4>1, <4>2
    <3>4. CASE PublishRaises
      <4>1. errors' = Capped((IF result = "error" THEN errors + 1 ELSE 0) + 1, ErrorCap)
        BY <3>4 DEF PublishRaises
      <4> QED
        BY <3>2, <4>1 DEF ErrorCap
    <3> QED
      BY <1>13, <3>3, <3>4
  <2>2. Seconds(Clip(interval), 3600)
    <3>1. interval \in Int
      BY <1>13 DEF Publish, PublishRaises
    <3> QED
      BY <3>1, Clipped
  <2>3. errors' \in 1 .. 5 => /\ Seconds(Backoff(Clip(interval), errors'), 60)
                             /\ Seconds(Backoff(5, errors'), 60)
    <3>1. Clip(interval) \in Nat \ {0} /\ 5 \in Nat \ {0}
      BY <2>2 DEF Seconds
    <3> QED
      BY <3>1, BackedOff
  <2>4. \/ errors' \in 1 .. 5 /\ pause' = Backoff(Clip(interval), errors')
        \/ pause' = Clip(interval)
        \/ errors' \in 1 .. 5 /\ pause' = Backoff(5, errors')
    BY <1>13, <2>1 DEF Publish, PublishRaises, ErrorCap
  <2>5. pause' \in Nat /\ 1 <= pause' /\ pause' <= 3600
    BY <2>2, <2>3, <2>4 DEF Seconds
  <2> QED
    BY <1>13, <2>1, <2>5 DEF Publish, PublishRaises, EndCycle
<1> QED
  BY <1>1, <1>2, <1>3, <1>4, <1>5, <1>6, <1>7, <1>8, <1>9, <1>10, <1>11, <1>12, <1>13 DEF Loop

LEMMA AroundTyped == Typed /\ Around => Typed'
<1> SUFFICES ASSUME Typed, Around PROVE Typed'
  OBVIOUS
<1> USE PollerAssumption DEF Typed, TypeOK, InCycle, Polling, env, cycle, session, PollerAssumption
<1>1. ASSUME NEW c \in [url : Urls, interval : Intervals \cup {NoDevices}], SetConfig(c)
      PROVE  Typed'
  BY <1>1 DEF SetConfig
<1>2. CASE ServerRestart
  BY <1>2 DEF ServerRestart
<1>3. CASE ServerDown
  BY <1>3 DEF ServerDown
<1>6. CASE ServerSlows
  BY <1>6 DEF ServerSlows
<1>7. CASE ServerRecovers
  BY <1>7 DEF ServerRecovers
<1>4. ASSUME NEW s \in Sessions, LoseSession(s) PROVE Typed'
  BY <1>4 DEF LoseSession
<1>5. CASE Crash
  BY <1>5, Counters DEF Crash, ErrorCap
<1> QED
  BY <1>1, <1>2, <1>3, <1>4, <1>5, <1>6, <1>7 DEF Around

LEMMA StepTyped == Typed /\ [Next]_vars => Typed'
<1>1. Typed /\ UNCHANGED vars => Typed'
  BY DEF Typed, TypeOK, InCycle, Polling, vars, env, cycle, session
<1> QED
  BY <1>1, LoopTyped, AroundTyped DEF Next

-----------------------------------------------------------------------------
(* Stages of a cycle, open sessions and failed checks.                     *)

\* Where the client and the session being opened are.
Staged ==
    /\ pc = "connect" => client = NoSession
    /\ pc = "namespace" => client = NoSession /\ opening \in Sessions /\ opening.at = url
    /\ pc # "namespace" => opening = NoSession
    /\ pc = "read" => client # NoSession /\ clientUrl = url /\ misses = 0
    /\ client # NoSession => client.at = clientUrl

\* Every open session is the client's, the one being opened, or abandoned.
Held == open \ abandoned \subseteq {client, opening}

\* A failed check is a counted failure, and MaxFails of them end the client.
Counting == client # NoSession => misses <= failCount /\ misses < MaxFails

Guarded == Staged /\ Held /\ Counting

LEMMA InitGuarded == Init => Guarded
BY PollerAssumption DEF Init, Guarded, Staged, Held, Counting, PollerAssumption

LEMMA LoopGuarded == Typed /\ Guarded /\ Loop => Guarded'
<1> SUFFICES ASSUME Typed, Guarded, Loop PROVE Guarded'
  OBVIOUS
<1> USE DEF Guarded, env, cycle, session
<1>0. /\ failCount \in 0 .. FailCap /\ misses \in 0 .. FailCap
      /\ FailCap = MaxFails + 1 /\ MaxFails \in Nat \ {0} /\ NoSession \notin Sessions
      /\ client \in Sessions \cup {NoSession}
  BY PollerAssumption, Counters DEF Typed, TypeOK, PollerAssumption
<1>1. CASE Start \/ LoadConfig \/ NoClient
  BY <1>1 DEF Start, LoadConfig, NoClient, Staged, Held, Counting
<1>2. CASE UrlChanged
  BY <1>0, <1>2 DEF UrlChanged, Close, Staged, Held, Counting
<1>3. CASE HealthOk
  BY <1>0, <1>3 DEF HealthOk, Verifying, Staged, Held, Counting
<1>4. ASSUME NEW kind \in {"timeout", "error"}, HealthFails(kind) PROVE Guarded'
  <2> DEFINE n == Capped(failCount + 1, FailCap)
  <2>1. /\ UNCHANGED <<env, url, interval, clientUrl, opening, abandoned, errors, pause, cache>>
        /\ Verifying
        /\ \/ /\ n < MaxFails
              /\ misses' = Capped(misses + 1, FailCap)
              /\ failCount' = Counted(kind, n) /\ pc' = "publish"
              /\ UNCHANGED <<live, client, open>>
           \/ /\ Close(client) /\ client' = NoSession /\ pc' = "connect"
    BY <1>4 DEF HealthFails, Failed
  <2>2. n < MaxFails => n = failCount + 1
    BY <1>0 DEF Capped
  <2>3. Capped(misses + 1, FailCap) <= misses + 1 /\ Capped(misses + 1, FailCap) \in Int
    BY <1>0 DEF Capped
  <2>4. n \in 0 .. FailCap /\ Counted(kind, n) >= n /\ Counted(kind, n) \in Int
    BY <1>0, Counters
  <2> HIDE DEF n
  <2>5. Staged' /\ Held'
    BY <1>0, <2>1 DEF Verifying, Close, Staged, Held
  <2>6. Counting'
    BY <1>0, <2>1, <2>2, <2>3, <2>4 DEF Verifying, Counting
  <2> QED
    BY <2>5, <2>6
<1>5. ASSUME NEW kind \in {"timeout", "error"}, ConnectFails(kind) PROVE Guarded'
  <2>1. /\ pc' = "publish" /\ pc = "connect"
        /\ UNCHANGED <<url, client, clientUrl, opening, misses>>
        /\ \/ UNCHANGED <<open, abandoned>>
           \/ \E s : open' = open \cup {s} /\ abandoned' = {s} /\ abandoned = {}
    BY <1>5 DEF ConnectFails, Failed, Opened
  <2> QED
    BY <1>0, <2>1 DEF Staged, Held, Counting
<1>6. CASE ConnectOk
  BY <1>0, <1>6 DEF ConnectOk, Fresh, Opened, Staged, Held, Counting
<1>7. CASE NamespaceOk
  BY <1>0, <1>7 DEF NamespaceOk, Staged, Held, Counting
<1>8. ASSUME NEW kind \in {"timeout", "error"}, NamespaceFails(kind) PROVE Guarded'
  BY <1>0, <1>8 DEF NamespaceFails, Failed, Close, Staged, Held, Counting
<1>9. CASE ReadOk
  BY <1>0, <1>9 DEF ReadOk, Staged, Held, Counting
<1>10. CASE ReadTimeout
  <2>1. Counted("timeout", failCount) >= failCount /\ Counted("timeout", failCount) \in Int
    BY <1>0, Counters
  <2> QED
    BY <1>0, <1>10, <2>1 DEF ReadTimeout, Failed, Staged, Held, Counting
<1>11. CASE Publish \/ PublishRaises
  BY <1>0, <1>11 DEF Publish, PublishRaises, EndCycle, Staged, Held, Counting
<1> QED
  BY <1>1, <1>2, <1>3, <1>4, <1>5, <1>6, <1>7, <1>8, <1>9, <1>10, <1>11 DEF Loop

LEMMA StepGuarded == Typed /\ Guarded /\ [Next]_vars => Guarded'
<1> SUFFICES ASSUME Typed, Guarded, [Next]_vars PROVE Guarded'
  OBVIOUS
<1> USE DEF Guarded, Staged, Held, Counting, env, cycle, session
<1>1. ASSUME NEW c, SetConfig(c) PROVE Guarded'
  BY <1>1 DEF SetConfig
<1>2. CASE ServerRestart \/ ServerDown
  BY <1>2 DEF ServerRestart, ServerDown
<1>3. CASE ServerSlows \/ ServerRecovers
  BY <1>3 DEF ServerSlows, ServerRecovers
<1>4. ASSUME NEW s \in Sessions, LoseSession(s) PROVE Guarded'
  BY <1>4 DEF LoseSession
<1>5. CASE Crash
  BY <1>5 DEF Crash
<1>6. CASE UNCHANGED vars
  BY <1>6 DEF vars
<1> QED
  BY <1>1, <1>2, <1>3, <1>4, <1>5, <1>6, LoopGuarded DEF Next, Around

LEMMA StepBackedOff == Typed /\ BackoffBounded /\ [Next]_vars => BackoffBounded'
<1> SUFFICES ASSUME Typed, BackoffBounded, [Next]_vars PROVE BackoffBounded'
  OBVIOUS
<1> USE DEF BackoffBounded, env, cycle, session
<1>1. CASE UNCHANGED <<errors, pause>>
  BY <1>1
<1>2. CASE LoadConfig
  BY <1>2 DEF LoadConfig
<1>3. CASE Publish \/ PublishRaises
  <2>1. errors \in Nat /\ interval \in Int
    BY <1>3, PollerAssumption
       DEF Publish, PublishRaises, Typed, TypeOK, InCycle, Polling, PollerAssumption, ErrorCap
  <2>2. /\ \A n \in Nat : Capped(n, ErrorCap) \in 0 .. ErrorCap
        /\ \A n \in Nat : n > 0 => Capped(n, ErrorCap) \in 1 .. ErrorCap
    BY Counters
  <2>3. errors' \in 0 .. 5 /\ (PublishRaises => errors' \in 1 .. 5)
    BY <1>3, <2>1, <2>2 DEF Publish, PublishRaises, ErrorCap
  <2>4. Clip(interval) \in Nat \ {0} /\ 5 \in Nat \ {0}
    BY <2>1, Clipped DEF Seconds
  <2>5. errors' \in 1 .. 5 => /\ Seconds(Backoff(Clip(interval), errors'), 60)
                             /\ Seconds(Backoff(5, errors'), 60)
    BY <2>4, BackedOff
  <2>6. errors' > 0 => pause' \in {Backoff(Clip(interval), errors'), Backoff(5, errors')}
    BY <1>3 DEF Publish, PublishRaises
  <2> QED
    BY <2>3, <2>5, <2>6 DEF Seconds
<1>4. CASE Crash
  BY <1>4 DEF Crash
<1>5. ASSUME NEW kind, HealthFails(kind) \/ ConnectFails(kind) \/ NamespaceFails(kind)
      PROVE  UNCHANGED <<errors, pause>>
  BY <1>5 DEF HealthFails, ConnectFails, NamespaceFails
<1>6. CASE \/ Start \/ NoClient \/ UrlChanged \/ HealthOk \/ ConnectOk \/ NamespaceOk
           \/ ReadOk \/ ReadTimeout
  BY <1>1, <1>6 DEF Start, NoClient, UrlChanged, HealthOk, ConnectOk, NamespaceOk, ReadOk,
     ReadTimeout
<1>7. CASE Around
  BY <1>1, <1>4, <1>7 DEF Around, SetConfig, ServerRestart, ServerDown, ServerSlows,
     ServerRecovers, LoseSession
<1>8. CASE UNCHANGED vars
  BY <1>1, <1>8 DEF vars
<1> QED
  BY <1>1, <1>2, <1>3, <1>5, <1>6, <1>7, <1>8 DEF Next, Loop

-----------------------------------------------------------------------------
IInv == Typed /\ Guarded /\ BackoffBounded

LEMMA Inductive == Init /\ [][Next]_vars => []IInv
<1>1. Init => IInv
  BY InitTyped, InitGuarded DEF IInv, Init, BackoffBounded
<1>2. IInv /\ [Next]_vars => IInv'
  BY StepTyped, StepGuarded, StepBackedOff DEF IInv
<1> QED
  BY <1>1, <1>2, PTL

\* Every value of every variable is one the loop can hold.
THEOREM TypesCorrect == Spec => []TypeOK
BY Inductive, PTL DEF Spec, IInv, Typed

\* "This poller uses exactly 1": no session is open but the one in use or being
\* set up, and those that connects cut off by their timeout may have left
\* (_force_close_client is called on every path of _ensure_opcua_connection).
THEOREM OneSessionOpen == Spec => []OneSession
<1>1. IInv => OneSession
  BY DEF IInv, Guarded, Staged, Held, OneSession
<1> QED
  BY <1>1, Inductive, PTL DEF Spec

\* Values are only read from the endpoint the config named when the cycle began.
THEOREM ReadsWhatIsConfigured == Spec => []ReadsConfiguredServer
<1>1. IInv => ReadsConfiguredServer
  BY DEF IInv, Guarded, Staged, ReadsConfiguredServer
<1> QED
  BY <1>1, Inductive, PTL DEF Spec

\* _OPCUA_MAX_FAILS: no client survives that many failed health checks in a row,
\* although successes of reads reset the counter that is compared.
THEOREM ClientIsReplaced == Spec => []NeverStuck
<1>1. IInv => NeverStuck
  BY DEF IInv, Guarded, Counting, NeverStuck
<1> QED
  BY <1>1, Inductive, PTL DEF Spec

\* Whatever failed, and however often, the next attempt is a minute away at most.
THEOREM BackoffIsBounded == Spec => []BackoffBounded
BY Inductive, PTL DEF Spec, IInv

-----------------------------------------------------------------------------
(* LiveFeed.                                                               *)

\* The successors of the three stages a handler goes through.
LEMMA FlowOrder ==
    /\ Flow[1] = "register"
    /\ After("register") = "query"
    /\ After("query") = "sync"
    /\ After("sync") = "listen"
<1> DEFINE At(x) == CHOOSE i \in DOMAIN Flow : Flow[i] = x
<1>1. DOMAIN Flow = 1..4
  BY DEF Flow
<1>2. Flow[1] = "register" /\ Flow[2] = "query" /\ Flow[3] = "sync" /\ Flow[4] = "listen"
  BY DEF Flow
<1>3. At("register") = 1 /\ At("query") = 2 /\ At("sync") = 3
  <2>1. \A i \in 1..4 : i = 1 \/ i = 2 \/ i = 3 \/ i = 4
    OBVIOUS
  <2> QED
    BY <1>1, <1>2, <2>1
<1>4. /\ After("register") = Flow[At("register") + 1]
      /\ After("query") = Flow[At("query") + 1]
      /\ After("sync") = Flow[At("sync") + 1]
  BY DEF After
<1> HIDE DEF At
<1> QED
  BY <1>2, <1>3, <1>4

\* An alarm has only one message, or a second one would find the sockets of the
\* first still in the snapshot.
TypeInv == FeedTypeOK /\ OneMessage

LEMMA FeedInitTyped == FeedInit => TypeInv
<1> SUFFICES ASSUME FeedInit PROVE TypeInv
  OBVIOUS
<1>1. Flow[1] \in Stages
  BY FlowOrder DEF Stages
<1> QED
  BY <1>1 DEF FeedInit, TypeInv, FeedTypeOK, OneMessage, Messages

LEMMA FeedStepTyped == TypeInv /\ [FeedNext]_feedVars => TypeInv'
<1> SUFFICES ASSUME TypeInv, [FeedNext]_feedVars PROVE TypeInv'
  OBVIOUS
<1> USE FeedAssumption DEF TypeInv, FeedTypeOK, OneMessage, Messages
<1>1. ASSUME NEW a \in Alarms, Raise(a) PROVE TypeInv'
  BY <1>1 DEF Raise, fanout, handler
<1>2. ASSUME NEW a \in Alarms, Over(a) PROVE TypeInv'
  BY <1>2 DEF Over, mqtt, fanout, handler
<1>3. CASE Save
  BY <1>3 DEF Save, mqtt, fanout, handler
<1>4. CASE Subscribe
  BY <1>4 DEF Subscribe, poller, fanout, handler, ghosts
<1>5. CASE BrokerRestart
  BY <1>5 DEF BrokerRestart, poller, fanout, handler
<1>6. ASSUME NEW m \in Messages, m \in Alarms => busy[m] = "scheduled",
             m = Ping => busy[m] = "none", Snapshot(m)
      PROVE  TypeInv'
  BY <1>6 DEF Snapshot, poller, mqtt, handler, ghosts
<1>7. ASSUME NEW a \in Alarms, OnMessage(a) PROVE TypeInv'
  BY <1>7 DEF OnMessage, poller, handler, ghosts
<1>8. ASSUME NEW m \in Messages, Finish(m) PROVE TypeInv'
  BY <1>8 DEF Finish, poller, mqtt, handler
<1>9. ASSUME NEW m \in Messages, NEW s \in Sockets, SendOk(m, s) PROVE TypeInv'
  BY <1>9 DEF SendOk, Sent, poller, mqtt, handler
<1>10. ASSUME NEW m \in Messages, NEW s \in Sockets, SendFails(m, s) PROVE TypeInv'
  BY <1>10 DEF SendFails, Sent, poller, mqtt, handler, ghosts
<1>11. ASSUME NEW s \in Sockets, Register(s) PROVE TypeInv'
  BY <1>11, FlowOrder DEF Register, End, Goto, Stages, poller, mqtt, fanout
<1>12. ASSUME NEW s \in Sockets, Query(s) PROVE TypeInv'
  BY <1>12, FlowOrder DEF Query, Goto, Stages, poller, mqtt, fanout
<1>13. ASSUME NEW s \in Sockets, Sync(s) PROVE TypeInv'
  BY <1>13, FlowOrder DEF Sync, Goto, Stages, poller, mqtt, fanout
<1>14. ASSUME NEW s \in Sockets, Leave(s) PROVE TypeInv'
  BY <1>14 DEF Leave, End, Goto, Stages, poller, mqtt, fanout
<1>15. CASE UNCHANGED feedVars
  BY <1>15 DEF feedVars, poller, mqtt, fanout, handler, ghosts
<1>16. CASE Reap
  BY <1>6, <1>16 DEF Reap
<1>17. ASSUME NEW m \in Messages, Push(m) PROVE TypeInv'
  BY <1>6, <1>7, <1>8, <1>17 DEF Push, Broadcast
<1> QED
  BY <1>1, <1>2, <1>3, <1>4, <1>5, <1>9, <1>10, <1>11, <1>12, <1>13, <1>14, <1>15, <1>16,
     <1>17 DEF FeedNext, Send, Handler

\* Every variable of the model keeps its type.
THEOREM FeedTypes == FeedSpec => []FeedTypeOK
<1>1. TypeInv => FeedTypeOK
  BY DEF TypeInv
<1> QED
  BY FeedInitTyped, FeedStepTyped, <1>1, PTL DEF FeedSpec

-----------------------------------------------------------------------------
(* The room, and what its sockets have been sent.  Served and HasRead only *)
(* change in the steps of a handler, registered and dropped together.      *)

RoomInv == DroppedAreServed /\ RegisteredWhileServed

SentInv == NothingLateYet /\ HeardIsPushed /\ ReadIsSent

LEMMA InitFeed == FeedInit => RoomInv /\ SentInv
<1> SUFFICES ASSUME FeedInit PROVE RoomInv /\ SentInv
  OBVIOUS
<1>1. \A s \in Sockets : stage[s] = "register"
  BY FlowOrder DEF FeedInit
<1> QED
  BY <1>1 DEF FeedInit, RoomInv, SentInv, DroppedAreServed, RegisteredWhileServed, Served,
              NothingLateYet, HeardIsPushed, ReadIsSent, HasRead

LEMMA StepRoom == TypeInv /\ RoomInv /\ [FeedNext]_feedVars => RoomInv'
<1> SUFFICES ASSUME TypeInv, RoomInv, [FeedNext]_feedVars PROVE RoomInv'
  OBVIOUS
<1> USE DEF TypeInv, FeedTypeOK, RoomInv, DroppedAreServed, RegisteredWhileServed, Served
<1>1. CASE UNCHANGED <<stage, registered, dropped>>
  BY <1>1
<1>2. ASSUME NEW m \in Messages, Finish(m) PROVE RoomInv'
  BY <1>2 DEF Finish, handler
<1>3. ASSUME NEW s \in Sockets, Register(s) PROVE RoomInv'
  BY <1>3, FlowOrder DEF Register, End, Goto
<1>4. ASSUME NEW s \in Sockets, Query(s) PROVE RoomInv'
  BY <1>4, FlowOrder DEF Query, Goto
<1>5. ASSUME NEW s \in Sockets, Sync(s) PROVE RoomInv'
  BY <1>5, FlowOrder DEF Sync, Goto
<1>6. ASSUME NEW s \in Sockets, Leave(s) PROVE RoomInv'
  BY <1>6 DEF Leave, End, Goto
<1>7. ASSUME NEW m \in Messages, Push(m) PROVE RoomInv'
  BY <1>1, <1>2, <1>7 DEF Push, OnMessage, Broadcast, Snapshot, handler, ghosts
<1> QED
  BY <1>1, <1>3, <1>4, <1>5, <1>6, <1>7
     DEF FeedNext, Raise, Over, Save, Subscribe, BrokerRestart, Reap, Snapshot, Send, SendOk,
         SendFails, Handler, handler, ghosts, feedVars

LEMMA StepSent == TypeInv /\ RoomInv /\ SentInv /\ [FeedNext]_feedVars => SentInv'
<1> SUFFICES ASSUME TypeInv, RoomInv, SentInv, [FeedNext]_feedVars PROVE SentInv'
  OBVIOUS
<1> USE FeedAssumption
    DEF TypeInv, FeedTypeOK, OneMessage, Messages, RoomInv, DroppedAreServed,
        RegisteredWhileServed, Served, SentInv, NothingLateYet, HeardIsPushed, ReadIsSent,
        HasRead, Coming
<1>1. ASSUME NEW a \in Alarms, Raise(a) PROVE SentInv'
  BY <1>1 DEF Raise, fanout, handler
<1>2. ASSUME NEW a \in Alarms, Over(a) PROVE SentInv'
  BY <1>2 DEF Over, mqtt, fanout, handler
<1>3. CASE Save
  BY <1>3 DEF Save, mqtt, fanout, handler
<1>4. CASE Subscribe
  BY <1>4 DEF Subscribe, poller, fanout, handler, ghosts
<1>5. CASE BrokerRestart
  BY <1>5 DEF BrokerRestart, poller, fanout, handler
<1>6. ASSUME NEW m \in Messages, m \in Alarms => busy[m] = "scheduled",
             m = Ping => busy[m] = "none", Snapshot(m)
      PROVE  SentInv'
  BY <1>6 DEF Snapshot, poller, mqtt, handler, ghosts
<1>7. ASSUME NEW a \in Alarms, OnMessage(a) PROVE SentInv'
  BY <1>7 DEF OnMessage, poller, handler, ghosts
<1>8. ASSUME NEW m \in Messages, Finish(m) PROVE SentInv'
  BY <1>8 DEF Finish, poller, mqtt, handler
<1>9. ASSUME NEW m \in Messages, NEW s \in Sockets, SendOk(m, s) PROVE SentInv'
  BY <1>9 DEF SendOk, Sent, poller, mqtt, handler
<1>10. ASSUME NEW m \in Messages, NEW s \in Sockets, SendFails(m, s) PROVE SentInv'
  BY <1>10 DEF SendFails, Sent, poller, mqtt, handler, ghosts
<1>11. ASSUME NEW s \in Sockets, Register(s) PROVE SentInv'
  BY <1>11, FlowOrder DEF Register, End, Goto, poller, mqtt, fanout
<1>12. ASSUME NEW s \in Sockets, Query(s) PROVE SentInv'
  BY <1>12, FlowOrder DEF Query, Goto, poller, mqtt, fanout
<1>13. ASSUME NEW s \in Sockets, Sync(s) PROVE SentInv'
  BY <1>13, FlowOrder DEF Sync, Goto, poller, mqtt, fanout
<1>14. ASSUME NEW s \in Sockets, Leave(s) PROVE SentInv'
  BY <1>14 DEF Leave, End, Goto, poller, mqtt, fanout
<1>15. CASE UNCHANGED feedVars
  BY <1>15 DEF feedVars, poller, mqtt, fanout, handler, ghosts
<1>16. CASE Reap
  BY <1>6, <1>16 DEF Reap
<1>17. ASSUME NEW m \in Messages, Push(m) PROVE SentInv'
  BY <1>6, <1>7, <1>8, <1>17 DEF Push, Broadcast
<1> QED
  BY <1>1, <1>2, <1>3, <1>4, <1>5, <1>9, <1>10, <1>11, <1>12, <1>13, <1>14, <1>15, <1>16,
     <1>17 DEF FeedNext, Send, Handler

LEMMA FeedInvariant == FeedSpec => [](TypeInv /\ RoomInv /\ SentInv)
  BY FeedInitTyped, FeedStepTyped, InitFeed, StepRoom, StepSent, PTL DEF FeedSpec

\* A socket is in the room exactly while its handler serves it, unless a failed send
\* took it out.
THEOREM RoomMatchesHandlers == FeedSpec => []RegisteredWhileServed
<1>1. RoomInv => RegisteredWhileServed
  BY DEF RoomInv
<1> QED
  BY FeedInvariant, <1>1, PTL

\* Between the rows read at the start and the messages since, a connected browser misses
\* no alarm but one that came too early for the one and too late for the other.
THEOREM NothingFallsBetween == FeedSpec => []NoGap
<1>1. SentInv /\ RoomInv => NoGap
  BY DEF SentInv, RoomInv, NoGap, HeardIsPushed, ReadIsSent, HasRead, Served
<1> QED
  BY FeedInvariant, <1>1, PTL
=============================================================================
