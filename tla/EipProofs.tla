------------------------------ MODULE EipProofs ------------------------------
(***************************************************************************)
(* What the EtherNet/IP service promises beside the poller, for any number *)
(* of requests, controllers and tags and any clock.  Connections: the lock *)
(* is held exactly while the one connection of the service is open.  Order:*)
(* requests are served in the order they were asked, so whoever writes a   *)
(* tag was asked for after everyone who wrote it before.  Cooled: what     *)
(* _last_connection holds is when the last connection ended.               *)
(***************************************************************************)
EXTENDS Eip, FiniteSetTheorems, TLAPS

ServiceStep == \E r \in Requests : Ask(r) \/ GiveUp(r) \/ Serve(r)

\* A step is one of the service, or leaves all of it but the poller's
\* connections as it is.
LEMMA Steps ==
    ASSUME [Next]_vars
    PROVE  \/ ServiceStep /\ UNCHANGED pollerVars
           \/ Tick /\ UNCHANGED pollerVars
           \/ Poller /\ UNCHANGED serviceOnly
           \/ UNCHANGED serviceVars /\ UNCHANGED at
BY DEF Next, ServiceNext, ServiceStep, SaveConfig, SeedOpens, SeedWrites, vars, pollerVars

LEMMA Beside ==
    ASSUME (Poller /\ UNCHANGED serviceOnly) \/ UNCHANGED serviceVars
    PROVE  /\ UNCHANGED <<clock, stage, asked, answer, queue, serving, composite, todo, outcome>>
           /\ UNCHANGED <<lock, last, succeeded, value, ended>>
BY DEF serviceOnly, serviceVars, caller, thread, effects

-----------------------------------------------------------------------------
(* Types, and how many requests have been asked.                           *)

Begun == {s \in Requests : stage[s] # "new"}

CallersTyped ==
    /\ stage \in [Requests -> {"new", "queued", "served", "done"}]
    /\ asked \in [Requests -> Nat]
    /\ answer \in [Requests -> {"none", "ok", "failed", "refused", "timed out"}]
    /\ queue \in Seq(Requests)
    /\ IsFiniteSet(Begun)

ThreadTyped ==
    /\ serving \in Requests \cup {"none"}
    /\ composite \in BOOLEAN
    /\ todo \in Seq(Operations)
    /\ outcome \in {"none", "ok", "failed"}

EffectsTyped ==
    /\ clock \in Nat
    /\ lock \in BOOLEAN
    /\ open \subseteq (Requests \cup {"poller"}) \X Plcs
    /\ last \in [Plcs -> Nat]
    /\ succeeded \in [Requests -> SUBSET Tags]
    /\ value \in [Plcs -> [Tags -> Requests \cup {"none"}]]
    /\ ended \in [Plcs -> [by : Requests \cup {"none"}, at : Nat]]

Typed == CallersTyped /\ ThreadTyped /\ EffectsTyped

LEMMA InitTyped == Init => Typed
<1> SUFFICES ASSUME Init PROVE Typed
  OBVIOUS
<1> USE DEF Init, ServiceInit
<1>1. CallersTyped
  <2>1. Begun = {}
    BY DEF Begun
  <2>2. IsFiniteSet(Begun)
    BY <2>1, FS_EmptySet
  <2>3. queue \in Seq(Requests)
    OBVIOUS
  <2> QED
    BY <2>2, <2>3 DEF CallersTyped
<1>2. ThreadTyped
  <2>1. composite \in BOOLEAN
    OBVIOUS
  <2>2. todo \in Seq(Operations)
    OBVIOUS
  <2> QED
    BY <2>1, <2>2 DEF ThreadTyped
<1>3. EffectsTyped
  <2>1. lock \in BOOLEAN
    OBVIOUS
  <2>2. /\ value \in [Plcs -> [Tags -> Requests \cup {"none"}]]
        /\ ended \in [Plcs -> [by : Requests \cup {"none"}, at : Nat]]
        /\ last \in [Plcs -> Nat]
    OBVIOUS
  <2> QED
    BY <2>1, <2>2, ServiceAssumption DEF EffectsTyped, ServiceAssumption
<1> QED
  BY <1>1, <1>2, <1>3 DEF Typed

LEMMA FollowingTyped ==
    ASSUME NEW r \in Requests, NEW op, NEW how
    PROVE  Following(r, op, how) \in Seq(Operations)
<1>1. <<"programs">> \in Seq(Operations) /\ <<"tags", "programs">> \in Seq(Operations)
  BY DEF Operations
<1>2. [n \in 1 .. Programs |-> "program_tags"] \in Seq(Operations)
  BY ServiceAssumption DEF Operations, ServiceAssumption
<1>3. <<>> \in Seq(Operations)
  OBVIOUS
<1> QED
  BY <1>1, <1>2, <1>3 DEF Following

LEMMA NoneLeft == <<>> \in Seq(Operations)
OBVIOUS

\* A new request is numbered after all that were asked before it.
LEMMA AskCounts ==
    ASSUME Typed, NEW r \in Requests, Ask(r)
    PROVE  /\ Begun' = Begun \cup {r} /\ r \notin Begun
           /\ IsFiniteSet(Begun')
           /\ Cardinality(Begun) \in Nat
           /\ Cardinality(Begun') = Cardinality(Begun) + 1
           /\ asked' = [asked EXCEPT ![r] = 1 + Cardinality(Begun)]
<1> USE DEF Typed, CallersTyped
<1>1. Begun' = Begun \cup {r} /\ r \notin Begun
  BY DEF Ask, Begun
<1>2. /\ IsFiniteSet(Begun \cup {r})
      /\ Cardinality(Begun \cup {r}) = Cardinality(Begun) + 1
  BY <1>1, FS_AddElement
<1>3. Cardinality(Begun) \in Nat
  BY FS_CardinalityType
<1>4. asked' = [asked EXCEPT ![r] = 1 + Cardinality(Begun)]
  BY DEF Ask, Begun
<1> QED
  BY <1>1, <1>2, <1>3, <1>4

\* The end of a request.
LEMMA OverTyped ==
    ASSUME Typed, NEW r \in Requests, stage[r] # "new",
           NEW how \in {"ok", "failed", "refused", "none"}, Over(r, how)
    PROVE  /\ stage' \in [Requests -> {"new", "queued", "served", "done"}]
           /\ answer' \in [Requests -> {"none", "ok", "failed", "refused", "timed out"}]
           /\ Begun' = Begun
           /\ ThreadTyped'
<1> USE DEF Typed, CallersTyped
<1>1. /\ stage' \in [Requests -> {"new", "queued", "served", "done"}]
      /\ answer' \in [Requests -> {"none", "ok", "failed", "refused", "timed out"}]
  BY DEF Over
<1>2. Begun' = Begun
  BY DEF Begun, Over
<1>3. composite' \in BOOLEAN
  BY DEF Over
<1>4. todo' \in Seq(Operations)
  <2>1. todo' = <<>>
    BY DEF Over
  <2> QED
    BY <2>1, NoneLeft
<1> QED
  BY <1>1, <1>2, <1>3, <1>4 DEF Over, ThreadTyped

\* Whose turn it was: served or done.
Past == {s \in Requests : stage[s] \in {"served", "done"}}

\* Requests are served in the order they were asked.
Ordered ==
    /\ \A i \in DOMAIN queue : stage[queue[i]] = "queued"
    /\ \A i, j \in DOMAIN queue : i < j => asked[queue[i]] < asked[queue[j]]
    /\ \A s \in Requests : stage[s] = "served" <=> s = serving
    /\ \A s \in Begun : asked[s] <= Cardinality(Begun)
    /\ \A s \in Past : \A i \in DOMAIN queue : asked[s] < asked[queue[i]]
    /\ serving # "none" => \A s \in Past : asked[s] <= asked[serving]

\* The first of the queue and the rest of it.
LEMMA Turn ==
    ASSUME Typed, Ordered, NEW r \in Requests, Accept(r)
    PROVE  /\ serving = "none" /\ queue # <<>>
           /\ 1 \in DOMAIN queue /\ r = queue[1] /\ stage[r] = "queued"
           /\ queue' \in Seq(Requests)
           /\ \A i \in DOMAIN queue' : /\ i + 1 \in DOMAIN queue /\ queue'[i] = queue[i + 1]
                                      /\ i \in Nat \ {0}
<1>1. queue \in Seq(Requests) /\ queue # <<>> /\ serving = "none"
      /\ r = Head(queue) /\ queue' = Tail(queue)
  BY DEF Accept, Typed, CallersTyped
<1>2. 1 \in DOMAIN queue /\ r = queue[1]
  BY <1>1
<1>3. queue' \in Seq(Requests)
  BY <1>1
<1>4. \A i \in DOMAIN queue' : /\ i + 1 \in DOMAIN queue /\ queue'[i] = queue[i + 1]
                              /\ i \in Nat \ {0}
  BY <1>1
<1> QED
  BY <1>1, <1>2, <1>3, <1>4 DEF Ordered

\* A new request joins the end of the queue.
LEMMA Joins ==
    ASSUME Typed, NEW r \in Requests, Ask(r)
    PROVE  /\ queue' \in Seq(Requests)
           /\ \A i \in DOMAIN queue' :
                 \/ i = Len(queue) + 1 /\ queue'[i] = r
                 \/ i \in DOMAIN queue /\ queue'[i] = queue[i]
           /\ DOMAIN queue = 1 .. Len(queue) /\ Len(queue) \in Nat
<1>1. queue \in Seq(Requests) /\ queue' = Append(queue, r)
  BY DEF Ask, Typed, CallersTyped
<1>2. queue' \in Seq(Requests) /\ Len(queue') = Len(queue) + 1
  BY <1>1
<1>3. DOMAIN queue = 1 .. Len(queue) /\ DOMAIN queue' = 1 .. Len(queue') /\ Len(queue) \in Nat
  BY <1>1, <1>2
<1>4. queue'[Len(queue) + 1] = r /\ \A i \in 1 .. Len(queue) : queue'[i] = queue[i]
  BY <1>1
<1>5. ASSUME NEW i \in DOMAIN queue'
      PROVE  \/ i = Len(queue) + 1 /\ queue'[i] = r
             \/ i \in DOMAIN queue /\ queue'[i] = queue[i]
  <2>1. i \in 1 .. Len(queue) \/ i = Len(queue) + 1
    BY <1>2, <1>3
  <2>2. CASE i \in 1 .. Len(queue)
    BY <1>3, <1>4, <2>2
  <2>3. CASE i = Len(queue) + 1
    BY <1>4, <2>3
  <2> QED
    BY <2>1, <2>2, <2>3
<1> QED
  BY <1>2, <1>3, <1>5

\* The service holds one connection, for the operation it serves, exactly while
\* it holds the lock; the poller holds one exactly while it is connected.
Connections ==
    /\ open \cap (Requests \X Plcs) = IF lock THEN {<<serving, Plc[serving]>>} ELSE {}
    /\ lock => serving \in Requests /\ todo # <<>>
    /\ at = "connected" => \E p \in Plcs : open \cap ({"poller"} \X Plcs) = {<<"poller", p>>}
    /\ at # "connected" => open \cap ({"poller"} \X Plcs) = {}

LEMMA TodoLeft ==
    ASSUME Connections, NEW r \in Requests, Exchange(r)
    PROVE  lock /\ serving = r /\ todo # <<>>
<1>1. Plc[r] \in Plcs
  BY ServiceAssumption DEF ServiceAssumption
<1>2. <<r, Plc[r]>> \in open \cap (Requests \X Plcs)
  BY <1>1 DEF Exchange
<1> QED
  BY <1>2 DEF Connections

LEMMA StepTyped == Typed /\ Ordered /\ Connections /\ [Next]_vars => Typed'
<1> SUFFICES ASSUME Typed, Ordered, Connections, [Next]_vars PROVE Typed'
  OBVIOUS
<1>0. CallersTyped /\ ThreadTyped /\ EffectsTyped
  BY DEF Typed
<1> USE DEF effects, caller, thread
<1>1. ASSUME NEW r \in Requests, Ask(r) PROVE Typed'
  <2>1. /\ IsFiniteSet(Begun') /\ Cardinality(Begun) \in Nat
        /\ asked' = [asked EXCEPT ![r] = 1 + Cardinality(Begun)]
    BY <1>1, AskCounts
  <2>2. queue' \in Seq(Requests)
    BY <1>1, Joins
  <2>3. CallersTyped'
    <3> DEFINE n == 1 + Cardinality(Begun)
    <3>0. n \in Nat /\ asked' = [asked EXCEPT ![r] = n]
      BY <2>1
    <3> HIDE DEF n
    <3>1. asked' \in [Requests -> Nat]
      BY <1>0, <3>0 DEF CallersTyped
    <3>2. /\ stage' \in [Requests -> {"new", "queued", "served", "done"}]
          /\ answer' = answer
      BY <1>0, <1>1 DEF Ask, CallersTyped
    <3> QED
      BY <1>0, <2>1, <2>2, <3>1, <3>2 DEF CallersTyped
  <2> QED
    BY <1>0, <1>1, <2>3 DEF Ask, Typed, ThreadTyped, EffectsTyped
<1>2. ASSUME NEW r \in Requests, GiveUp(r) PROVE Typed'
  <2>1. Begun' = Begun
    BY <1>2 DEF GiveUp, Begun
  <2> QED
    <3>1. CallersTyped'
      BY <1>0, <1>2, <2>1 DEF GiveUp, CallersTyped
    <3>2. ThreadTyped' /\ EffectsTyped'
      BY <1>0, <1>2 DEF GiveUp, ThreadTyped, EffectsTyped
    <3> QED
      BY <3>1, <3>2 DEF Typed
<1>3. CASE Tick
  <2>1. Begun' = Begun
    BY <1>3 DEF Tick, Begun
  <2> QED
    <3>1. CallersTyped' /\ ThreadTyped'
      BY <1>0, <1>3, <2>1 DEF Tick, CallersTyped, ThreadTyped
    <3>2. EffectsTyped'
      BY <1>0, <1>3 DEF Tick, EffectsTyped
    <3> QED
      BY <3>1, <3>2 DEF Typed
<1>4. ASSUME NEW r \in Requests, Accept(r) PROVE Typed'
  <2>0. queue' \in Seq(Requests) /\ stage[r] # "new"
    BY <1>4, Turn
  <2>1. CASE Refused(r)
    <3>1. Over(r, "refused")
      BY <1>4, <2>1 DEF Accept
    <3> QED
      BY <1>0, <1>4, <2>0, <3>1, OverTyped DEF Accept, Typed, CallersTyped, EffectsTyped
  <2>2. CASE ~Refused(r)
    <3>1. /\ serving' = r /\ stage' = [stage EXCEPT ![r] = "served"] /\ answer' = answer
          /\ composite' = (Kind[r] \in Composites) /\ outcome' = "ok"
          /\ todo' = <<CASE Kind[r] = "discover" -> "tags"
                         [] Kind[r] = "health" -> "identity"
                         [] OTHER -> Kind[r]>>
      BY <1>4, <2>2 DEF Accept
    <3>2. Kind[r] \in Composites \cup Operations
      BY ServiceAssumption DEF ServiceAssumption
    <3>3. todo' \in Seq(Operations)
      BY <3>1, <3>2 DEF Operations, Composites
    <3>4. composite' \in BOOLEAN
      BY <3>1
    <3>5. Begun' = Begun
      BY <1>0, <2>0, <3>1 DEF Begun, CallersTyped
    <3> QED
      BY <1>0, <1>4, <2>0, <3>1, <3>3, <3>4, <3>5
         DEF Accept, Typed, CallersTyped, ThreadTyped, EffectsTyped
  <2> QED
    BY <2>1, <2>2
<1>5. ASSUME NEW r \in Requests, Deny(r) PROVE Typed'
  <2>1. Over(r, "refused") /\ stage[r] # "new"
    BY <1>5 DEF Deny, Ordered
  <2> QED
    BY <1>0, <1>5, <2>1, OverTyped DEF Deny, Typed, CallersTyped, EffectsTyped
<1>6. ASSUME NEW r \in Requests, Answer(r) PROVE Typed'
  <2>1. Over(r, outcome) /\ stage[r] # "new"
    BY <1>6 DEF Answer, Ordered
  <2>2. outcome \in {"ok", "failed", "refused", "none"}
    BY <1>0 DEF ThreadTyped
  <2> QED
    BY <1>0, <1>6, <2>1, <2>2, OverTyped DEF Answer, Typed, CallersTyped, EffectsTyped
<1>7. ASSUME NEW r \in Requests, Connect(r) PROVE Typed'
  <2>1. Plc[r] \in Plcs
    BY ServiceAssumption DEF ServiceAssumption
  <2>2. Begun' = Begun
    BY <1>7 DEF Connect, Begun
  <2> QED
    <3>1. CallersTyped' /\ ThreadTyped'
      BY <1>0, <1>7, <2>2 DEF Connect, CallersTyped, ThreadTyped
    <3>2. lock' \in BOOLEAN /\ open' \subseteq (Requests \cup {"poller"}) \X Plcs
      BY <1>0, <1>7, <2>1 DEF Connect, EffectsTyped
    <3>3. EffectsTyped'
      BY <1>0, <1>7, <3>2 DEF Connect, EffectsTyped
    <3> QED
      BY <3>1, <3>3 DEF Typed
<1>8. ASSUME NEW r \in Requests, Exchange(r) PROVE Typed'
  <2>1. PICK how \in Outcomes(Head(todo)), done \in SUBSET Items[r], written \in SUBSET Items[r] :
          /\ succeeded' = [succeeded EXCEPT ![r] = Reported(r, done, how)]
          /\ value' = [value EXCEPT ![Plc[r]] = [t \in Tags |-> IF t \in written THEN r ELSE @[t]]]
          /\ todo' = Tail(todo) \o Following(r, Head(todo), how)
          /\ outcome' = IF how = "bad" /\ ~composite THEN "failed" ELSE outcome
          /\ Close(<<r, Plc[r]>>, how)
          /\ Record(Plc[r], how)
    BY <1>8 DEF Exchange
  <2>2. /\ lock' = FALSE /\ ended' = [ended EXCEPT ![Plc[r]] = [by |-> r, at |-> clock]]
        /\ UNCHANGED <<clock, caller, queue, serving, composite>>
    BY <1>8 DEF Exchange
  <2>3. Plc[r] \in Plcs /\ Items[r] \subseteq Tags
    BY ServiceAssumption DEF ServiceAssumption
  <2>4. Begun' = Begun
    BY <2>2 DEF Begun
  <2>5. CallersTyped'
    BY <1>0, <2>2, <2>4 DEF CallersTyped
  <2>6. ThreadTyped'
    <3>1. todo # <<>>
      BY <1>8, TodoLeft
    <3>2. Tail(todo) \in Seq(Operations)
      BY <1>0, <3>1 DEF ThreadTyped
    <3>3. Following(r, Head(todo), how) \in Seq(Operations)
      BY FollowingTyped
    <3>4. todo' \in Seq(Operations)
      BY <2>1, <3>2, <3>3
    <3> QED
      BY <1>0, <2>1, <2>2, <3>4 DEF ThreadTyped
  <2>7. EffectsTyped'
    <3>1. lock' \in BOOLEAN
      BY <2>2
    <3>2. succeeded' \in [Requests -> SUBSET Tags]
      BY <1>0, <2>1, <2>3 DEF Reported, EffectsTyped
    <3>3. [t \in Tags |-> IF t \in written THEN r ELSE value[Plc[r]][t]]
             \in [Tags -> Requests \cup {"none"}]
      BY <1>0, <2>3 DEF EffectsTyped
    <3>4. value' \in [Plcs -> [Tags -> Requests \cup {"none"}]]
      BY <1>0, <2>1, <2>3, <3>3 DEF EffectsTyped
    <3>5. last' \in [Plcs -> Nat] /\ ended' \in [Plcs -> [by : Requests \cup {"none"}, at : Nat]]
      BY <1>0, <2>1, <2>2 DEF Record, EffectsTyped
    <3>6. open' \subseteq (Requests \cup {"poller"}) \X Plcs
      BY <1>0, <2>1 DEF Close, EffectsTyped
    <3> QED
      BY <1>0, <2>2, <3>1, <3>2, <3>4, <3>5, <3>6 DEF EffectsTyped
  <2> QED
    BY <2>5, <2>6, <2>7 DEF Typed
<1>9. CASE Poller /\ UNCHANGED serviceOnly
  <2>1. open' \subseteq (Requests \cup {"poller"}) \X Plcs
    <3>1. open' = open \/ (\E p \in Plcs : \/ open' = open \cup {<<"poller", p>>}
                                          \/ open' = open \ {<<"poller", p>>})
      BY <1>9 DEF Poller, PollOpens, PollConnect, PollBreaks, PollEnd, PollEnds
    <3> QED
      BY <1>0, <3>1 DEF EffectsTyped
  <2>2. Begun' = Begun
    BY <1>9, Beside DEF Begun
  <2> QED
    BY <1>0, <1>9, <2>1, <2>2, Beside DEF Typed, CallersTyped, ThreadTyped, EffectsTyped
<1>10. CASE UNCHANGED serviceVars
  <2>1. open' = open /\ Begun' = Begun
    BY <1>10 DEF serviceVars, Begun
  <2> QED
    BY <1>0, <1>10, <2>1, Beside DEF Typed, CallersTyped, ThreadTyped, EffectsTyped
<1> QED
  BY <1>1, <1>2, <1>3, <1>4, <1>5, <1>6, <1>7, <1>8, <1>9, <1>10, Steps DEF ServiceStep, Serve

-----------------------------------------------------------------------------
(* Connections.                                                            *)

LEMMA InitConnections == Init => Connections
BY DEF Init, ServiceInit, PollerInit, Connections

LEMMA StepConnections == Typed /\ Connections /\ [Next]_vars => Connections'
<1> SUFFICES ASSUME Typed, Connections, [Next]_vars PROVE Connections'
  OBVIOUS
<1> USE DEF effects, caller, thread
<1>0. "poller" \notin Requests /\ "none" \notin Requests /\ \A r \in Requests : Plc[r] \in Plcs
  BY ServiceAssumption DEF ServiceAssumption
<1>1. ASSUME UNCHANGED <<open, lock, at>>, lock => serving' = serving /\ todo' = todo
      PROVE  Connections'
  BY <1>1 DEF Connections
<1>2. ASSUME NEW r \in Requests, Ask(r) \/ GiveUp(r), UNCHANGED pollerVars PROVE Connections'
  BY <1>1, <1>2 DEF Ask, GiveUp, pollerVars
<1>3. CASE Tick /\ UNCHANGED pollerVars
  BY <1>1, <1>3 DEF Tick, pollerVars
<1>4. ASSUME NEW r \in Requests, Accept(r), UNCHANGED pollerVars PROVE Connections'
  <2>1. ~lock
    BY <1>0, <1>4 DEF Accept, Connections
  <2> QED
    BY <1>1, <1>4, <2>1 DEF Accept, pollerVars
<1>5. ASSUME NEW r \in Requests, Deny(r), UNCHANGED pollerVars PROVE Connections'
  <2>1. ~lock
    <3>1. <<r, Plc[r]>> \notin open
      BY <1>0, <1>5 DEF Deny
    <3>2. serving = r
      BY <1>5 DEF Deny
    <3> QED
      BY <3>1, <3>2 DEF Connections
  <2> QED
    BY <1>1, <1>5, <2>1 DEF Deny, pollerVars
<1>6. ASSUME NEW r \in Requests, Answer(r), UNCHANGED pollerVars PROVE Connections'
  <2>1. ~lock
    BY <1>6 DEF Answer, Connections
  <2> QED
    BY <1>1, <1>6, <2>1 DEF Answer, pollerVars
<1>7. ASSUME NEW r \in Requests, Connect(r), UNCHANGED pollerVars PROVE Connections'
  <2>1. /\ ~lock /\ lock' = TRUE /\ serving = r /\ todo # <<>>
        /\ open' = open \cup {<<r, Plc[r]>>}
        /\ UNCHANGED <<serving, todo, at>>
    BY <1>7 DEF Connect, Denied, pollerVars
  <2>2. open' \cap (Requests \X Plcs) = {<<r, Plc[r]>>}
    BY <1>0, <2>1 DEF Connections
  <2>3. open' \cap ({"poller"} \X Plcs) = open \cap ({"poller"} \X Plcs)
    BY <1>0, <2>1
  <2> QED
    BY <2>1, <2>2, <2>3 DEF Connections
<1>8. ASSUME NEW r \in Requests, Exchange(r), UNCHANGED pollerVars PROVE Connections'
  <2>1. lock /\ serving = r
    BY <1>8, TodoLeft
  <2>2. lock' = FALSE /\ open' = open \ {<<r, Plc[r]>>} /\ at' = at
    BY <1>8 DEF Exchange, Close, pollerVars
  <2>3. open' \cap (Requests \X Plcs) = {}
    BY <2>1, <2>2 DEF Connections
  <2>4. open' \cap ({"poller"} \X Plcs) = open \cap ({"poller"} \X Plcs)
    BY <1>0, <2>2
  <2> QED
    BY <2>2, <2>3, <2>4 DEF Connections
<1>9. CASE Poller /\ UNCHANGED serviceOnly
  <2>0. UNCHANGED <<lock, serving, todo>>
    BY <1>9, Beside
  <2>1. CASE PollRests /\ UNCHANGED open
    <3>1. at # "connected" /\ at' # "connected"
      BY <2>1 DEF PollRests, Stat, Load, LoadBreaks, LoadEnds, Sleep
    <3> QED
      BY <2>0, <2>1, <3>1 DEF Connections
  <2>2. ASSUME NEW p \in Plcs, PollConnect(p) PROVE Connections'
    <3>1. at = "poll" /\ at' = "connected" /\ open' = open \cup {<<"poller", p>>}
      BY <2>2 DEF PollConnect
    <3>2. open' \cap (Requests \X Plcs) = open \cap (Requests \X Plcs)
      BY <1>0, <3>1
    <3>3. open' \cap ({"poller"} \X Plcs) = {<<"poller", p>>}
      BY <3>1 DEF Connections
    <3> QED
      BY <2>0, <3>1, <3>2, <3>3 DEF Connections
  <2>3. ASSUME NEW p \in Plcs, PollEnd(p) PROVE Connections'
    <3>1. /\ at = "connected" /\ at' # "connected" /\ open' = open \ {<<"poller", p>>}
          /\ <<"poller", p>> \in open
      BY <2>3 DEF PollEnd, PollEnds
    <3>2. open' \cap (Requests \X Plcs) = open \cap (Requests \X Plcs)
      BY <1>0, <3>1
    <3>3. open' \cap ({"poller"} \X Plcs) = {}
      BY <3>1 DEF Connections
    <3> QED
      BY <2>0, <3>1, <3>2, <3>3 DEF Connections
  <2>4. ASSUME NEW p \in Plcs, PollBreaks(p) PROVE Connections'
    BY <2>0, <2>4 DEF PollBreaks, Connections
  <2> QED
    BY <1>9, <2>1, <2>2, <2>3, <2>4 DEF Poller, PollOpens
<1>10. CASE UNCHANGED serviceVars /\ UNCHANGED at
  BY <1>1, <1>10 DEF serviceVars
<1> QED
  BY <1>2, <1>3, <1>4, <1>5, <1>6, <1>7, <1>8, <1>9, <1>10, Steps DEF ServiceStep, Serve

-----------------------------------------------------------------------------
(* The order of requests.                                                  *)

LEMMA InitOrdered == Init => Ordered
<1> SUFFICES ASSUME Init PROVE Ordered
  OBVIOUS
<1>1. DOMAIN queue = {} /\ Begun = {} /\ Past = {}
  BY DEF Init, ServiceInit, Begun, Past
<1> QED
  BY <1>1, ServiceAssumption DEF Init, ServiceInit, Ordered, ServiceAssumption

LEMMA StepOrdered == Typed /\ Ordered /\ Connections /\ [Next]_vars => Ordered'
<1> SUFFICES ASSUME Typed, Ordered, Connections, [Next]_vars PROVE Ordered'
  OBVIOUS
<1> USE DEF effects, caller, thread
<1>0. /\ CallersTyped /\ ThreadTyped
      /\ queue \in Seq(Requests) /\ asked \in [Requests -> Nat]
      /\ stage \in [Requests -> {"new", "queued", "served", "done"}]
      /\ "none" \notin Requests /\ \A i \in DOMAIN queue : queue[i] \in Requests
  <2>1. queue \in Seq(Requests)
    BY DEF Typed, CallersTyped
  <2>2. \A i \in DOMAIN queue : queue[i] \in Requests
    BY <2>1
  <2> QED
    BY <2>1, <2>2, ServiceAssumption DEF Typed, CallersTyped, ServiceAssumption
<1>1. ASSUME UNCHANGED <<stage, asked, queue, serving>> PROVE Ordered'
  BY <1>1 DEF Ordered, Begun, Past
<1>2. ASSUME NEW r \in Requests, Ask(r) PROVE Ordered'
  <2> DEFINE n == Cardinality(Begun)
  <2>1. /\ Begun' = Begun \cup {r} /\ r \notin Begun
        /\ n \in Nat /\ Cardinality(Begun') = n + 1
        /\ asked' = [asked EXCEPT ![r] = 1 + n]
    BY <1>2, AskCounts
  <2>2. \A s \in Begun : asked[s] <= n
    BY DEF Ordered
  <2> HIDE DEF n
  <2>3. /\ \A i \in DOMAIN queue' :
              \/ i = Len(queue) + 1 /\ queue'[i] = r
              \/ i \in DOMAIN queue /\ queue'[i] = queue[i]
        /\ DOMAIN queue = 1 .. Len(queue) /\ Len(queue) \in Nat
    BY <1>2, Joins
  <2>4. /\ stage[r] = "new" /\ stage' = [stage EXCEPT ![r] = "queued"] /\ serving' = serving
    BY <1>2 DEF Ask
  <2>5. Past' = Past /\ Past \subseteq Begun
    BY <1>0, <2>4 DEF Past, Begun
  <2>6. \A i \in DOMAIN queue : queue[i] \in Begun /\ queue[i] # r
    BY <1>0, <2>4 DEF Ordered, Begun
  <2>7. asked'[r] = n + 1 /\ \A s \in Begun : asked'[s] = asked[s] /\ asked[s] \in Nat
    BY <1>0, <2>1 DEF Begun
  <2>8. \A i \in DOMAIN queue' : stage'[queue'[i]] = "queued"
    BY <1>0, <2>3, <2>4, <2>6 DEF Ordered
  <2>9. \A i, j \in DOMAIN queue' : i < j => asked'[queue'[i]] < asked'[queue'[j]]
    <3> SUFFICES ASSUME NEW i \in DOMAIN queue', NEW j \in DOMAIN queue', i < j
                 PROVE  asked'[queue'[i]] < asked'[queue'[j]]
      OBVIOUS
    <3>1. i \in DOMAIN queue /\ queue'[i] = queue[i]
      BY <2>3
    <3>2. CASE j \in DOMAIN queue /\ queue'[j] = queue[j]
      BY <2>6, <2>7, <3>1, <3>2 DEF Ordered
    <3>3. CASE queue'[j] = r
      BY <2>1, <2>2, <2>6, <2>7, <3>1, <3>3
    <3> QED
      BY <2>3, <3>2, <3>3
  <2>10. \A s \in Requests : stage'[s] = "served" <=> s = serving'
    BY <1>0, <2>4 DEF Ordered
  <2>11. \A s \in Begun' : asked'[s] <= Cardinality(Begun')
    BY <2>1, <2>2, <2>7
  <2>12. \A s \in Past' : \A i \in DOMAIN queue' : asked'[s] < asked'[queue'[i]]
    <3> SUFFICES ASSUME NEW s \in Past, NEW i \in DOMAIN queue'
                 PROVE  asked'[s] < asked'[queue'[i]]
      BY <2>5
    <3>1. CASE i \in DOMAIN queue /\ queue'[i] = queue[i]
      BY <2>5, <2>6, <2>7, <3>1 DEF Ordered
    <3>2. CASE queue'[i] = r
      BY <2>1, <2>2, <2>5, <2>7, <3>2
    <3> QED
      BY <2>3, <3>1, <3>2
  <2>13. serving' # "none" => \A s \in Past' : asked'[s] <= asked'[serving']
    <3>1. serving # "none" => serving \in Past
      BY <1>0 DEF ThreadTyped, Ordered, Past
    <3> QED
      BY <2>4, <2>5, <2>7, <3>1 DEF Ordered
  <2> QED
    BY <2>8, <2>9, <2>10, <2>11, <2>12, <2>13 DEF Ordered
<1>3. ASSUME NEW r \in Requests, GiveUp(r) PROVE Ordered'
  BY <1>1, <1>3 DEF GiveUp
<1>4. CASE Tick
  BY <1>1, <1>4 DEF Tick
<1>5. ASSUME NEW r \in Requests, Accept(r) PROVE Ordered'
  <2>1. /\ serving = "none" /\ 1 \in DOMAIN queue /\ r = queue[1] /\ stage[r] = "queued"
        /\ \A i \in DOMAIN queue' : /\ i + 1 \in DOMAIN queue /\ queue'[i] = queue[i + 1]
                                    /\ i \in Nat \ {0}
    BY <1>5, Turn
  <2>2. /\ asked' = asked
        /\ \/ serving' = "none" /\ stage' = [stage EXCEPT ![r] = "done"]
           \/ serving' = r /\ stage' = [stage EXCEPT ![r] = "served"]
    BY <1>5 DEF Accept, Over
  <2>3. Begun' = Begun /\ Past' = Past \cup {r}
    BY <1>0, <2>1, <2>2 DEF Begun, Past
  <2>4. \A i \in DOMAIN queue' : asked[r] < asked[queue'[i]] /\ queue'[i] # r
    <3> SUFFICES ASSUME NEW i \in DOMAIN queue'
                 PROVE  asked[r] < asked[queue'[i]]
      BY <1>0
    <3>1. i + 1 \in DOMAIN queue /\ queue'[i] = queue[i + 1] /\ 1 < i + 1
      BY <2>1
    <3> QED
      BY <2>1, <3>1 DEF Ordered
  <2>5. \A i \in DOMAIN queue' : stage'[queue'[i]] = "queued"
    BY <1>0, <2>1, <2>2, <2>4 DEF Ordered
  <2>6. \A i, j \in DOMAIN queue' : i < j => asked'[queue'[i]] < asked'[queue'[j]]
    <3> SUFFICES ASSUME NEW i \in DOMAIN queue', NEW j \in DOMAIN queue', i < j
                 PROVE  asked[queue[i + 1]] < asked[queue[j + 1]]
      BY <2>1, <2>2
    <3>1. i + 1 \in DOMAIN queue /\ j + 1 \in DOMAIN queue /\ i + 1 < j + 1
      BY <2>1
    <3> QED
      BY <3>1 DEF Ordered
  <2>7. \A s \in Requests : stage'[s] = "served" <=> s = serving'
    BY <1>0, <2>1, <2>2 DEF Ordered
  <2>8. \A s \in Begun' : asked'[s] <= Cardinality(Begun')
    BY <2>2, <2>3 DEF Ordered
  <2>9. \A s \in Past' : \A i \in DOMAIN queue' : asked'[s] < asked'[queue'[i]]
    BY <2>1, <2>2, <2>3, <2>4 DEF Ordered
  <2>10. \A s \in Past : asked[s] <= asked[r]
    BY <1>0, <2>1 DEF Ordered, Past
  <2>11. serving' # "none" => \A s \in Past' : asked'[s] <= asked'[serving']
    BY <1>0, <2>2, <2>3, <2>10
  <2> QED
    BY <2>5, <2>6, <2>7, <2>8, <2>9, <2>11 DEF Ordered
<1>6. ASSUME NEW r \in Requests, Deny(r) \/ Answer(r) PROVE Ordered'
  <2>1. /\ serving = r /\ serving' = "none" /\ asked' = asked /\ queue' = queue
        /\ stage' = [stage EXCEPT ![r] = "done"]
    BY <1>6 DEF Deny, Answer, Over
  <2>2. stage[r] = "served"
    BY <2>1 DEF Ordered
  <2>3. Begun' = Begun /\ Past' = Past
    BY <1>0, <2>1, <2>2 DEF Begun, Past
  <2>4. \A s \in Requests : stage'[s] # "served"
    BY <1>0, <2>1 DEF Ordered
  <2>5. \A i \in DOMAIN queue' : stage'[queue'[i]] = "queued"
    BY <1>0, <2>1, <2>2 DEF Ordered
  <2> QED
    BY <1>0, <2>1, <2>3, <2>4, <2>5 DEF Ordered
<1>7. ASSUME NEW r \in Requests, Connect(r) \/ Exchange(r) PROVE Ordered'
  BY <1>1, <1>7 DEF Connect, Exchange
<1>8. CASE (Poller /\ UNCHANGED serviceOnly) \/ UNCHANGED serviceVars
  BY <1>1, <1>8, Beside
<1> QED
  BY <1>2, <1>3, <1>4, <1>5, <1>6, <1>7, <1>8, Steps DEF ServiceStep, Serve

-----------------------------------------------------------------------------
(* What is written stands, and the cooldown is kept.                       *)

\* Only requests that were served have written, whatever a tag holds.
Written ==
    /\ \A s \in Requests : succeeded[s] # {} => s \in Past
    /\ \A p \in Plcs, t \in Tags : value[p][t] \in Past \cup {"none"}
    /\ OkStands

LEMMA InitWritten == Init => Written
BY DEF Init, ServiceInit, Written, OkStands

LEMMA StepWritten ==
    Typed /\ Ordered /\ Connections /\ Written /\ [Next]_vars => Written'
<1> SUFFICES ASSUME Typed, Ordered, Connections, Written, [Next]_vars PROVE Written'
  OBVIOUS
<1> USE DEF effects, caller, thread
<1>0. /\ CallersTyped /\ ThreadTyped /\ EffectsTyped
      /\ "none" \notin Requests
      /\ \A r \in Requests : Plc[r] \in Plcs /\ Items[r] \subseteq Tags
  BY ServiceAssumption DEF Typed, ServiceAssumption
<1>1. ASSUME UNCHANGED <<succeeded, value>>, Past \subseteq Past',
             \A s \in Past : asked'[s] = asked[s]
      PROVE  Written'
  <2>1. ASSUME NEW r \in Requests, NEW t \in succeeded[r]
        PROVE  /\ value[Plc[r]][t] # "none" /\ asked'[value[Plc[r]][t]] >= asked'[r]
    <3>1. r \in Past /\ t \in Tags
      BY <1>0, <2>1 DEF Written, EffectsTyped
    <3>2. value[Plc[r]][t] # "none" /\ asked[value[Plc[r]][t]] >= asked[r]
      BY <2>1 DEF Written, OkStands
    <3>3. value[Plc[r]][t] \in Past
      BY <1>0, <3>1, <3>2 DEF Written
    <3> QED
      BY <1>1, <3>1, <3>2, <3>3
  <2> QED
    BY <1>1, <2>1 DEF Written, OkStands
<1>2. ASSUME NEW r \in Requests, Ask(r) PROVE Written'
  <2>1. \A s \in Past : s # r /\ s \in Past' /\ asked'[s] = asked[s]
    BY <1>0, <1>2 DEF Ask, Past, CallersTyped
  <2> QED
    BY <1>1, <1>2, <2>1 DEF Ask
<1>3. ASSUME NEW r \in Requests, GiveUp(r) PROVE Written'
  BY <1>1, <1>3 DEF GiveUp, Past
<1>4. CASE Tick
  BY <1>1, <1>4 DEF Tick, Past
<1>5. ASSUME NEW r \in Requests, Accept(r) \/ Deny(r) \/ Answer(r) PROVE Written'
  <2>1. /\ UNCHANGED <<succeeded, value, asked>>
        /\ \/ stage' = [stage EXCEPT ![r] = "done"]
           \/ stage' = [stage EXCEPT ![r] = "served"]
    BY <1>5 DEF Accept, Deny, Answer, Over
  <2>2. Past \subseteq Past'
    BY <1>0, <2>1 DEF Past, CallersTyped
  <2> QED
    BY <1>1, <2>1, <2>2
<1>6. ASSUME NEW r \in Requests, Connect(r) PROVE Written'
  BY <1>1, <1>6 DEF Connect, Past
<1>7. ASSUME NEW r \in Requests, Exchange(r) PROVE Written'
  <2>1. PICK how \in Outcomes(Head(todo)), done \in SUBSET Items[r], written \in SUBSET Items[r] :
          /\ done \subseteq written
          /\ Head(todo) = "write" => (how = "good" <=> done = Items[r])
          /\ succeeded' = [succeeded EXCEPT ![r] = Reported(r, done, how)]
          /\ value' = [value EXCEPT ![Plc[r]] = [t \in Tags |-> IF t \in written THEN r ELSE @[t]]]
          /\ todo' = Tail(todo) \o Following(r, Head(todo), how)
          /\ outcome' = IF how = "bad" /\ ~composite THEN "failed" ELSE outcome
          /\ Close(<<r, Plc[r]>>, how)
          /\ Record(Plc[r], how)
    BY <1>7 DEF Exchange
  <2>2. UNCHANGED <<stage, asked>> /\ serving = r
    BY <1>7, TodoLeft DEF Exchange
  <2>3. r \in Past /\ Past' = Past /\ \A s \in Past : asked[s] <= asked[r] /\ asked[s] \in Nat
    BY <1>0, <2>2 DEF Past, Ordered, CallersTyped
  <2>4. succeeded'[r] \subseteq written /\ \A s \in Requests \ {r} : succeeded'[s] = succeeded[s]
    BY <1>0, <2>1 DEF Reported, EffectsTyped
  <2>5. \A p \in Plcs, t \in Tags :
           value'[p][t] = IF p = Plc[r] /\ t \in written THEN r ELSE value[p][t]
    BY <1>0, <2>1 DEF EffectsTyped
  <2>6. \A s \in Requests : succeeded'[s] # {} => s \in Past'
    BY <2>3, <2>4 DEF Written
  <2>7. \A p \in Plcs, t \in Tags : value'[p][t] \in Past' \cup {"none"}
    BY <2>3, <2>5 DEF Written
  <2>8. ASSUME NEW s \in Requests, NEW t \in succeeded'[s]
        PROVE  value'[Plc[s]][t] # "none" /\ asked'[value'[Plc[s]][t]] >= asked'[s]
    <3>1. t \in Tags /\ s \in Past
      BY <1>0, <2>1, <2>3, <2>4, <2>6, <2>8 DEF EffectsTyped
    <3>2. CASE Plc[s] = Plc[r] /\ t \in written
      BY <1>0, <2>2, <2>3, <2>5, <3>1, <3>2
    <3>3. CASE ~(Plc[s] = Plc[r] /\ t \in written)
      <4>1. t \in succeeded[s]
        BY <2>4, <2>8, <3>3
      <4>2. value'[Plc[s]][t] = value[Plc[s]][t]
        BY <1>0, <2>5, <3>1, <3>3
      <4> QED
        BY <2>2, <4>1, <4>2 DEF Written, OkStands
    <3> QED
      BY <3>2, <3>3
  <2> QED
    BY <2>6, <2>7, <2>8 DEF Written, OkStands
<1>8. CASE (Poller /\ UNCHANGED serviceOnly) \/ UNCHANGED serviceVars
  BY <1>1, <1>8, Beside DEF Past
<1> QED
  BY <1>2, <1>3, <1>4, <1>5, <1>6, <1>7, <1>8, Steps DEF ServiceStep, Serve

\* What _last_connection holds, and what a composite request was accepted on.
Cooled ==
    /\ \A p \in Plcs : ended[p].by # "none" => last[p] = ended[p].at
    /\ composite => /\ serving \in Requests
                    /\ LET e == ended[Plc[serving]]
                       IN  e.by \in {serving, "none"} \/ clock - e.at >= Cooldown

LEMMA InitCooled == Init => Cooled
BY DEF Init, ServiceInit, Cooled

LEMMA StepCooled == Typed /\ Connections /\ Cooled /\ [Next]_vars => Cooled'
<1> SUFFICES ASSUME Typed, Connections, Cooled, [Next]_vars PROVE Cooled'
  OBVIOUS
<1> USE DEF effects, caller, thread
<1>0. /\ ThreadTyped /\ EffectsTyped /\ "none" \notin Requests /\ Cooldown \in Nat
      /\ \A r \in Requests : Plc[r] \in Plcs
  BY ServiceAssumption DEF Typed, ServiceAssumption
<1>1. ASSUME UNCHANGED <<ended, last, clock>>,
             composite' => composite /\ serving' = serving
      PROVE  Cooled'
  BY <1>1 DEF Cooled
<1>2. ASSUME NEW r \in Requests, Ask(r) \/ GiveUp(r) \/ Deny(r) \/ Answer(r) \/ Connect(r)
      PROVE  Cooled'
  BY <1>1, <1>2 DEF Ask, GiveUp, Deny, Answer, Connect, Over
<1>3. CASE Tick
  <2>1. clock' = clock + 1 /\ UNCHANGED <<ended, last, composite, serving>>
    BY <1>3 DEF Tick
  <2>2. \A p \in Plcs : clock - ended[p].at >= Cooldown => clock' - ended[p].at >= Cooldown
    BY <1>0, <2>1 DEF EffectsTyped
  <2> QED
    BY <1>0, <2>1, <2>2 DEF Cooled
<1>4. ASSUME NEW r \in Requests, Accept(r) PROVE Cooled'
  <2>1. CASE Refused(r)
    BY <1>1, <1>4, <2>1 DEF Accept, Over
  <2>2. CASE ~Refused(r)
    <3>1. /\ serving' = r /\ composite' = (Kind[r] \in Composites)
          /\ UNCHANGED <<ended, last, clock>>
      BY <1>4, <2>2 DEF Accept
    <3>2. Kind[r] \in Composites => clock - last[Plc[r]] >= Cooldown
      BY <1>0, <2>2 DEF Refused, Limited, EffectsTyped
    <3> QED
      BY <1>0, <3>1, <3>2 DEF Cooled
  <2> QED
    BY <2>1, <2>2
<1>5. ASSUME NEW r \in Requests, Exchange(r) PROVE Cooled'
  <2>1. /\ last' = [last EXCEPT ![Plc[r]] = clock]
        /\ ended' = [ended EXCEPT ![Plc[r]] = [by |-> r, at |-> clock]]
        /\ UNCHANGED <<clock, serving, composite>>
    BY <1>5 DEF Exchange, Record
  <2>2. serving = r
    BY <1>5, TodoLeft
  <2>3. \A p \in Plcs : /\ last'[p] = IF p = Plc[r] THEN clock ELSE last[p]
                        /\ ended'[p] = IF p = Plc[r] THEN [by |-> r, at |-> clock] ELSE ended[p]
    BY <1>0, <2>1 DEF EffectsTyped
  <2> QED
    BY <1>0, <2>1, <2>2, <2>3 DEF Cooled
<1>6. CASE (Poller /\ UNCHANGED serviceOnly) \/ UNCHANGED serviceVars
  BY <1>1, <1>6, Beside
<1> QED
  BY <1>2, <1>3, <1>4, <1>5, <1>6, Steps DEF ServiceStep, Serve

\* A connection of the service is opened by the request it serves, alone in its
\* composite or after the cooldown.
LEMMA StepCools ==
    ASSUME Typed, Cooled, [Next]_vars, NEW r \in Requests, <<r, Plc[r]>> \in open' \ open
    PROVE  LET p == Plc[r] IN ended[p].by \in {r, "none"} \/ clock - ended[p].at >= Cooldown
<1> USE DEF effects, caller, thread
<1>0. /\ EffectsTyped /\ Cooldown \in Nat /\ "poller" \notin Requests
      /\ \A q \in Requests : Plc[q] \in Plcs
  BY ServiceAssumption DEF Typed, ServiceAssumption
<1>1. PICK q \in Requests : Connect(q)
  <2>1. ASSUME NEW q \in Requests, Ask(q) \/ GiveUp(q) \/ Accept(q) \/ Deny(q) \/ Answer(q)
        PROVE  FALSE
    BY <2>1 DEF Ask, GiveUp, Accept, Deny, Answer
  <2>2. ASSUME NEW q \in Requests, Exchange(q) PROVE FALSE
    BY <2>2 DEF Exchange, Close
  <2>3. CASE Tick \/ UNCHANGED serviceVars
    BY <2>3 DEF Tick, serviceVars
  <2>4. CASE Poller /\ UNCHANGED serviceOnly
    <3>1. open' = open \/ \E p \in Plcs : \/ open' = open \cup {<<"poller", p>>}
                                          \/ open' = open \ {<<"poller", p>>}
      BY <2>4 DEF Poller, PollOpens, PollConnect, PollBreaks, PollEnd, PollEnds
    <3> QED
      BY <1>0, <3>1
  <2> QED
    BY <2>1, <2>2, <2>3, <2>4, Steps DEF ServiceStep, Serve
<1>2. q = r /\ serving = r /\ (composite \/ ~Limited(Plc[r]))
  BY <1>1 DEF Connect, Denied
<1> QED
  BY <1>0, <1>2 DEF Cooled, Limited, EffectsTyped

-----------------------------------------------------------------------------
IInv == Typed /\ Ordered /\ Connections /\ Written /\ Cooled

LEMMA Inductive == Init /\ [][Next]_vars => []IInv
<1>1. Init => IInv
  BY InitTyped, InitOrdered, InitConnections, InitWritten, InitCooled DEF IInv
<1>2. IInv /\ [Next]_vars => IInv'
  BY StepTyped, StepOrdered, StepConnections, StepWritten, StepCooled DEF IInv
<1> QED
  BY <1>1, <1>2, PTL

\* Every value of the service's variables is one the program can hold.
THEOREM ServiceTypes == Spec => []ServiceTypeOK
<1>1. IInv => ServiceTypeOK
  BY DEF IInv, Typed, CallersTyped, ThreadTyped, EffectsTyped, ServiceTypeOK
<1> QED
  BY <1>1, Inductive, PTL DEF Spec

\* A write answered "Success" is in the controller or was overwritten by one
\* that was asked for later, also when callers gave up (do_POST serves requests
\* one by one in the order of their connections).
THEOREM WritesStand == Spec => []OkStands
<1>1. IInv => OkStands
  BY DEF IInv, Written
<1> QED
  BY <1>1, Inductive, PTL DEF Spec

\* The thirty seconds per controller of safe_plc_operation, for every request.
THEOREM CooldownIsKept == Spec => CooldownKept
<1>1. IInv /\ [Next]_vars =>
        [\A r \in Requests :
           LET p == Plc[r]
           IN  <<r, p>> \in open' \ open
                 => ended[p].by \in {r, "none"} \/ clock - ended[p].at >= Cooldown]_serviceVars
  BY StepCools DEF IInv
<1> QED
  BY <1>1, Inductive, PTL DEF Spec, CooldownKept

\* At most one connection of the service and one of the poller at a time, the
\* first under _connection_lock and never left behind by a failed operation.
THEOREM OneConnection == Spec => []OneConnectionEach
<1>1. IInv => OneConnectionEach
  <2> SUFFICES ASSUME IInv PROVE OneConnectionEach
    OBVIOUS
  <2> DEFINE mine == {c \in open : c[1] = "poller"}
             its == open \ mine
  <2>0. /\ open \subseteq (Requests \cup {"poller"}) \X Plcs /\ lock \in BOOLEAN
        /\ "poller" \notin Requests
    BY ServiceAssumption DEF IInv, Typed, EffectsTyped, ServiceAssumption
  <2>1. mine = open \cap ({"poller"} \X Plcs) /\ its = open \cap (Requests \X Plcs)
    BY <2>0
  <2>2. \/ mine = {} /\ at # "connected"
        \/ at = "connected" /\ \E c : mine = {c}
    BY <2>1 DEF IInv, Connections
  <2>3. \/ ~lock /\ its = {}
        \/ lock /\ its = {<<serving, Plc[serving]>>} /\ todo # <<>>
    BY <2>1 DEF IInv, Connections
  <2> HIDE DEF mine, its
  <2>4. \A c : Cardinality({c}) = 1
    BY FS_Singleton
  <2>5. Cardinality({}) = 0
    BY FS_EmptySet
  <2>6. Cardinality(mine) <= 1 /\ (mine # {} <=> at = "connected")
    <3>1. CASE mine = {} /\ at # "connected"
      BY <2>5, <3>1
    <3>2. ASSUME NEW c, mine = {c}, at = "connected"
          PROVE  Cardinality(mine) <= 1 /\ (mine # {} <=> at = "connected")
      <4>1. Cardinality(mine) = 1 /\ mine # {}
        BY <2>4, <3>2, Zenon
      <4> QED
        BY <3>2, <4>1
    <3> QED
      BY <2>2, <3>1, <3>2
  <2>7. Cardinality(its) <= 1
    <3>1. CASE its = {}
      BY <2>5, <3>1
    <3>2. CASE its = {<<serving, Plc[serving]>>}
      <4>1. Cardinality(its) = 1
        BY <2>4, <3>2, Zenon
      <4> QED
        BY <4>1
    <3> QED
      BY <2>3, <3>1, <3>2
  <2>8. lock <=> its # {}
    BY <2>3
  <2>9. \A c \in its : c[1] = serving /\ todo # <<>>
    BY <2>3
  <2> QED
    BY <2>6, <2>7, <2>8, <2>9 DEF OneConnectionEach, mine, its
<1> QED
  BY <1>1, Inductive, PTL DEF Spec
=============================================================================
