----------------------------- MODULE EipService -----------------------------
(***************************************************************************)
(* The pylogix service in the server's container, through which the admin  *)
(* panel discovers, diagnoses, reads and writes EtherNet/IP controllers.   *)
(* One thread serves one request at a time, in the order they arrive; the  *)
(* caller may stop waiting, and its request is served all the same. A      *)
(* request is a list of CIP operations, each over a connection of its own: *)
(* a composite request (discovery, health) is checked against the cooldown *)
(* once, any other in its operation.                                       *)
(*                                                                         *)
(* Time is counted in ticks, from Cooldown on: no controller was connected *)
(* to in the moments before the service started.                           *)
(***************************************************************************)
EXTENDS Naturals, Sequences, FiniteSets

CONSTANTS
    Requests,   \* requests of the panel
    Plcs,       \* controllers
    Tags,       \* tags that requests write
    Plc,        \* the controller of each request
    Kind,       \* what each request asks for
    Items,      \* the tags each request writes
    Programs,   \* how many programs a controller lists
    Cooldown,   \* _RATE_LIMIT_SECONDS
    ReadOnly,   \* PLC_READONLY
    MaxTime     \* bound on the clock

Composites == {"discover", "health"}
Writing == {"write", "batch_write"}
Operations == {"tags", "programs", "program_tags", "identity", "read", "batch_read"} \cup Writing

ASSUME ServiceAssumption ==
    /\ Plc \in [Requests -> Plcs]
    /\ Kind \in [Requests -> Composites \cup Operations]
    /\ Items \in [Requests -> SUBSET Tags]
    /\ Programs \in Nat /\ Cooldown \in Nat /\ MaxTime \in Nat
    /\ ReadOnly \in BOOLEAN
    /\ "none" \notin Requests /\ "poller" \notin Requests

VARIABLES
    clock,      \* the time
    stage,      \* where each request is
    asked,      \* as which of them it was asked
    answer,     \* what its caller was told
    queue,      \* accepted connections
    serving,    \* the request being served
    composite,  \* _composite_flag.active of the one thread
    todo,       \* its CIP operations still to come
    outcome,    \* what it will be answered
    lock,       \* _connection_lock
    open,       \* connections to controllers, each with whose it is
    last,       \* _last_connection
    succeeded,  \* the tags each request wrote with status "Success"
    value,      \* what each tag of a controller holds: the request that wrote it
    ended       \* history: whose connection to a controller ended last, and when

caller == <<stage, asked, answer>>
thread == <<queue, serving, composite, todo, outcome>>
effects == <<succeeded, value>>
serviceVars == <<clock, caller, thread, lock, open, last, effects, ended>>

ServiceInit ==
    /\ clock = Cooldown
    /\ stage = [r \in Requests |-> "new"]
    /\ asked = [r \in Requests |-> 0]
    /\ answer = [r \in Requests |-> "none"]
    /\ queue = <<>> /\ serving = "none" /\ composite = FALSE
    /\ todo = <<>> /\ outcome = "none"
    /\ lock = FALSE /\ open = {}
    /\ last = [p \in Plcs |-> 0]
    /\ succeeded = [r \in Requests |-> {}]
    /\ value = [p \in Plcs |-> [t \in Tags |-> "none"]]
    /\ ended = [p \in Plcs |-> [by |-> "none", at |-> 0]]

-----------------------------------------------------------------------------
(* The panel *)

(* The browser's request, passed on by the panel on a thread of its own. *)
Ask(r) ==
    /\ stage[r] = "new"
    /\ stage' = [stage EXCEPT ![r] = "queued"]
    /\ asked' = [asked EXCEPT ![r] = 1 + Cardinality({s \in Requests : stage[s] # "new"})]
    /\ queue' = Append(queue, r)
    /\ UNCHANGED <<clock, answer, serving, composite, todo, outcome, lock, open, last>>
    /\ UNCHANGED <<effects, ended>>

(* The panel's call times out, after thirty seconds of a queue of any       *)
(* length, and the browser is told an error; nothing tells the service.     *)
GiveUp(r) ==
    /\ stage[r] \in {"queued", "served"} /\ answer[r] = "none"
    /\ answer' = [answer EXCEPT ![r] = "timed out"]
    /\ UNCHANGED <<clock, stage, asked, thread, lock, open, last, effects, ended>>

Tick ==
    /\ clock < MaxTime
    /\ clock' = clock + 1
    /\ UNCHANGED <<caller, thread, lock, open, last, effects, ended>>

-----------------------------------------------------------------------------
(* The service: do_POST, and safe_plc_operation around every operation *)

Limited(p) == clock - last[p] < Cooldown

(* The request is over; a caller that still waits hears how it ended.  The  *)
(* flag of a composite request is reset in its finally.                     *)
Over(r, how) ==
    /\ stage' = [stage EXCEPT ![r] = "done"]
    /\ answer' = [answer EXCEPT ![r] = IF @ = "none" THEN how ELSE @]
    /\ serving' = "none" /\ composite' = FALSE
    /\ todo' = <<>> /\ outcome' = "none"

(* Writes are refused in read-only mode; a composite request asks for its   *)
(* controller's cooldown before its first operation.                        *)
Refused(r) ==
    \/ Kind[r] \in Writing /\ ReadOnly
    \/ Kind[r] \in Composites /\ Limited(Plc[r])

Accept(r) ==
    /\ serving = "none" /\ queue # <<>> /\ r = Head(queue)
    /\ queue' = Tail(queue)
    /\ IF Refused(r)
       THEN Over(r, "refused")
       ELSE /\ serving' = r
            /\ stage' = [stage EXCEPT ![r] = "served"]
            /\ composite' = (Kind[r] \in Composites)
            /\ todo' = <<CASE Kind[r] = "discover" -> "tags"
                           [] Kind[r] = "health" -> "identity"
                           [] OTHER -> Kind[r]>>
            /\ outcome' = "ok"
            /\ UNCHANGED answer
    /\ UNCHANGED <<clock, asked, lock, open, last, effects, ended>>

(* The wrapper of an operation: the cooldown, skipped inside a composite    *)
(* request, and the lock, which is not waited for.                          *)
Denied(r) == lock \/ (~composite /\ Limited(Plc[r]))

Deny(r) ==
    /\ serving = r /\ todo # <<>> /\ open \cap ({r} \X Plcs) = {}
    /\ Denied(r)
    /\ Over(r, "refused")
    /\ UNCHANGED <<clock, asked, queue, lock, open, last, effects, ended>>

Connect(r) ==
    /\ serving = r /\ todo # <<>>
    /\ ~Denied(r)
    /\ lock' = TRUE
    /\ open' = open \cup {<<r, Plc[r]>>}
    /\ UNCHANGED <<clock, caller, thread, last, effects, ended>>

(* An operation ends "good", "bad" (it raises), or with "none" to go on     *)
(* with: an empty list, or an error status where that is an answer.         *)
Outcomes(op) ==
    {"good", "bad"} \cup IF op \in {"tags", "programs", "program_tags", "identity"}
                        THEN {"none"} ELSE {}

(* The operations an operation is followed by. *)
Following(r, op, how) ==
    IF how # "good" THEN <<>>
    ELSE CASE Kind[r] = "discover" /\ op = "tags" -> <<"programs">>
           [] Kind[r] = "discover" /\ op = "programs" -> [n \in 1 .. Programs |-> "program_tags"]
           [] Kind[r] = "health" /\ op = "identity" -> <<"tags", "programs">>
           [] OTHER -> <<>>

(* Mutant: a connection that failed is not closed. *)
Slip_Close(c, how) == open' = IF how = "bad" THEN open ELSE open \ {c}

Close(c, how) == open' = open \ {c}

(* Mutant: only a connection that succeeded is recorded. *)
Slip_Record(p, how) == last' = IF how = "bad" THEN last ELSE [last EXCEPT ![p] = clock]

Record(p, how) == last' = [last EXCEPT ![p] = clock]

(* Mutant: the status of an item is not looked at. *)
Slip_Reported(r, done, how) == IF how = "good" THEN Items[r] ELSE {}

(* The items with status "Success"; a single write raises unless it is one. *)
Reported(r, done, how) == IF how = "good" THEN done ELSE {}

(* The controller answers, or the socket times out.  Of the items of a      *)
(* write those that succeeded have been written, and of the others any.     *)
Exchange(r) ==
    /\ <<r, Plc[r]>> \in open
    /\ \E how \in Outcomes(Head(todo)), done, written \in SUBSET Items[r] :
          /\ done \subseteq written
          /\ Head(todo) = "write" => (how = "good" <=> done = Items[r])
          /\ succeeded' = [succeeded EXCEPT ![r] = Reported(r, done, how)]
          /\ value' = [value EXCEPT ![Plc[r]] =
                          [t \in Tags |-> IF t \in written THEN r ELSE @[t]]]
          /\ todo' = Tail(todo) \o Following(r, Head(todo), how)
          /\ outcome' = IF how = "bad" /\ ~composite THEN "failed" ELSE outcome
          /\ Close(<<r, Plc[r]>>, how)
          /\ Record(Plc[r], how)
    /\ lock' = FALSE
    /\ ended' = [ended EXCEPT ![Plc[r]] = [by |-> r, at |-> clock]]
    /\ UNCHANGED <<clock, caller, queue, serving, composite>>

Answer(r) ==
    /\ serving = r /\ todo = <<>>
    /\ Over(r, outcome)
    /\ UNCHANGED <<clock, asked, queue, lock, open, last, effects, ended>>

Serve(r) == Accept(r) \/ Deny(r) \/ Connect(r) \/ Exchange(r) \/ Answer(r)

ServiceNext ==
    \/ \E r \in Requests : Ask(r) \/ GiveUp(r) \/ Serve(r)
    \/ Tick

ServiceSpec == ServiceInit /\ [][ServiceNext]_serviceVars

-----------------------------------------------------------------------------
(* Types. *)
ServiceTypeOK ==
    /\ clock \in Nat
    /\ stage \in [Requests -> {"new", "queued", "served", "done"}]
    /\ asked \in [Requests -> Nat]
    /\ answer \in [Requests -> {"none", "ok", "failed", "refused", "timed out"}]
    /\ queue \in Seq(Requests)
    /\ serving \in Requests \cup {"none"}
    /\ composite \in BOOLEAN
    /\ todo \in Seq(Operations)
    /\ outcome \in {"none", "ok", "failed"}
    /\ lock \in BOOLEAN
    /\ open \subseteq (Requests \cup {"poller"}) \X Plcs
    /\ last \in [Plcs -> Nat]
    /\ succeeded \in [Requests -> SUBSET Tags]
    /\ value \in [Plcs -> [Tags -> Requests \cup {"none"}]]
    /\ ended \in [Plcs -> [by : Requests \cup {"none"}, at : Nat]]

(* "Rate limit -- 30s cooldown per PLC IP": whatever a request does and     *)
(* however its connections end, no other request connects to the controller *)
(* before Cooldown has passed since the end of its last connection; only    *)
(* the operations of one composite request follow each other at once.       *)
CooldownKept ==
    [][\A r \in Requests :
          LET p == Plc[r]
          IN  <<r, p>> \in open' \ open
                => ended[p].by \in {r, "none"} \/ clock - ended[p].at >= Cooldown]_serviceVars

(* A write that was answered "Success" is in the controller, or was         *)
(* overwritten by one that was asked for later: also when the caller of an  *)
(* earlier write has given up, and that write is still carried out.         *)
OkStands ==
    \A r \in Requests : \A t \in succeeded[r] :
        LET by == value[Plc[r]][t]
        IN  by # "none" /\ asked[by] >= asked[r]
=============================================================================
