------------------------------ MODULE PlcWrite ------------------------------
(***************************************************************************)
(* POST /api/live/write: a value is written to a tag of a device through   *)
(* the OPC-UA server, or into the store of virtual tags, and the write log *)
(* gets a row.  The request checks the configuration once, opens a session *)
(* of its own and tries up to four node ids: of those the server knows the *)
(* first and the third, which name the device.  A call that times out is   *)
(* over for the client only: the server may still carry it out.            *)
(*                                                                         *)
(* A value is the request that wrote it.                                   *)
(***************************************************************************)
EXTENDS DeviceCatalog

CONSTANTS
    Writes,      \* write requests
    Virtual,     \* aliases whose address is VIRTUAL
    NodeIds,     \* how many node ids are tried
    MaxInputs    \* bound on edits and writes together

ASSUME WriteAssumption ==
    /\ Virtual \subseteq Aliases
    /\ NodeIds \in Nat /\ MaxInputs \in Nat
    /\ "none" \notin Writes

VARIABLES
    at,       \* where each write is
    goal,     \* the device and alias it is for
    try,      \* which node id it is at
    sent,     \* calls the server has got and not answered: write and node id
    result,   \* what the session came to
    row,      \* its row in write_log, or its line in the fallback file
    said,     \* what it was answered
    plc,      \* what each tag of a device holds
    store,    \* .virtual-tags.json
    effected, \* history: writes that took effect
    apart,    \* history: the writes that were over when each one began
    mishap,   \* history: what went wrong with each write
    inputs    \* edits so far

writing == <<at, goal, try, sent, result, row, said, plc, store, effected, apart, mishap>>
vars == <<catalogVars, writing, inputs>>

Keys == DeviceNames \X Aliases

Init ==
    /\ CatalogInit
    /\ at = [w \in Writes |-> "new"]
    /\ goal = [w \in Writes |-> <<>>]
    /\ try = [w \in Writes |-> 0]
    /\ sent = {}
    /\ result = [w \in Writes |-> "none"]
    /\ row = [w \in Writes |-> "none"]
    /\ said = [w \in Writes |-> "none"]
    /\ plc = [k \in Keys |-> "none"]
    /\ store = [k \in Keys |-> "none"]
    /\ effected = {}
    /\ apart = [w \in Writes |-> {}]
    /\ mishap = [w \in Writes |-> {}]
    /\ inputs = 0

Over(w) == at[w] = "done"
Goes(w, stage) == at' = [at EXCEPT ![w] = stage]
Mishap(w, what) == mishap' = [mishap EXCEPT ![w] = @ \cup {what}]

-----------------------------------------------------------------------------
(* The checks: the device is there, enabled and may be written to, and has  *)
(* the tag.  A refused request changes nothing and is left out.             *)
Allowed(name, alias) ==
    /\ Exists(name)
    /\ LET d == devices[Find(name)] IN d.enabled /\ d.allowWrite /\ alias \in d.tags

Begin(w, k) ==
    /\ at[w] = "new" /\ Allowed(k[1], k[2])
    /\ goal' = [goal EXCEPT ![w] = k]
    /\ apart' = [apart EXCEPT ![w] = {v \in Writes : Over(v)}]

(* A virtual tag goes into the store; that the file could not be written is *)
(* logged and not answered.                                                 *)
WriteVirtual(w, k) ==
    /\ k[2] \in Virtual
    /\ Begin(w, k)
    /\ \/ /\ store' = [store EXCEPT ![k] = w]
          /\ effected' = effected \cup {w}
          /\ UNCHANGED mishap
       \/ /\ Mishap(w, "store not saved")
          /\ UNCHANGED <<store, effected>>
    /\ result' = [result EXCEPT ![w] = "ok"]
    /\ Goes(w, "recording")
    /\ UNCHANGED <<try, sent, row, said, plc>>

Open(w, k) ==
    /\ k[2] \notin Virtual
    /\ Begin(w, k)
    /\ Goes(w, "connecting")
    /\ UNCHANGED <<try, sent, result, row, said, plc, store, effected, mishap>>

Connect(w) ==
    /\ at[w] = "connecting"
    /\ Goes(w, "trying")
    /\ try' = [try EXCEPT ![w] = 1]
    /\ UNCHANGED <<goal, sent, result, row, said, plc, store, effected, apart, mishap>>

(* The connection, or the look for the namespace after it, times out or     *)
(* fails: an error, and no row.                                             *)
ConnectFails(w) ==
    /\ at[w] = "connecting"
    /\ Goes(w, "done")
    /\ said' = [said EXCEPT ![w] = "error"]
    /\ UNCHANGED <<goal, try, sent, result, row, plc, store, effected, apart, mishap>>

(* The session has its result and is closed. *)
Ends(w, how) ==
    /\ Goes(w, "closing")
    /\ result' = [result EXCEPT ![w] = how]
    /\ UNCHANGED try

(* Whatever is not a status of the server moves on to the next node id. *)
NextId(w) ==
    IF try[w] < NodeIds
    THEN Goes(w, "trying") /\ try' = [try EXCEPT ![w] = @ + 1] /\ UNCHANGED result
    ELSE Ends(w, "failed")

(* The current value is read for its type: the write is sent, or the server *)
(* answers with an error status (it does not know the node, or its value is *)
(* bad), or the read times out or the value cannot be cast.                 *)
Read(w) ==
    /\ at[w] = "trying"
    /\ \/ /\ try[w] \in {1, 3}
          /\ sent' = sent \cup {<<w, try[w]>>}
          /\ Goes(w, "sent")
          /\ UNCHANGED <<try, result>>
       \/ Ends(w, "failed") /\ UNCHANGED sent
       \/ NextId(w) /\ UNCHANGED sent
    /\ UNCHANGED <<goal, row, said, plc, store, effected, apart, mishap>>

(* The server carries the write out. *)
Perform(w) ==
    /\ \E n \in 1 .. NodeIds : <<w, n>> \in sent /\ sent' = sent \ {<<w, n>>}
    /\ plc' = [plc EXCEPT ![goal[w]] = w]
    /\ effected' = effected \cup {w}
    /\ UNCHANGED <<at, goal, try, result, row, said, store, apart, mishap>>

(* Mutant: the write is not waited for. *)
Slip_Performed(w) == TRUE

Performed(w) == <<w, try[w]>> \notin sent

Reply(w) ==
    /\ at[w] = "sent" /\ Performed(w)
    /\ Ends(w, "ok")
    /\ UNCHANGED <<goal, sent, row, said, plc, store, effected, apart, mishap>>

Reject(w) ==
    /\ at[w] = "sent" /\ ~Performed(w)
    /\ sent' = sent \ {<<w, try[w]>>}
    /\ Ends(w, "failed")
    /\ UNCHANGED <<goal, row, said, plc, store, effected, apart, mishap>>

TimeOut(w) ==
    /\ at[w] = "sent"
    /\ NextId(w)
    /\ Mishap(w, "timed out")
    /\ UNCHANGED <<goal, sent, row, said, plc, store, effected, apart>>

Close(w) ==
    /\ at[w] = "closing"
    /\ Goes(w, "recording")
    /\ UNCHANGED <<goal, try, sent, result, row, said, plc, store, effected, apart, mishap>>

(* The disconnect raises: the result is lost, an error and no row. *)
CloseFails(w) ==
    /\ at[w] = "closing"
    /\ Goes(w, "done")
    /\ said' = [said EXCEPT ![w] = "error"]
    /\ Mishap(w, "close failed")
    /\ UNCHANGED <<goal, try, sent, result, row, plc, store, effected, apart>>

(* Mutant: a failing insert is passed over. *)
Slip_Fallback(w) == UNCHANGED <<row, mishap>>

(* The line of the fallback file, when the insert fails. *)
Fallback(w) ==
    \/ row' = [row EXCEPT ![w] = result[w]] /\ UNCHANGED mishap
    \/ Mishap(w, "log lost") /\ UNCHANGED row

Record(w) ==
    /\ at[w] = "recording"
    /\ Goes(w, "done")
    /\ \/ row' = [row EXCEPT ![w] = result[w]] /\ UNCHANGED mishap
       \/ Fallback(w)
    /\ said' = [said EXCEPT ![w] = result[w]]
    /\ UNCHANGED <<goal, try, sent, result, plc, store, effected, apart>>

Write(w) ==
    \/ Connect(w) \/ ConnectFails(w) \/ Read(w) \/ Perform(w) \/ Reply(w) \/ Reject(w)
    \/ TimeOut(w) \/ Close(w) \/ CloseFails(w) \/ Record(w)

Input ==
    \/ Edit /\ UNCHANGED writing
    \/ \E w \in Writes, k \in Keys : (WriteVirtual(w, k) \/ Open(w, k)) /\ UNCHANGED catalogVars

Next ==
    \/ inputs < MaxInputs /\ inputs' = inputs + 1 /\ Input
    \/ Shows /\ UNCHANGED <<writing, inputs>>
    \/ (\E w \in Writes : Write(w)) /\ UNCHANGED <<catalogVars, inputs>>

Spec == Init /\ [][Next]_vars

-----------------------------------------------------------------------------
(* The write log tells what was written: a row says "ok" for a write that   *)
(* took effect, and a write that took effect has one when its request is    *)
(* over.  The exceptions: a write that timed out and was carried out all    *)
(* the same, a session whose closing failed, a store that was not saved,    *)
(* and a log that could be written neither way.                             *)
LogTellsTruth ==
    \A w \in Writes : Over(w) =>
        /\ row[w] = "ok" => w \in effected \/ "store not saved" \in mishap[w]
        /\ w \in effected =>
              row[w] = "ok" \/ mishap[w] \cap {"timed out", "close failed", "log lost"} # {}

(* What a tag holds was not put there by a request that was over before the *)
(* last successful write of the tag began: nothing old comes back late,     *)
(* with one exception, a write that had timed out.                          *)
NewestStands ==
    \A w \in Writes : said[w] = "ok" /\ goal[w][2] \notin Virtual =>
        \A v \in apart[w] :
            plc[goal[w]] = v => "timed out" \in mishap[v]
=============================================================================
