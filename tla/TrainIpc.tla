------------------------------ MODULE TrainIpc ------------------------------
(***************************************************************************)
(* Training a failure model: POST /api/failures/train in the admin         *)
(* container (admin/routes/failure_routes.py) and the predictor in the ml  *)
(* container (ml/predictive_maintenance.py, the loop of ml/predictor.py)   *)
(* talk through two files on a shared volume, .train-request.json and      *)
(* .train-result.json.  Both sides write a file in place: opened, it is    *)
(* empty until it is closed, and what is written to a file that has been   *)
(* unlinked in between is lost.                                            *)
(*                                                                         *)
(* A call is one POST, in either of the two uvicorn processes: calls       *)
(* interleave with each other as well as with the predictor.  (Two calls   *)
(* of one process do so less: it runs one of them from await to await.)    *)
(* Time is left out: the predictor may sleep, and a call may give up after *)
(* its five minutes, at any time.                                          *)
(***************************************************************************)
EXTENDS Naturals

CONSTANTS Calls, Pairs,
          PairOf,       \* PairOf[k]: the failure type and device call k asks for
          Nothing,      \* no such file, no such row
          Garbled,      \* a file opened for writing and not yet closed
          Nobody,       \* no call
          MaxCrashes    \* bound: crashes of either container

ASSUME IpcAssumption ==
    /\ PairOf \in [Calls -> Pairs]
    /\ Nobody \notin Calls /\ Nothing \notin Calls /\ Garbled \notin Calls
    /\ Nothing # Garbled
    /\ Calls \cap {"none", "timeout", "error", "dead"} = {}
    /\ MaxCrashes \in Nat

\* A training that went well had a request.
Results == {r \in [job : Calls \cup {Nobody}, ok : BOOLEAN] : r.ok => r.job \in Calls}

VARIABLES
    request,    \* .train-request.json: Nothing, Garbled, or the call it names
    result,     \* .train-result.json
    step,       \* step[k]: the next step of call k
    unlinked,   \* calls whose request file, still open, has been unlinked
    answer,     \* answer[k]: what the call returns
    pc,         \* the next step of the predictor
    current,    \* the request it works on, Nobody if it could not be read
    ok,         \* whether the training went well
    model,      \* model[p]: the model file of p: Nothing, Garbled, or who had it trained
    active,     \* active[p]: the rows of failure_models with status 'active'
    crashes,
    (* observation only *)
    trained,    \* trained[k]: trainings begun for k, 2 for two or more
    answeredCalls, \* calls whose result has been written
    before,     \* before[k]: those when k began
    torn        \* pairs whose last training did not reach its commit

files   == <<request, result>>
calls   == <<step, unlinked, answer>>
work    == <<pc, current, ok>>
models  == <<model, active>>
ghosts  == <<trained, answeredCalls, before, torn>>
trainVars == <<files, calls, work, models, crashes, ghosts>>

CallSteps == {"new", "write", "look", "delete", "wait", "read", "take", "done"}
Outcomes == {"none", "timeout", "error", "dead"} \cup Calls

TrainTypeOK ==
    /\ request \in Calls \cup {Nothing, Garbled}
    /\ result \in Results \cup {Nothing, Garbled}
    /\ step \in [Calls -> CallSteps] /\ unlinked \subseteq Calls
    /\ answer \in [Calls -> Outcomes]
    /\ pc \in {"check", "consume", "train", "dump", "commit", "open", "write", "analyse"}
    /\ current \in Calls \cup {Nobody} /\ ok \in BOOLEAN
    /\ pc \in {"consume", "train", "dump", "commit"} \/ (pc \in {"open", "write"} /\ ok)
          => current \in Calls
    /\ model \in [Pairs -> Calls \cup {Nothing, Garbled}]
    /\ active \in [Pairs -> SUBSET Calls]
    /\ crashes \in 0..MaxCrashes
    /\ trained \in [Calls -> 0..2]
    /\ answeredCalls \subseteq Calls /\ before \in [Calls -> SUBSET Calls]
    /\ torn \subseteq Pairs

TrainInit ==
    /\ request = Nothing /\ result = Nothing
    /\ step = [k \in Calls |-> "new"] /\ unlinked = {}
    /\ answer = [k \in Calls |-> "none"]
    /\ pc = "check" /\ current = Nobody /\ ok = TRUE
    /\ model = [p \in Pairs |-> Nothing] /\ active = [p \in Pairs |-> {}]
    /\ crashes = 0
    /\ trained = [k \in Calls |-> 0] /\ answeredCalls = {} /\ before = [k \in Calls |-> {}]
    /\ torn = {}

-----------------------------------------------------------------------------
(* The call.                                                               *)

Step(k, from, to) == step[k] = from /\ step' = [step EXCEPT ![k] = to]

Return(k, what) == answer' = [answer EXCEPT ![k] = what]

\* The request file is opened, over whatever request it held.
OpenRequest(k) ==
    /\ Step(k, "new", "write")
    /\ request' = Garbled
    /\ before' = [before EXCEPT ![k] = answeredCalls]
    /\ UNCHANGED <<result, unlinked, answer, work, models, crashes, trained, answeredCalls, torn>>

\* If the predictor has unlinked the file since, nobody will read it.  If another call
\* has written to it since, the longer request keeps its end.
WriteRequest(k) ==
    /\ Step(k, "write", "look")
    /\ request' \in IF k \in unlinked THEN {request}
                    ELSE IF request = Garbled THEN {k}
                    ELSE {k, Garbled}
    /\ unlinked' = unlinked \ {k}
    /\ UNCHANGED <<result, answer, work, models, crashes, ghosts>>

\* os.path.exists, then os.unlink, which fails if another call has unlinked the file.
FindOld(k) ==
    /\ Step(k, "look", IF result = Nothing THEN "wait" ELSE "delete")
    /\ UNCHANGED <<files, unlinked, answer, work, models, crashes, ghosts>>

\* Slips, here and below, are for the mutation check.
Slip_DeleteOld(k) ==
    /\ Step(k, "delete", "wait")
    /\ UNCHANGED <<files, unlinked, answer, work, models, crashes, ghosts>>

DeleteOld(k) ==
    /\ \/ result = Nothing /\ Step(k, "delete", "done") /\ Return(k, "error")
       \/ result # Nothing /\ Step(k, "delete", "wait") /\ UNCHANGED answer
    /\ result' = Nothing
    /\ UNCHANGED <<request, unlinked, work, models, crashes, ghosts>>

FindResult(k) ==
    /\ result # Nothing
    /\ Step(k, "wait", "read")
    /\ UNCHANGED <<files, unlinked, answer, work, models, crashes, ghosts>>

\* By now the file may be gone; and one that is not closed yet is not JSON.
ReadResult(k) ==
    /\ \/ /\ result \in {Nothing, Garbled}
          /\ Step(k, "read", "done") /\ Return(k, "error")
       \/ /\ result \notin {Nothing, Garbled}
          /\ Step(k, "read", "take")
          /\ Return(k, IF result.ok THEN result.job ELSE "error")
    /\ UNCHANGED <<files, unlinked, work, models, crashes, ghosts>>

\* Here too another call may have been faster.
TakeResult(k) ==
    /\ Step(k, "take", "done")
    /\ IF result = Nothing THEN Return(k, "error") ELSE UNCHANGED answer
    /\ result' = Nothing
    /\ UNCHANGED <<request, unlinked, work, models, crashes, ghosts>>

GiveUp(k) ==
    /\ result = Nothing
    /\ Step(k, "wait", "done") /\ Return(k, "timeout")
    /\ UNCHANGED <<files, unlinked, work, models, crashes, ghosts>>

-----------------------------------------------------------------------------
(* The predictor: check_train_requests at the start of each cycle.         *)

At(from, to) == pc = from /\ pc' = to

Slip_CheckWhenAnswerTaken ==
    /\ \/ /\ request = Nothing \/ result # Nothing
          /\ At("check", "analyse")
          /\ UNCHANGED <<current, ok>>
       \/ /\ request = Garbled /\ result = Nothing /\ At("check", "open")
          /\ ok' = FALSE /\ UNCHANGED current
       \/ /\ request \in Calls /\ result = Nothing /\ At("check", "consume")
          /\ current' = request /\ UNCHANGED ok
    /\ UNCHANGED <<files, calls, models, crashes, ghosts>>

\* A request file that is not closed yet fails to parse, and is left where it is.
Check ==
    /\ \/ /\ request = Nothing /\ At("check", "analyse")
          /\ UNCHANGED <<current, ok>>
       \/ /\ request = Garbled /\ At("check", "open")
          /\ ok' = FALSE /\ UNCHANGED current
       \/ /\ request \in Calls /\ At("check", "consume")
          /\ current' = request /\ UNCHANGED ok
    /\ UNCHANGED <<files, calls, models, crashes, ghosts>>

Slip_Consume ==
    /\ At("consume", "train")
    /\ UNCHANGED <<files, calls, current, ok, models, crashes, ghosts>>

\* By now the file may hold another request, or wait for one: that goes with it.
Consume ==
    /\ At("consume", "train")
    /\ request' = Nothing
    /\ unlinked' = {k \in Calls : step[k] = "write"}
    /\ UNCHANGED <<result, step, answer, current, ok, models, crashes, ghosts>>

Begun(k) == trained' = [trained EXCEPT ![k] = IF @ = 0 THEN 1 ELSE 2]

\* train_failure_model: too few events, no tags, no features ...
TrainFails ==
    /\ At("train", "open")
    /\ ok' = FALSE
    /\ Begun(current)
    /\ UNCHANGED <<files, calls, current, models, crashes, answeredCalls, before, torn>>

\* ... or a fitted model, dumped over the old one.
Train ==
    /\ At("train", "dump")
    /\ Begun(current)
    /\ model' = [model EXCEPT ![PairOf[current]] = Garbled]
    /\ torn' = torn \cup {PairOf[current]}
    /\ UNCHANGED <<files, calls, current, ok, active, crashes, answeredCalls, before>>

Dump ==
    /\ At("dump", "commit")
    /\ model' = [model EXCEPT ![PairOf[current]] = current]
    /\ UNCHANGED <<files, calls, current, ok, active, crashes, ghosts>>

Slip_Commit ==
    /\ At("commit", "open")
    /\ active' = [active EXCEPT ![PairOf[current]] = @ \cup {current}]
    /\ torn' = torn \ {PairOf[current]}
    /\ UNCHANGED <<files, calls, current, ok, model, crashes, trained, answeredCalls, before>>

\* The old rows become 'replaced' and the new one is inserted, in one transaction.
Commit ==
    /\ At("commit", "open")
    /\ active' = [active EXCEPT ![PairOf[current]] = {current}]
    /\ torn' = torn \ {PairOf[current]}
    /\ UNCHANGED <<files, calls, current, ok, model, crashes, trained, answeredCalls, before>>

CommitFails ==
    /\ At("commit", "open")
    /\ ok' = FALSE
    /\ UNCHANGED <<files, calls, current, models, crashes, ghosts>>

OpenResult ==
    /\ At("open", "write")
    /\ result' = Garbled
    /\ UNCHANGED <<request, calls, current, ok, models, crashes, ghosts>>

WriteResult ==
    /\ At("write", "analyse")
    /\ result' = IF result = Nothing THEN Nothing ELSE [job |-> current, ok |-> ok]
    /\ answeredCalls' = answeredCalls \cup ({current} \ {Nobody})
    /\ UNCHANGED <<request, calls, current, ok, models, crashes, trained, before, torn>>

\* The rest of the cycle, and the sleep, which changes none of this.
Analyse ==
    /\ At("analyse", "check")
    /\ current' = Nobody /\ ok' = TRUE
    /\ UNCHANGED <<files, calls, models, crashes, ghosts>>

-----------------------------------------------------------------------------
\* The ml container dies and starts again.
PredictorCrash ==
    /\ crashes < MaxCrashes
    /\ crashes' = crashes + 1
    /\ pc' = "check" /\ current' = Nobody /\ ok' = TRUE
    /\ UNCHANGED <<files, calls, models, ghosts>>

\* The admin container does, and its calls with it.
AdminCrash ==
    /\ crashes < MaxCrashes
    /\ crashes' = crashes + 1
    /\ LET Lost == {k \in Calls : step[k] \notin {"new", "done"}} IN
       /\ step' = [k \in Calls |-> IF k \in Lost THEN "done" ELSE step[k]]
       /\ answer' = [k \in Calls |-> IF k \in Lost THEN "dead" ELSE answer[k]]
    /\ unlinked' = {}
    /\ UNCHANGED <<files, work, models, ghosts>>

Predictor ==
    \/ Check \/ Consume \/ TrainFails \/ Train \/ Dump \/ Commit \/ CommitFails
    \/ OpenResult \/ WriteResult \/ Analyse

Call(k) ==
    \/ OpenRequest(k) \/ WriteRequest(k) \/ FindOld(k) \/ DeleteOld(k)
    \/ FindResult(k) \/ ReadResult(k) \/ TakeResult(k) \/ GiveUp(k)

TrainNext == Predictor \/ (\E k \in Calls : Call(k)) \/ PredictorCrash \/ AdminCrash

TrainSpec == TrainInit /\ [][TrainNext]_trainVars /\ WF_trainVars(Predictor)

-----------------------------------------------------------------------------
\* No request is trained twice, wherever the predictor dies: a training that failed
\* or was cut off is not begun again by itself.
AtMostOnce == \A k \in Calls : trained[k] <= 1

\* A call never returns a result that was there before it began, left over by a call
\* that had given up.
FreshAnswer == \A k \in Calls : answer[k] \in Calls => answer[k] \notin before[k]

\* The one active row of a pair describes the model file that predictions load, unless
\* the pair's last training was cut off between the file and the row.
RowDescribesModel ==
    \A p \in Pairs \ torn : active[p] = (IF model[p] = Nothing THEN {} ELSE {model[p]})

\* A request that is there is taken: no crash and no other call leaves it lying.
RequestTaken == \A k \in Calls : request = k ~> request # k

-----------------------------------------------------------------------------
(* The parts of the inductive invariant behind these: see FilesProofs.     *)

\* A request is worked on, and answered, only after it has been written.
AskedFirst ==
    \A k \in Calls : step[k] \in {"new", "write"} =>
        /\ request # k /\ current # k
        /\ trained[k] = 0 /\ k \notin answeredCalls

\* A request that is there, or has just been read, has not been trained.
WaitingIsUntrained ==
    /\ \A k \in Calls : request = k => trained[k] = 0 /\ k \notin answeredCalls
    /\ pc \in {"consume", "train"} => trained[current] = 0
    /\ pc # "analyse" /\ current \in Calls => current \notin answeredCalls
    /\ pc # "consume" => \A k \in Calls : request = k => current # k

\* A call has no answer before it has read one, and the result it may read was written
\* since it deleted the file.
ResultIsNew ==
    \A k \in Calls :
        /\ before[k] \subseteq answeredCalls
        /\ step[k] \in {"new", "write", "look", "delete", "wait", "read"} => answer[k] = "none"
        /\ step[k] \in {"wait", "read"} /\ result \notin {Nothing, Garbled}
           => result.job \notin before[k]

\* What the transaction inserts is what has been dumped.
CommitsWhatIsDumped ==
    /\ pc \in {"dump", "commit"} => PairOf[current] \in torn
    /\ pc = "commit" => model[PairOf[current]] = current
=============================================================================
