---------------------------- MODULE FilesProofs -----------------------------
(***************************************************************************)
(* Theorems about the files two processes share: the request and the       *)
(* result of a training (TrainIpc), then the users, the secrets, the failed *)
(* logins and the HMI screens of the admin processes (AdminFiles).         *)
(*                                                                         *)
(* Training, for any number of calls, pairs and crashes: the invariant     *)
(* follows a request, which is written once (AskedFirst), and what has been *)
(* trained is no longer there (WaitingIsUntrained).                        *)
(*                                                                         *)
(* The admin files, for any finite set of processes and any number of      *)
(* requests: what a process holds of a file is what it has read under the  *)
(* lock of that file, or the history says that it was overtaken.           *)
(***************************************************************************)
EXTENDS TrainIpc, AdminFiles, FiniteSetTheorems, TLAPS

-----------------------------------------------------------------------------
(* TrainIpc.                                                               *)

LEMMA InitTyped == TrainInit => TrainTypeOK
  BY IpcAssumption DEF TrainInit, TrainTypeOK, CallSteps, Outcomes

LEMMA StepTyped == TrainTypeOK /\ [TrainNext]_trainVars => TrainTypeOK'
<1> SUFFICES ASSUME TrainTypeOK, [TrainNext]_trainVars PROVE TrainTypeOK'
  OBVIOUS
<1> USE IpcAssumption DEF TrainTypeOK, files, calls, work, models, ghosts
<1>1. ASSUME NEW k \in Calls, Call(k) PROVE TrainTypeOK'
  <2> USE DEF CallSteps, Outcomes, Step
  <2>1. CASE OpenRequest(k)
    BY <2>1 DEF OpenRequest
  <2>2. CASE WriteRequest(k)
    BY <2>2 DEF WriteRequest
  <2>3. CASE FindOld(k) \/ DeleteOld(k) \/ FindResult(k)
    BY <2>3 DEF FindOld, DeleteOld, FindResult, Return
  <2>4. CASE ReadResult(k)
    BY <2>4 DEF ReadResult, Return, Results
  <2>5. CASE TakeResult(k)
    BY <2>5 DEF TakeResult, Return
  <2>6. CASE GiveUp(k)
    BY <2>6 DEF GiveUp, Return
  <2> QED
    BY <1>1, <2>1, <2>2, <2>3, <2>4, <2>5, <2>6 DEF Call
<1>2. CASE Predictor
  <2> USE DEF At
  <2>1. CASE Check
    BY <2>1 DEF Check
  <2>2. CASE Consume
    BY <2>2 DEF Consume
  <2>3. CASE TrainFails
    <3>1. trained' \in [Calls -> 0..2]
      BY <2>3 DEF TrainFails, Begun
    <3> QED
      BY <2>3, <3>1 DEF TrainFails
  <2>4. CASE Train
    BY <2>4 DEF Train, Begun
  <2>5. CASE Dump
    BY <2>5 DEF Dump
  <2>6. CASE Commit
    BY <2>6 DEF Commit
  <2>7. CASE CommitFails
    BY <2>7 DEF CommitFails
  <2>8. CASE OpenResult
    BY <2>8 DEF OpenResult
  <2>9. CASE WriteResult
    BY <2>9 DEF WriteResult, Results
  <2>10. CASE Analyse
    BY <2>10 DEF Analyse
  <2> QED
    BY <1>2, <2>1, <2>2, <2>3, <2>4, <2>5, <2>6, <2>7, <2>8, <2>9, <2>10 DEF Predictor
<1>3. CASE PredictorCrash
  BY <1>3 DEF PredictorCrash
<1>4. CASE AdminCrash
  BY <1>4 DEF AdminCrash, CallSteps, Outcomes
<1>5. CASE UNCHANGED trainVars
  BY <1>5 DEF trainVars
<1> QED
  BY <1>1, <1>2, <1>3, <1>4, <1>5 DEF TrainNext

\* Every variable of the model keeps its type, and a current under way names a request.
THEOREM IpcTypes == TrainSpec => []TrainTypeOK
  BY InitTyped, StepTyped, PTL DEF TrainSpec

-----------------------------------------------------------------------------
(* At most one training per request, and one answer.                       *)

OnceInv == AskedFirst /\ WaitingIsUntrained /\ AtMostOnce

LEMMA InitOnce == TrainInit => OnceInv
  BY IpcAssumption DEF TrainInit, OnceInv, AskedFirst, WaitingIsUntrained, AtMostOnce

LEMMA StepOnce == TrainTypeOK /\ OnceInv /\ [TrainNext]_trainVars => OnceInv'
<1> SUFFICES ASSUME TrainTypeOK, OnceInv, [TrainNext]_trainVars PROVE OnceInv'
  OBVIOUS
<1> USE IpcAssumption
    DEF TrainTypeOK, OnceInv, AskedFirst, WaitingIsUntrained, AtMostOnce, files, calls, work,
        models, ghosts
<1>1. ASSUME NEW k \in Calls, Call(k) PROVE OnceInv'
  <2> USE DEF Step
  <2>1. CASE OpenRequest(k)
    BY <2>1 DEF OpenRequest
  <2>2. CASE WriteRequest(k)
    BY <2>2 DEF WriteRequest
  <2>3. CASE \/ FindOld(k) \/ DeleteOld(k) \/ FindResult(k)
             \/ ReadResult(k) \/ TakeResult(k) \/ GiveUp(k)
    BY <2>3 DEF FindOld, DeleteOld, FindResult, ReadResult, TakeResult, GiveUp
  <2> QED
    BY <1>1, <2>1, <2>2, <2>3 DEF Call
<1>2. CASE Predictor
  <2> USE DEF At
  <2>1. CASE Check
    BY <2>1 DEF Check
  <2>2. CASE Consume
    BY <2>2 DEF Consume
  <2>3. CASE TrainFails \/ Train
    BY <2>3 DEF TrainFails, Train, Begun
  <2>4. CASE Dump \/ Commit \/ CommitFails \/ OpenResult
    BY <2>4 DEF Dump, Commit, CommitFails, OpenResult
  <2>5. CASE WriteResult
    BY <2>5 DEF WriteResult
  <2>6. CASE Analyse
    BY <2>6 DEF Analyse
  <2> QED
    BY <1>2, <2>1, <2>2, <2>3, <2>4, <2>5, <2>6 DEF Predictor
<1>3. CASE PredictorCrash
  BY <1>3 DEF PredictorCrash
<1>4. CASE AdminCrash
  BY <1>4 DEF AdminCrash
<1>5. CASE UNCHANGED trainVars
  BY <1>5 DEF trainVars
<1> QED
  BY <1>1, <1>2, <1>3, <1>4, <1>5 DEF TrainNext

LEMMA OnceInvariant == TrainSpec => [](TrainTypeOK /\ OnceInv)
  BY InitTyped, StepTyped, InitOnce, StepOnce, PTL DEF TrainSpec

\* No request is trained twice, wherever either side dies.
THEOREM TrainedOnce == TrainSpec => []AtMostOnce
<1>1. OnceInv => AtMostOnce
  BY DEF OnceInv
<1> QED
  BY OnceInvariant, <1>1, PTL

-----------------------------------------------------------------------------
(* What a call returns, and what a pair's row says.                        *)

AnswerInv == ResultIsNew /\ FreshAnswer

LEMMA InitAnswer == TrainInit => AnswerInv
  BY IpcAssumption DEF TrainInit, AnswerInv, ResultIsNew, FreshAnswer

LEMMA StepAnswer == TrainTypeOK /\ OnceInv /\ AnswerInv /\ [TrainNext]_trainVars => AnswerInv'
<1> SUFFICES ASSUME TrainTypeOK, OnceInv, AnswerInv, [TrainNext]_trainVars PROVE AnswerInv'
  OBVIOUS
<1>0. /\ step \in [Calls -> CallSteps] /\ answer \in [Calls -> Outcomes]
      /\ before \in [Calls -> SUBSET Calls] /\ answeredCalls \subseteq Calls
      /\ current \in Calls \cup {Nobody}
      /\ result \notin {Nothing, Garbled} /\ result.ok => result.job \in Calls
  BY DEF TrainTypeOK, Results
<1> USE IpcAssumption, <1>0
    DEF AnswerInv, ResultIsNew, FreshAnswer, files, calls, work, models, ghosts
<1>1. ASSUME NEW k \in Calls, Call(k) PROVE AnswerInv'
  <2>1. CASE OpenRequest(k)
    <3>1. /\ before'[k] = answeredCalls /\ answeredCalls' = answeredCalls /\ result' = result
          /\ answer' = answer /\ step'[k] = "write"
      BY <2>1 DEF OpenRequest, Step
    <3>2. \A j \in Calls : j # k => before'[j] = before[j] /\ step'[j] = step[j]
      BY <2>1 DEF OpenRequest, Step
    <3>3. answer[k] \notin Calls
      BY <2>1 DEF OpenRequest, Step
    <3>4. ResultIsNew'
      BY <3>1, <3>2, <2>1 DEF OpenRequest, Step
    <3>5. FreshAnswer'
      BY <3>1, <3>2, <3>3
    <3> QED
      BY <3>4, <3>5
  <2>2. CASE WriteRequest(k)
    BY <2>2 DEF WriteRequest, Step
  <2>3. CASE FindOld(k) \/ FindResult(k)
    BY <2>3 DEF FindOld, FindResult, Step
  <2>7. CASE DeleteOld(k)
    BY <2>7 DEF DeleteOld, Return, Step
  <2>4. CASE ReadResult(k)
    BY <2>4 DEF ReadResult, Return, Step
  <2>5. CASE TakeResult(k)
    BY <2>5 DEF TakeResult, Return, Step
  <2>6. CASE GiveUp(k)
    BY <2>6 DEF GiveUp, Return, Step
  <2> QED
    BY <1>1, <2>1, <2>2, <2>3, <2>4, <2>5, <2>6, <2>7 DEF Call
<1>2. CASE Predictor
  <2>1. CASE WriteResult
    BY <2>1 DEF WriteResult, At, OnceInv, WaitingIsUntrained
  <2>2. CASE OpenResult
    BY <2>2 DEF OpenResult
  <2> QED
    BY <1>2, <2>1, <2>2
       DEF Predictor, Check, Consume, TrainFails, Train, Dump, Commit, CommitFails, Analyse,
           Begun
<1>3. CASE PredictorCrash
  BY <1>3 DEF PredictorCrash
<1>4. CASE AdminCrash
  BY <1>4 DEF AdminCrash
<1>5. CASE UNCHANGED trainVars
  BY <1>5 DEF trainVars
<1> QED
  BY <1>1, <1>2, <1>3, <1>4, <1>5 DEF TrainNext

\* A call never returns a result that was there before it began.
THEOREM AnswersAreFresh == TrainSpec => []FreshAnswer
<1>1. AnswerInv => FreshAnswer
  BY DEF AnswerInv
<1> QED
  BY OnceInvariant, InitAnswer, StepAnswer, <1>1, PTL DEF TrainSpec

ModelInv == CommitsWhatIsDumped /\ RowDescribesModel

LEMMA InitModel == TrainInit => ModelInv
  BY DEF TrainInit, ModelInv, CommitsWhatIsDumped, RowDescribesModel

LEMMA StepModel == TrainTypeOK /\ ModelInv /\ [TrainNext]_trainVars => ModelInv'
<1> SUFFICES ASSUME TrainTypeOK, ModelInv, [TrainNext]_trainVars PROVE ModelInv'
  OBVIOUS
<1> USE IpcAssumption
    DEF TrainTypeOK, ModelInv, CommitsWhatIsDumped, RowDescribesModel, files, calls, work, models,
        ghosts
<1>1. ASSUME NEW k \in Calls, Call(k) PROVE ModelInv'
  BY <1>1
     DEF Call, OpenRequest, WriteRequest, FindOld, DeleteOld, FindResult, ReadResult,
         TakeResult, GiveUp
<1>2. CASE Predictor
  <2> USE DEF At
  <2>1. CASE Train
    BY <2>1 DEF Train
  <2>2. CASE Dump
    <3>1. PairOf[current] \in torn /\ PairOf[current] \in Pairs
      BY <2>2 DEF Dump
    <3>2. CommitsWhatIsDumped'
      BY <2>2, <3>1 DEF Dump
    <3>3. \A p \in Pairs \ torn' : p # PairOf[current] /\ model'[p] = model[p] /\ active'[p] = active[p]
      BY <2>2, <3>1 DEF Dump
    <3> QED
      BY <2>2, <3>2, <3>3 DEF Dump
  <2>3. CASE Commit
    <3>1. /\ model' = model /\ pc' = "open" /\ torn' = torn \ {PairOf[current]}
          /\ model[PairOf[current]] = current /\ current \in Calls /\ PairOf[current] \in Pairs
      BY <2>3 DEF Commit
    <3>2. CommitsWhatIsDumped'
      BY <3>1
    <3>3. active'[PairOf[current]] = {current} /\ current # Nothing
      BY <2>3, <3>1 DEF Commit
    <3>4. \A p \in Pairs \ torn : p # PairOf[current] => active'[p] = active[p]
      BY <2>3 DEF Commit
    <3> QED
      BY <3>1, <3>2, <3>3, <3>4
  <2> QED
    BY <1>2, <2>1, <2>2, <2>3
       DEF Predictor, Check, Consume, TrainFails, CommitFails, OpenResult, WriteResult, Analyse
<1>3. CASE PredictorCrash
  BY <1>3 DEF PredictorCrash
<1>4. CASE AdminCrash
  BY <1>4 DEF AdminCrash
<1>5. CASE UNCHANGED trainVars
  BY <1>5 DEF trainVars
<1> QED
  BY <1>1, <1>2, <1>3, <1>4, <1>5 DEF TrainNext

\* The active row of a pair describes the model that predictions load, unless the pair's
\* last training was cut off.
THEOREM RowsDescribeModels == TrainSpec => []RowDescribesModel
<1>1. ModelInv => RowDescribesModel
  BY DEF ModelInv
<1> QED
  BY InitTyped, StepTyped, InitModel, StepModel, <1>1, PTL DEF TrainSpec

-----------------------------------------------------------------------------
(* AdminFiles.                                                             *)

Node == [born : Nat \ {0}, id : Int, level : Nat, under : SUBSET Nat,
         name : {"own", "demo"}, mark : Nat]
Tree == SUBSET Node
Record == [count : Nat, until : Nat]

Login == [at : {"none", "load", "loaded", "opened"}, addr : Addrs \cup {"none"},
          good : BOOLEAN, crossed : BOOLEAN, data : [Addrs -> Record]]
Request == [at : {"none", "open", "write", "replace"}, tree : Tree, drop : Tree, add : Tree,
            fd : Files \cup {0}, crossed : BOOLEAN]

ProcessTypes ==
    /\ boot \in [Procs -> {"down", "making", "writing", "secret", "up"}]
    /\ loop \in [Procs -> {"free", "login", "screens"}]
    /\ inputs \in Nat

CredentialTypes ==
    /\ envSecret \in Nat /\ secretFile \in Nat /\ made \in Nat
    /\ credFile \in Passwords \cup {"env"}
    /\ memory \in [Procs -> [secret : Nat, password : Passwords \cup {"env"}]]
    /\ strayed \in [Procs -> SUBSET {"secret", "unsaved", "password"}]

LoginTypes ==
    /\ failFile \in [cut : BOOLEAN, of : [Addrs -> Record]]
    /\ login \in [Procs -> Login]
    /\ now \in Nat
    /\ since \in [Addrs -> Nat] /\ last \in [Addrs -> Nat]
    /\ suspect \in SUBSET Addrs

UserTypes ==
    /\ users \in [Users -> Nat]
    /\ job \in [Jobs -> [at : {"new", "asked", "loaded", "refused", "done", "lost"},
                         kind : {"none", "add", "set", "remove"}, user : Users,
                         data : [Users -> Nat]]]

ScreenTypes ==
    /\ file \in Files \cup {0} /\ tmp \in Files \cup {0}
    /\ content \in [Files -> Tree \cup {Cut}]
    /\ screen \in [Procs -> Request]
    /\ page \in [Pages -> Tree]
    /\ edits \in Nat
    /\ raced \in BOOLEAN

Types == ProcessTypes /\ CredentialTypes /\ LoginTypes /\ UserTypes /\ ScreenTypes

(* The handler an event loop is in. *)
LoopKept ==
    \A p \in Procs :
        /\ ~LoginAt(p, "none") => loop[p] = "login"
        /\ Active(p) => loop[p] = "screens"

(* One process at most makes a secret unmarked, and then nobody else has one. *)
SecretKept ==
    \A p \in Procs : boot[p] # "down" =>
        /\ memory[p].secret # 0
        /\ "secret" \notin strayed[p] /\ "unsaved" \notin strayed[p] =>
              /\ \A q \in Procs \ {p} : boot[q] \notin Making
              /\ IF boot[p] \in Making THEN InForce = 0 ELSE memory[p].secret = InForce

PasswordKept ==
    \A p \in Procs : Up(p) => Accepts(p) = credFile \/ "password" \in strayed[p]

Holds(p) == login[p].at \in {"loaded", "opened"}

(* What a record says of an address is what the history says. *)
Counts(record, a) ==
    /\ record.count = since[a]
    /\ since[a] >= MaxAttempts => record.until >= last[a] + Lockout

FailuresKept ==
    /\ \A p \in Procs : ~LoginAt(p, "none") => login[p].addr \in Addrs
    /\ \A p, q \in Procs : p # q /\ Holds(p) /\ Holds(q) => suspect = Addrs
    /\ \A p \in Procs : login[p].crossed => LoginAt(p, "opened") /\ suspect = Addrs
    /\ \A a \in Addrs \ suspect :
          /\ \A p \in Procs : Holds(p) => Counts(login[p].data[a], a)
          /\ (\A p \in Procs : ~LoginAt(p, "opened")) =>
                ~failFile.cut /\ Counts(failFile.of[a], a)

JobsKept ==
    /\ users = wanted
    /\ \A i \in Jobs : JobAt(i, "loaded") => job[i].data = users
    /\ \A i, j \in Jobs : JobAt(i, "loaded") /\ JobAt(j, "loaded") => i = j

(* The tree a request will leave. *)
Fits(p) == screen[p].tree = (Load \ screen[p].drop) \cup screen[p].add

TreeKept ==
    /\ tmp = 0 \/ tmp # file
    /\ ~raced =>
          /\ answered \subseteq Load
          /\ \A p, q \in Procs : Active(p) /\ Active(q) => p = q
          /\ \A p \in Procs : Active(p) =>
                /\ Fits(p)
                /\ ScreenAt(p, "replace") \/ ~screen[p].crossed
                /\ ScreenAt(p, "write") => screen[p].fd = tmp /\ tmp # 0
                /\ ScreenAt(p, "replace") => tmp # 0 /\ content[tmp] = screen[p].tree
LEMMA Assumed ==
  /\ IsFiniteSet(Procs) /\ MaxInputs \in Nat
  /\ MaxAttempts \in Nat \ {0} /\ Lockout \in Nat \ {0} /\ MaxTime \in Nat
  /\ "env" \notin Passwords /\ Admin \in Users
  /\ Levels \in Nat \ {0}
  BY ProcessAssumption, AccountsAssumption, ScreensAssumption
     DEF ProcessAssumption, AccountsAssumption, ScreensAssumption

-----------------------------------------------------------------------------
(* What the steps of one part leave alone. *)

LEMMA ScreensSteps ==
  ASSUME ScreensNext
  PROVE  /\ UNCHANGED boot
         /\ \/ UNCHANGED loop
            \/ \E p \in Procs : Free(p) /\ Takes(p, "screens")
            \/ \E p \in Procs : ScreenAt(p, "replace") /\ Leaves(p)
  BY DEF ScreensNext, Show, CreatePlant, CreateChild, Update, Delete, LoadDemo, PutTree, Edit,
         OpenTmp, WriteTmp, Replace, ReplaceFails, Answer, processVars

LEMMA CredentialSteps ==
  ASSUME [Next]_vars
  PROVE  \/ \E p \in Procs :
               \/ LoadSecret(p) \/ OpenSecret(p) \/ WriteSecret(p) \/ SecretUnsaved(p)
               \/ LoadCredentials(p)
               \/ \E new \in Passwords : ChangePassword(p, new)
         \/ UNCHANGED <<credentialVars, boot>>
         \/ Crash
<1>1. CASE AccountsNext
  BY <1>1 DEF AccountsNext, Attempt, LoadFailures, OpenFailures, WriteFailures, AskUser,
              LoadUsers, SaveUsers, Tick, processVars
<1>2. CASE ScreensNext /\ UNCHANGED accountVars
  BY <1>2, ScreensSteps DEF accountVars
<1> QED
  BY <1>1, <1>2 DEF Next, vars, accountVars, processVars

LEMMA LoginSteps ==
  ASSUME [Next]_vars
  PROVE  \/ \E p \in Procs :
               \/ LoadFailures(p) \/ OpenFailures(p) \/ WriteFailures(p)
               \/ \E a \in Addrs, good \in BOOLEAN : Attempt(p, a, good)
         \/ Tick
         \/ UNCHANGED loginVars
         \/ Crash
<1>1. CASE AccountsNext
  BY <1>1 DEF AccountsNext, LoadSecret, OpenSecret, WriteSecret, SecretUnsaved, LoadCredentials,
              ChangePassword,
              AskUser, LoadUsers, SaveUsers
<1> QED
  BY <1>1 DEF Next, vars, accountVars

LEMMA UserSteps ==
  ASSUME [Next]_vars
  PROVE  \/ \E j \in Jobs :
               \/ LoadUsers(j) \/ SaveUsers(j)
               \/ \E kind \in {"add", "set", "remove"}, u \in Users : AskUser(j, kind, u)
         \/ UNCHANGED userVars
         \/ Crash
<1>1. CASE AccountsNext
  BY <1>1 DEF AccountsNext, LoadSecret, OpenSecret, WriteSecret, SecretUnsaved, LoadCredentials,
              ChangePassword,
              Attempt, LoadFailures, OpenFailures, WriteFailures, Tick
<1> QED
  BY <1>1 DEF Next, vars, accountVars

-----------------------------------------------------------------------------
(* OPC-UA users *)

LEMMA UsersInvariant == Spec => [](UserTypes /\ JobsKept)
<1> USE DEF UserTypes, JobsKept, JobAt, NoJob
<1>1. Init => UserTypes /\ JobsKept
  BY Assumed DEF Init, AccountsInit
<1>2. UserTypes /\ JobsKept /\ [Next]_vars => UserTypes' /\ JobsKept'
  <2> SUFFICES ASSUME UserTypes, JobsKept, [Next]_vars PROVE UserTypes' /\ JobsKept'
    OBVIOUS
  <2>1. ASSUME NEW j \in Jobs, NEW kind \in {"add", "set", "remove"}, NEW u \in Users,
               AskUser(j, kind, u)
        PROVE  UserTypes' /\ JobsKept'
    BY <2>1, Assumed DEF AskUser
  <2>2. ASSUME NEW j \in Jobs, LoadUsers(j) PROVE UserTypes' /\ JobsKept'
    <3>1. UserTypes'
      <4>1. CASE job' = [job EXCEPT ![j].at = "loaded", ![j].data = users]
        <5>1. [job[j] EXCEPT !.at = "loaded", !.data = users] \in
                 [at : {"new", "asked", "loaded", "refused", "done", "lost"},
                  kind : {"none", "add", "set", "remove"}, user : Users, data : [Users -> Nat]]
          OBVIOUS
        <5>2. job' = [job EXCEPT ![j] = [job[j] EXCEPT !.at = "loaded", !.data = users]]
          BY <4>1
        <5> QED
          BY <2>2, <5>1, <5>2 DEF LoadUsers
      <4>2. CASE JobGoes(j, "refused")
        BY <2>2, <4>2 DEF LoadUsers, JobGoes
      <4> QED
        BY <2>2, <4>1, <4>2 DEF LoadUsers
    <3>2. UNCHANGED <<users, wanted>> /\ \A i \in Jobs \ {j} : job'[i] = job[i] /\ ~JobAt(i, "loaded")
      BY <2>2 DEF LoadUsers, PasswordLock, JobGoes, userVars
    <3>3. job'[j].at = "loaded" => job'[j].data = users
      BY <2>2 DEF LoadUsers, JobGoes
    <3> QED
      BY <3>1, <3>2, <3>3
  <2>3. ASSUME NEW j \in Jobs, SaveUsers(j) PROVE UserTypes' /\ JobsKept'
    <3>1. Changed(job[j].data, j) = Changed(wanted, j)
      BY <2>3 DEF SaveUsers
    <3>2. users' \in [Users -> Nat]
      BY <2>3 DEF SaveUsers, Changed
    <3> QED
      BY <2>3, <3>1, <3>2 DEF SaveUsers, JobGoes
  <2>4. CASE UNCHANGED userVars
    BY <2>4 DEF userVars
  <2>5. CASE Crash
    BY <2>5 DEF Crash, AccountsCrash
  <2> QED
    BY <2>1, <2>2, <2>3, <2>4, <2>5, UserSteps
<1> QED
  BY <1>1, <1>2, PTL DEF Spec

(* The file of OPC-UA users holds every change that was answered. *)
THEOREM UsersAreKept == Spec => []UsersKept
<1>1. JobsKept => UsersKept
  BY DEF JobsKept, UsersKept
<1> QED
  BY <1>1, UsersInvariant, PTL

-----------------------------------------------------------------------------
(* The secret and the admin password *)

LEMMA LoopSteps ==
  ASSUME [Next]_vars
  PROVE  /\ UNCHANGED inputs \/ Input
         /\ \/ UNCHANGED loop
            \/ \E p \in Procs : Free(p) /\ (Takes(p, "screens") \/ Takes(p, "login"))
            \/ \E p \in Procs : (ScreenAt(p, "replace") \/ LoginAt(p, "opened")) /\ Leaves(p)
            \/ Crash
<1>1. CASE AccountsNext
  BY <1>1 DEF AccountsNext, LoadSecret, OpenSecret, WriteSecret, SecretUnsaved, LoadCredentials,
              ChangePassword,
              Attempt, LoadFailures, OpenFailures, WriteFailures, AskUser, LoadUsers, SaveUsers,
              Tick, processVars, userVars, loginVars
<1>2. CASE ScreensNext
  <2>1. UNCHANGED inputs \/ Input
    BY <1>2 DEF ScreensNext, Show, CreatePlant, CreateChild, Update, Delete, LoadDemo, PutTree,
                Edit, OpenTmp, WriteTmp, Replace, ReplaceFails, Answer, processVars
  <2> QED
    BY <1>2, <2>1, ScreensSteps
<1> QED
  BY <1>1, <1>2 DEF Next, vars, processVars, Crash, ProcessCrash

LEMMA CredentialTyping == Spec => [](ProcessTypes /\ CredentialTypes)
<1> USE DEF ProcessTypes, CredentialTypes
<1>1. Init => ProcessTypes /\ CredentialTypes
  BY DEF Init, ProcessInit, AccountsInit
<1>2. ProcessTypes /\ CredentialTypes /\ [Next]_vars => ProcessTypes' /\ CredentialTypes'
  <2> SUFFICES ASSUME ProcessTypes, CredentialTypes, [Next]_vars
               PROVE  ProcessTypes' /\ CredentialTypes'
    OBVIOUS
  <2>1. inputs' \in Nat /\ loop' \in [Procs -> {"free", "login", "screens"}]
    BY LoopSteps DEF Input, Takes, Leaves, Crash, ProcessCrash
  <2>2. ASSUME NEW p \in Procs, LoadSecret(p) PROVE CredentialTypes' /\ ProcessTypes'
    <3>1. boot' \in [Procs -> {"down", "making", "writing", "secret", "up"}]
      BY <2>2 DEF LoadSecret, Boots
    <3>2. strayed' \in [Procs -> SUBSET {"secret", "unsaved", "password"}]
      BY <2>2 DEF LoadSecret, InForce
    <3>3. /\ memory' \in [Procs -> [secret : Nat, password : Passwords \cup {"env"}]]
          /\ made' \in Nat
      <4>1. InForce \in Nat
        BY DEF InForce
      <4>2. CASE InForce # 0
        BY <2>2, <4>1, <4>2 DEF LoadSecret
      <4>3. CASE InForce = 0
        BY <2>2, <4>3 DEF LoadSecret
      <4> QED
        BY <4>2, <4>3
    <3> QED
      BY <2>1, <2>2, <3>1, <3>2, <3>3 DEF LoadSecret
  <2>3. ASSUME NEW p \in Procs,
               OpenSecret(p) \/ WriteSecret(p) \/ SecretUnsaved(p) \/ LoadCredentials(p)
        PROVE  CredentialTypes' /\ ProcessTypes'
    <3>1. CASE OpenSecret(p)
      BY <2>1, <3>1 DEF OpenSecret, Boots
    <3>2. CASE WriteSecret(p)
      BY <2>1, <3>2 DEF WriteSecret, Boots
    <3>3. CASE LoadCredentials(p)
      BY <2>1, <3>3 DEF LoadCredentials, Boots, Override
    <3>4. CASE SecretUnsaved(p)
      BY <2>1, <3>4 DEF SecretUnsaved, Boots
    <3> QED
      BY <2>3, <3>1, <3>2, <3>3, <3>4
  <2>4. ASSUME NEW p \in Procs, NEW new \in Passwords, ChangePassword(p, new)
        PROVE  CredentialTypes' /\ ProcessTypes'
    BY <2>1, <2>4 DEF ChangePassword
  <2>5. CASE UNCHANGED <<credentialVars, boot>>
    BY <2>1, <2>5 DEF credentialVars
  <2>6. CASE Crash
    BY <2>1, <2>6 DEF Crash, ProcessCrash, AccountsCrash, credentialVars
  <2> QED
    BY <2>2, <2>3, <2>4, <2>5, <2>6, CredentialSteps
<1> QED
  BY <1>1, <1>2, PTL DEF Spec

LEMMA CredentialsInvariant == Spec => [](SecretKept /\ PasswordKept)
<1>1. Init => SecretKept /\ PasswordKept
  BY DEF Init, ProcessInit, SecretKept, PasswordKept, Up
<1>2. /\ ProcessTypes /\ CredentialTypes /\ CredentialTypes' /\ SecretKept /\ PasswordKept
      /\ [Next]_vars
      => SecretKept' /\ PasswordKept'
  <2> SUFFICES ASSUME ProcessTypes, CredentialTypes, CredentialTypes', SecretKept, PasswordKept,
                      [Next]_vars
               PROVE  SecretKept' /\ PasswordKept'
    OBVIOUS
  <2> USE DEF ProcessTypes, CredentialTypes, SecretKept, PasswordKept, Up, Accepts, Boots, Making, InForce
  <2>1. ASSUME NEW p \in Procs, LoadSecret(p) PROVE SecretKept' /\ PasswordKept'
    <3>1. PasswordKept'
      BY <2>1 DEF LoadSecret
    <3>2. SecretKept'
      BY <2>1 DEF LoadSecret
    <3> QED
      BY <3>1, <3>2
  <2>2. ASSUME NEW p \in Procs, OpenSecret(p) PROVE SecretKept' /\ PasswordKept'
    BY <2>2 DEF OpenSecret
  <2>3. ASSUME NEW p \in Procs, WriteSecret(p) PROVE SecretKept' /\ PasswordKept'
    BY <2>3 DEF WriteSecret
  <2>4. ASSUME NEW p \in Procs, LoadCredentials(p) PROVE SecretKept' /\ PasswordKept'
    BY <2>4 DEF LoadCredentials, Override
  <2>8. ASSUME NEW p \in Procs, SecretUnsaved(p) PROVE SecretKept' /\ PasswordKept'
    BY <2>8 DEF SecretUnsaved
  <2>5. ASSUME NEW p \in Procs, NEW new \in Passwords, ChangePassword(p, new)
        PROVE  SecretKept' /\ PasswordKept'
    BY <2>5 DEF ChangePassword, Free
  <2>6. CASE UNCHANGED <<credentialVars, boot>>
    BY <2>6 DEF credentialVars
  <2>7. CASE Crash
    BY <2>7 DEF Crash, ProcessCrash
  <2> QED
    BY <2>1, <2>2, <2>3, <2>4, <2>5, <2>6, <2>7, <2>8, CredentialSteps
<1> QED
  BY <1>1, <1>2, CredentialTyping, PTL DEF Spec

(* A process signs and accepts by what the environment and the files say,   *)
(* also after a restart, but for the secret that could not be saved and the *)
(* two races named.                                                         *)
THEOREM OneCredentialStands == Spec => []OneCredential
<1>1. SecretKept /\ PasswordKept => OneCredential
  BY DEF SecretKept, PasswordKept, OneCredential, Up, Signs, Accepts, Making, InForce
<1> QED
  BY <1>1, CredentialsInvariant, PTL

-----------------------------------------------------------------------------
(* Typing of the logins and of the screens, and the handler of each loop *)

LEMMA LoginTyping == Spec => []LoginTypes
<1> USE DEF LoginTypes, Login, Record, NoLogin, NoRecords, NoRecord
<1>1. Init => LoginTypes
  BY DEF Init, AccountsInit
<1>2. LoginTypes /\ [Next]_vars => LoginTypes'
  <2> SUFFICES ASSUME LoginTypes, [Next]_vars PROVE LoginTypes'
    OBVIOUS
  <2>1. ASSUME NEW p \in Procs, NEW a \in Addrs, NEW good \in BOOLEAN, Attempt(p, a, good)
        PROVE  LoginTypes'
    BY <2>1 DEF Attempt
  <2>2. ASSUME NEW p \in Procs, LoadFailures(p) PROVE LoginTypes'
    <3>1. login[p] \in Login /\ (IF failFile.cut THEN NoRecords ELSE failFile.of) \in [Addrs -> Record]
      OBVIOUS
    <3>2. login'[p] \in Login
      BY <2>2, <3>1 DEF LoadFailures
    <3>3. login' \in [Procs -> Login]
      BY <2>2, <3>2 DEF LoadFailures
    <3> QED
      BY <2>2, <3>3 DEF LoadFailures
  <2>3. ASSUME NEW p \in Procs, OpenFailures(p) PROVE LoginTypes'
    <3>1. login'[p] \in Login
      <4>1. login[p] \in Login /\ login'[p] = [login[p] EXCEPT !.at = "opened"]
        BY <2>3 DEF OpenFailures
      <4> QED
        BY <4>1
    <3>2. login' \in [Procs -> Login]
      BY <2>3, <3>1 DEF OpenFailures
    <3>3. failFile' \in [cut : BOOLEAN, of : [Addrs -> Record]]
      BY <2>3 DEF OpenFailures
    <3> QED
      BY <2>3, <3>2, <3>3 DEF OpenFailures
  <2>4. ASSUME NEW p \in Procs, WriteFailures(p) PROVE LoginTypes'
    <3>1. \A q \in Procs : [login[q] EXCEPT !.crossed = @ \/ LoginAt(q, "opened")] \in Login
      <4>1. ASSUME NEW x \in Login, NEW b \in BOOLEAN PROVE [x EXCEPT !.crossed = x.crossed \/ b] \in Login
        OBVIOUS
      <4>2. ASSUME NEW q \in Procs
            PROVE  [login[q] EXCEPT !.crossed = @ \/ LoginAt(q, "opened")] \in Login
        <5>1. login[q] \in Login /\ LoginAt(q, "opened") \in BOOLEAN
          BY DEF LoginAt
        <5> HIDE DEF Login
        <5> QED
          BY <4>1, <5>1
      <4> QED
        BY <4>2
    <3>2. login' \in [Procs -> Login]
      BY <2>4, <3>1 DEF WriteFailures
    <3>3. \A a \in Addrs : (IF login[p].good THEN NoRecord ELSE Recorded(login[p].data[a])) \in Record
      BY Assumed DEF Recorded
    <3>4. failFile' \in [cut : BOOLEAN, of : [Addrs -> Record]]
      <4>1. PICK cut \in {FALSE, login[p].crossed} :
               failFile' = [cut |-> cut,
                            of |-> IF cut THEN NoRecords
                                   ELSE [login[p].data EXCEPT ![login[p].addr] =
                                            IF login[p].good THEN NoRecord ELSE Recorded(@)]]
        BY <2>4 DEF WriteFailures
      <4>2. NoRecords \in [Addrs -> Record] /\ login[p].data \in [Addrs -> Record] /\ cut \in BOOLEAN
        OBVIOUS
      <4>3. [login[p].data EXCEPT ![login[p].addr] = IF login[p].good THEN NoRecord ELSE Recorded(@)]
               \in [Addrs -> Record]
        BY <3>3, <4>2
      <4> QED
        BY <4>1, <4>2, <4>3
    <3>5. suspect' \in SUBSET Addrs
      BY <2>4 DEF WriteFailures
    <3>6. since' \in [Addrs -> Nat] /\ last' \in [Addrs -> Nat]
      <4>1. since' = [since EXCEPT ![login[p].addr] = IF login[p].good THEN 0 ELSE @ + 1]
            /\ last' = [last EXCEPT ![login[p].addr] = now]
        BY <2>4 DEF WriteFailures
      <4>2. /\ since' = [a \in Addrs |-> IF a = login[p].addr
                                       THEN IF login[p].good THEN 0 ELSE since[a] + 1 ELSE since[a]]
            /\ last' = [a \in Addrs |-> IF a = login[p].addr THEN now ELSE last[a]]
        BY <4>1
      <4> QED
        BY <4>2
    <3> QED
      BY <2>4, <3>2, <3>4, <3>5, <3>6 DEF WriteFailures
  <2>5. CASE Tick
    BY <2>5 DEF Tick
  <2>6. CASE UNCHANGED loginVars
    BY <2>6 DEF loginVars
  <2>7. CASE Crash
    BY <2>7 DEF Crash, AccountsCrash
  <2> QED
    BY <2>1, <2>2, <2>3, <2>4, <2>5, <2>6, <2>7, LoginSteps
<1> QED
  BY <1>1, <1>2, PTL DEF Spec

(* What an edit takes out and puts in are nodes. *)
LEMMA EditSteps ==
  ASSUME ScreenTypes, ScreensNext
  PROVE  \/ \E p \in Procs : OpenTmp(p) \/ WriteTmp(p) \/ Replace(p) \/ ReplaceFails(p)
         \/ \E p \in Procs, drop \in Tree, add \in Tree : Edit(p, drop, add)
         \/ \E u \in Pages : Show(u)
<1> USE DEF ScreenTypes, Tree
<1>1. Load \subseteq Node
  BY DEF Load
<1>2. ASSUME NEW p \in Procs, CreatePlant(p) PROVE \E drop \in Tree, add \in Tree : Edit(p, drop, add)
  <2>1. {NewNode(1, {})} \subseteq Node
    BY DEF NewNode, Node
  <2> QED
    BY <1>2, <2>1 DEF CreatePlant
<1>3. ASSUME NEW p \in Procs, NEW n \in Found, CreateChild(p, n) \/ Update(p, n) \/ Delete(p, n)
      PROVE  \E drop \in Tree, add \in Tree : Edit(p, drop, add)
  <2>1. n \in Node
    BY <1>1 DEF Found
  <2>2. NewNode(n.level + 1, n.under) \in Node
    BY <2>1 DEF NewNode, Node
  <2>3. [n EXCEPT !.name = "own", !.mark = edits + 1] \in Node
    <3>1. edits + 1 \in Nat
      OBVIOUS
    <3> QED
      BY <2>1, <3>1 DEF Node
  <2>4. Below(n) \subseteq Node
    BY <1>1 DEF Below
  <2> QED
    BY <1>3, <2>1, <2>2, <2>3, <2>4 DEF CreateChild, Update, Delete
<1>4. ASSUME NEW p \in Procs, LoadDemo(p) PROVE \E drop \in Tree, add \in Tree : Edit(p, drop, add)
  <2>1. DemoTree \subseteq Node
    BY Assumed DEF DemoTree, Node
  <2> QED
    BY <1>4, <2>1 DEF LoadDemo
<1>5. ASSUME NEW p \in Procs, NEW u \in Pages, PutTree(p, u)
      PROVE  \E drop \in Tree, add \in Tree : Edit(p, drop, add)
  BY <1>1, <1>5 DEF PutTree
<1> QED
  BY <1>2, <1>3, <1>4, <1>5 DEF ScreensNext

(* Of the files that may be open at once one more is left. *)
LEMMA FreshFile ==
  ASSUME ScreenTypes, NEW p \in Procs, tmp = 0
  PROVE  \E f \in Files : f \notin {file, tmp} \cup {screen[q].fd : q \in Procs \ {p}}
<1> DEFINE OtherFds == {screen[q].fd : q \in Procs \ {p}}
           Taken == OtherFds \cup {file}
<1>1. IsFiniteSet(Procs \ {p}) /\ Cardinality(Procs \ {p}) = Cardinality(Procs) - 1
      /\ Cardinality(Procs) \in Nat
  BY Assumed, FS_RemoveElement, FS_CardinalityType
<1>2. IsFiniteSet(OtherFds) /\ Cardinality(OtherFds) <= Cardinality(Procs) - 1 /\ Cardinality(OtherFds) \in Nat
  <2> DEFINE fd == [q \in Procs \ {p} |-> screen[q].fd]
  <2>1. IsFiniteSet({fd[q] : q \in Procs \ {p}})
        /\ Cardinality({fd[q] : q \in Procs \ {p}}) <= Cardinality(Procs \ {p})
    <3>1. fd \in Surjection(Procs \ {p}, {fd[q] : q \in Procs \ {p}})
      BY DEF Surjection
    <3> HIDE DEF fd
    <3> QED
      BY <1>1, <3>1, FS_Surjection
  <2>2. {fd[q] : q \in Procs \ {p}} = OtherFds
    OBVIOUS
  <2> QED
    BY <1>1, <2>1, <2>2, FS_CardinalityType
<1>3. IsFiniteSet(Taken) /\ Cardinality(Taken) <= Cardinality(Procs) /\ Cardinality(Taken) \in Nat
  <2> HIDE DEF OtherFds
  <2>1. IsFiniteSet(Taken) /\ Cardinality(Taken) \in {Cardinality(OtherFds), Cardinality(OtherFds) + 1}
    BY <1>2, FS_AddElement
  <2> QED
    BY <1>1, <1>2, <2>1
<1>4. Cardinality(Files) = Cardinality(Procs) + 1
  BY <1>1, FS_Interval DEF Files
<1>5. ~(Files \subseteq Taken)
  BY <1>1, <1>3, <1>4, FS_Subset
<1> QED
  BY <1>5 DEF Files

LEMMA ScreenTyping == Spec => []ScreenTypes
<1> USE DEF ScreenTypes
<1>1. Init => ScreenTypes
  <2> SUFFICES ASSUME Init PROVE ScreenTypes
    OBVIOUS
  <2>1. NoScreen \in Request
    BY DEF Request, Tree, NoScreen
  <2>2. content \in [Files -> Tree] /\ page \in [Pages -> Tree]
    BY DEF Init, ScreensInit, Tree
  <2> QED
    BY <2>1, <2>2 DEF Init, ScreensInit
<1>2. ScreenTypes /\ [Next]_vars => ScreenTypes'
  <2> SUFFICES ASSUME ScreenTypes, [Next]_vars PROVE ScreenTypes'
    OBVIOUS
  <2>0. Load \in Tree
    BY DEF Load, Tree
  <2>1. ASSUME NEW p \in Procs, NEW drop \in Tree, NEW add \in Tree, Edit(p, drop, add)
        PROVE  ScreenTypes'
    <3>1. (Load \ drop) \cup add \in Tree
      BY <2>0 DEF Tree
    <3>2. [NoScreen EXCEPT !.at = "open", !.tree = (Load \ drop) \cup add, !.drop = drop, !.add = add]
             \in Request
      BY <3>1 DEF Request, NoScreen
    <3>3. screen' \in [Procs -> Request]
      BY <2>1, <3>2 DEF Edit
    <3> QED
      <4>1. UNCHANGED <<file, tmp, content, page>> /\ edits' = edits + 1 /\ raced' \in BOOLEAN
        BY <2>1 DEF Edit
      <4> QED
        BY <3>3, <4>1
  <2>2. ASSUME NEW p \in Procs, OpenTmp(p) PROVE ScreenTypes'
    <3>1. tmp' \in Files /\ content' = [content EXCEPT ![tmp'] = Cut]
          /\ screen' = [screen EXCEPT ![p] = [@ EXCEPT !.at = "write", !.fd = tmp']]
      BY <2>2, FreshFile DEF OpenTmp, Target
    <3>2. [screen[p] EXCEPT !.at = "write", !.fd = tmp'] \in Request
      <4>1. screen[p] \in Request
        OBVIOUS
      <4> QED
        BY <3>1, <4>1 DEF Request
    <3> QED
      <4>1. screen' \in [Procs -> Request]
        BY <3>1, <3>2
      <4>2. content' \in [Files -> Tree \cup {Cut}]
        BY <3>1
      <4> QED
        BY <2>2, <3>1, <4>1, <4>2 DEF OpenTmp
  <2>3. ASSUME NEW p \in Procs, WriteTmp(p) PROVE ScreenTypes'
    <3>1. /\ [screen[p] EXCEPT !.at = "replace"] \in Request
          /\ \A q \in Procs : [screen[q] EXCEPT !.crossed = @ \/ screen[q].fd = screen[p].fd] \in Request
      BY DEF Request
    <3>2. screen' \in [Procs -> Request]
      BY <2>3, <3>1 DEF WriteTmp
    <3>3. screen[p].tree \in Tree
      BY DEF Request
    <3>4. content' \in [Files -> Tree \cup {Cut}]
      BY <2>3, <3>3 DEF WriteTmp
    <3> QED
      BY <2>3, <3>2, <3>4 DEF WriteTmp
  <2>4. ASSUME NEW p \in Procs, Replace(p) \/ ReplaceFails(p) PROVE ScreenTypes'
    <3>1. NoScreen \in Request
      BY DEF Request, Tree, NoScreen
    <3>2. screen' \in [Procs -> Request]
      BY <2>4, <3>1 DEF Replace, ReplaceFails, Answer
    <3> QED
      BY <2>4, <3>2 DEF Replace, ReplaceFails, Answer
  <2>5. ASSUME NEW u \in Pages, Show(u) PROVE ScreenTypes'
    BY <2>0, <2>5 DEF Show
  <2>6. CASE UNCHANGED screenVars
    BY <2>6 DEF screenVars
  <2>7. CASE Crash
    BY <2>7 DEF Crash, ScreensCrash, Request, Tree, NoScreen
  <2>8. CASE ScreensNext
    BY <2>1, <2>2, <2>3, <2>4, <2>5, <2>8, EditSteps
  <2> QED
    BY <2>6, <2>7, <2>8 DEF Next, vars
<1> QED
  BY <1>1, <1>2, PTL DEF Spec

LEMMA LoopInvariant == Spec => []LoopKept
<1>1. Init => LoopKept
  BY DEF Init, AccountsInit, ScreensInit, LoopKept, LoginAt, Active, ScreenAt, NoLogin, NoScreen
<1>2. ProcessTypes /\ LoginTypes /\ ScreenTypes /\ LoopKept /\ [Next]_vars => LoopKept'
  <2> SUFFICES ASSUME ProcessTypes, LoginTypes, ScreenTypes, LoopKept, [Next]_vars PROVE LoopKept'
    OBVIOUS
  <2> USE DEF ProcessTypes, LoginTypes, ScreenTypes, LoopKept, LoginAt, Active, ScreenAt, Free,
              Takes, Leaves, Login, Request
  <2>1. ASSUME NEW p \in Procs, NEW a \in Addrs, NEW good \in BOOLEAN, Attempt(p, a, good),
               UNCHANGED screenVars
        PROVE  LoopKept'
    BY <2>1 DEF Attempt, screenVars
  <2>2. ASSUME NEW p \in Procs, LoadFailures(p), UNCHANGED screenVars PROVE LoopKept'
    BY <2>2 DEF LoadFailures, processVars, screenVars
  <2>3. ASSUME NEW p \in Procs, OpenFailures(p), UNCHANGED screenVars PROVE LoopKept'
    BY <2>3 DEF OpenFailures, processVars, screenVars
  <2>4. ASSUME NEW p \in Procs, WriteFailures(p), UNCHANGED screenVars PROVE LoopKept'
    BY <2>4 DEF WriteFailures, screenVars, NoLogin
  <2>5. CASE AccountsNext /\ UNCHANGED screenVars
    <3>1. UNCHANGED <<login, loop>> => LoopKept'
      BY <2>5 DEF screenVars
    <3>2. ASSUME NEW p \in Procs, LoadSecret(p) \/ OpenSecret(p) \/ WriteSecret(p) \/ SecretUnsaved(p)
                                 \/ LoadCredentials(p)
                                 \/ \E new \in Passwords : ChangePassword(p, new)
          PROVE  UNCHANGED <<login, loop>>
      BY <3>2 DEF LoadSecret, OpenSecret, WriteSecret, SecretUnsaved, LoadCredentials, ChangePassword,
         loginVars
    <3>3. ASSUME NEW j \in Jobs, LoadUsers(j) \/ SaveUsers(j)
                     \/ \E kind \in {"add", "set", "remove"}, u \in Users : AskUser(j, kind, u)
          PROVE  UNCHANGED <<login, loop>>
      BY <3>3 DEF LoadUsers, SaveUsers, AskUser, loginVars, processVars
    <3>4. Tick => UNCHANGED <<login, loop>>
      BY DEF Tick, processVars
    <3> QED
      BY <2>1, <2>2, <2>3, <2>4, <2>5, <3>1, <3>2, <3>3, <3>4 DEF AccountsNext
  <2>6. ASSUME NEW p \in Procs, NEW drop \in Tree, NEW add \in Tree, Edit(p, drop, add),
               UNCHANGED accountVars
        PROVE  LoopKept'
    BY <2>6 DEF Edit, accountVars, loginVars, NoScreen
  <2>7. ASSUME NEW p \in Procs, OpenTmp(p), UNCHANGED accountVars PROVE LoopKept'
    BY <2>7 DEF OpenTmp, accountVars, loginVars, processVars
  <2>8. ASSUME NEW p \in Procs, WriteTmp(p), UNCHANGED accountVars PROVE LoopKept'
    BY <2>8 DEF WriteTmp, accountVars, loginVars, processVars
  <2>9. ASSUME NEW p \in Procs, Replace(p) \/ ReplaceFails(p), UNCHANGED accountVars PROVE LoopKept'
    <3>1. /\ screen' = [screen EXCEPT ![p] = NoScreen]
          /\ Leaves(p) /\ ScreenAt(p, "replace") /\ login' = login
      BY <2>9 DEF Replace, ReplaceFails, Answer, accountVars, loginVars
    <3>2. loop[p] = "screens"
      BY <3>1
    <3> QED
      BY <3>1, <3>2 DEF NoScreen
  <2>10. ASSUME NEW u \in Pages, Show(u), UNCHANGED accountVars PROVE LoopKept'
    BY <2>10 DEF Show, accountVars, loginVars
  <2>11. CASE Crash
    BY <2>11 DEF Crash, AccountsCrash, ScreensCrash, NoLogin, NoScreen
  <2>12. CASE UNCHANGED vars
    BY <2>12 DEF vars, processVars, accountVars, loginVars, screenVars
  <2> QED
    BY <2>5, <2>6, <2>7, <2>8, <2>9, <2>10, <2>11, <2>12, EditSteps DEF Next
<1> QED
  BY <1>1, <1>2, CredentialTyping, LoginTyping, ScreenTyping, PTL DEF Spec

-----------------------------------------------------------------------------
(* Locked addresses *)

LEMMA FailuresInvariant == Spec => []FailuresKept
<1> USE DEF FailuresKept, Counts, Holds, LoginAt
<1>1. Init => FailuresKept
  BY Assumed DEF Init, AccountsInit, NoRecords, NoRecord, NoLogin
<1>2. LoginTypes /\ LoginTypes' /\ LoopKept /\ FailuresKept /\ [Next]_vars => FailuresKept'
  <2> SUFFICES ASSUME LoginTypes, LoginTypes', LoopKept, FailuresKept, [Next]_vars
               PROVE  FailuresKept'
    OBVIOUS
  <2> USE DEF LoginTypes
  <2>1. ASSUME NEW p \in Procs, NEW a \in Addrs, NEW good \in BOOLEAN, Attempt(p, a, good)
        PROVE  FailuresKept'
    <3>1. LoginAt(p, "none")
      BY <2>1 DEF Attempt, Free, LoopKept
    <3>2. login'[p].at = "load" /\ login'[p].addr = a /\ ~login'[p].crossed
          /\ \A q \in Procs \ {p} : login'[q] = login[q]
      BY <2>1 DEF Attempt, NoLogin
    <3>3. UNCHANGED <<failFile, since, last, suspect>>
      BY <2>1 DEF Attempt
    <3> QED
      BY <3>1, <3>2, <3>3
  <2>2. ASSUME NEW p \in Procs, LoadFailures(p) PROVE FailuresKept'
    <3>1. /\ login[p].at = "load" /\ login'[p].at = "loaded"
          /\ login'[p].addr = login[p].addr /\ login'[p].crossed = login[p].crossed
          /\ login'[p].data = IF failFile.cut THEN NoRecords ELSE failFile.of
          /\ \A q \in Procs \ {p} : login'[q] = login[q]
      BY <2>2 DEF LoadFailures, Login
    <3>2. UNCHANGED <<failFile, since, last>> /\ suspect' = IF Others(p) = {} THEN suspect ELSE Addrs
      BY <2>2 DEF LoadFailures
    <3>3. CASE Others(p) = {}
      BY <3>1, <3>2, <3>3 DEF Others
    <3>4. CASE Others(p) # {}
      BY <3>1, <3>2, <3>4
    <3> QED
      BY <3>3, <3>4
  <2>3. ASSUME NEW p \in Procs, OpenFailures(p) PROVE FailuresKept'
    <3>1. /\ login[p].at = "loaded" /\ login'[p].at = "opened"
          /\ login'[p].addr = login[p].addr /\ login'[p].data = login[p].data
          /\ login'[p].crossed = login[p].crossed
          /\ \A q \in Procs \ {p} : login'[q] = login[q]
      BY <2>3 DEF OpenFailures, Login
    <3>2. UNCHANGED <<since, last, suspect>>
      BY <2>3 DEF OpenFailures
    <3> QED
      BY <3>1, <3>2
  <2>4. ASSUME NEW p \in Procs, WriteFailures(p) PROVE FailuresKept'
    <3> DEFINE a == login[p].addr
               good == login[p].good
    <3>0. PICK cut \in {FALSE, login[p].crossed} :
             failFile' = [cut |-> cut,
                          of |-> IF cut THEN NoRecords
                                 ELSE [login[p].data EXCEPT ![a] =
                                          IF good THEN NoRecord ELSE Recorded(@)]]
      BY <2>4 DEF WriteFailures
    <3>1. /\ login[p].at = "opened" /\ a \in Addrs
          /\ login'[p] = NoLogin
          /\ \A q \in Procs \ {p} :
                /\ login'[q].at = login[q].at /\ login'[q].addr = login[q].addr
                /\ login'[q].data = login[q].data
                /\ login'[q].crossed => login[q].crossed \/ login[q].at = "opened"
      BY <2>4 DEF WriteFailures, Login
    <3>2. /\ since' = [since EXCEPT ![a] = IF good THEN 0 ELSE @ + 1]
          /\ last' = [last EXCEPT ![a] = now]
          /\ suspect' = IF good /\ Others(p) = {} /\ ~failFile'.cut THEN suspect \ {a} ELSE suspect
      BY <2>4 DEF WriteFailures
    <3>3. CASE Others(p) # {}
      <4>1. suspect = Addrs /\ suspect' = Addrs
        BY <3>1, <3>2, <3>3 DEF Others
      <4> QED
        BY <3>1, <4>1 DEF NoLogin
    <3>4. CASE Others(p) = {}
      <4>1. \A q \in Procs \ {p} : ~Holds(q)
        BY <3>4 DEF Others
      <4>2. \A q \in Procs : login'[q].at # "opened" /\ login'[q].at # "loaded"
        BY <3>1, <4>1 DEF NoLogin
      <4>3. ASSUME NEW b \in Addrs \ suspect' PROVE ~failFile'.cut /\ Counts(failFile.of[b], b)'
        <5>1. CASE cut
          BY <3>0, <3>1, <3>2, <4>3, <5>1
        <5>2. CASE ~cut /\ b # a
          BY <3>0, <3>1, <3>2, <4>3, <5>2
        <5>3. CASE ~cut /\ b = a /\ good
          BY <3>0, <3>1, <3>2, <5>3, Assumed DEF NoRecord
        <5>4. CASE ~cut /\ b = a /\ ~good
          BY <3>0, <3>1, <3>2, <4>3, <5>4, Assumed DEF Recorded, Login, Record
        <5> QED
          BY <3>0, <5>1, <5>2, <5>3, <5>4
      <4>4. \A q \in Procs : ~login'[q].crossed
        BY <3>1, <4>1 DEF NoLogin
      <4>5. \A q \in Procs : login'[q].at # "none" => login'[q].addr \in Addrs
        BY <3>1 DEF NoLogin
      <4> QED
        BY <4>2, <4>3, <4>4, <4>5
    <3> QED
      BY <3>3, <3>4
  <2>5. CASE Tick
    BY <2>5 DEF Tick
  <2>6. CASE UNCHANGED loginVars
    BY <2>6 DEF loginVars
  <2>7. CASE Crash
    BY <2>7 DEF Crash, AccountsCrash, NoLogin
  <2> QED
    BY <2>1, <2>2, <2>3, <2>4, <2>5, <2>6, <2>7, LoginSteps
<1> QED
  BY <1>1, <1>2, LoginTyping, LoopInvariant, PTL DEF Spec

(* An address that has failed too often is locked in both processes, unless *)
(* its record may have been overwritten or cut off.                         *)
THEOREM LockedOutStands == Spec => []LockedOut
<1>1. LoginTypes /\ FailuresKept => LockedOut
  BY Assumed DEF LoginTypes, FailuresKept, LockedOut, LockedIn, Counts, Record
<1> QED
  BY <1>1, LoginTyping, FailuresInvariant, PTL

-----------------------------------------------------------------------------
(* HMI screens *)

LEMMA TreeInvariant == Spec => []TreeKept
<1> USE DEF TreeKept, Fits, Active, ScreenAt
<1>1. Init => TreeKept
  BY DEF Init, ScreensInit, NoScreen
<1>2. ScreenTypes /\ ScreenTypes' /\ TreeKept /\ [Next]_vars => TreeKept'
  <2> SUFFICES ASSUME ScreenTypes, ScreenTypes', TreeKept, [Next]_vars PROVE TreeKept'
    OBVIOUS
  <2> USE DEF ScreenTypes
  <2>1. ASSUME NEW p \in Procs, NEW drop \in Tree, NEW add \in Tree, Edit(p, drop, add)
        PROVE  TreeKept'
    <3>1. /\ screen'[p].at = "open" /\ screen'[p].drop = drop /\ screen'[p].add = add
          /\ screen'[p].tree = (Load \ drop) \cup add
          /\ \A q \in Procs \ {p} : screen'[q] = screen[q]
      BY <2>1 DEF Edit, NoScreen
    <3>2. UNCHANGED <<file, tmp, content>> /\ Load' = Load
      BY <2>1 DEF Edit, Load
    <3>3. raced' \/ (/\ \A q \in Procs : ~Active(q)
                     /\ answered' = IF raced THEN answered \cap Load ELSE answered)
      BY <2>1 DEF Edit
    <3>4. CASE raced'
      BY <3>2, <3>4
    <3>5. CASE ~raced'
      <4>1. \A q \in Procs : Active(q)' => q = p
        BY <3>1, <3>3, <3>5
      <4>2. answered' \subseteq Load'
        BY <3>2, <3>3, <3>5
      <4> QED
        BY <3>1, <3>2, <3>5, <4>1, <4>2, <2>1 DEF Edit, NoScreen
    <3> QED
      BY <3>4, <3>5
  <2>2. ASSUME NEW p \in Procs, OpenTmp(p) PROVE TreeKept'
    <3>1. tmp' \in Files /\ tmp' # file /\ content' = [content EXCEPT ![tmp'] = Cut]
          /\ screen' = [screen EXCEPT ![p] = [@ EXCEPT !.at = "write", !.fd = tmp']]
          /\ UNCHANGED <<file, answered, raced>>
      BY <2>2, FreshFile DEF OpenTmp, Target
    <3>2. Load' = Load
      BY <3>1 DEF Load
    <3>3. tmp' # 0
      BY <3>1 DEF Files
    <3>4. /\ screen[p].at = "open" /\ screen[p] \in Request
          /\ \A q \in Procs \ {p} : screen'[q] = screen[q]
      BY <2>2, <3>1 DEF OpenTmp
    <3>5. /\ screen'[p].at = "write" /\ screen'[p].fd = tmp'
          /\ screen'[p].tree = screen[p].tree /\ screen'[p].drop = screen[p].drop
          /\ screen'[p].add = screen[p].add /\ screen'[p].crossed = screen[p].crossed
      BY <3>1, <3>4 DEF Request
    <3> QED
      BY <3>1, <3>2, <3>3, <3>4, <3>5
  <2>3. ASSUME NEW p \in Procs, WriteTmp(p) PROVE TreeKept'
    <3>1. /\ screen'[p].at = "replace" /\ screen'[p].fd = screen[p].fd /\ screen[p].at = "write"
          /\ screen'[p].tree = screen[p].tree /\ screen'[p].drop = screen[p].drop
          /\ screen'[p].add = screen[p].add
          /\ \A q \in Procs \ {p} : screen'[q].at = screen[q].at
          /\ UNCHANGED <<file, tmp, answered, raced>>
      BY <2>3 DEF WriteTmp, Request
    <3>2. ~raced => content' = [content EXCEPT ![tmp] = screen[p].tree] /\ tmp # 0 /\ tmp # file
      BY <2>3 DEF WriteTmp
    <3>3. ~raced => Load' = Load
      BY <3>1, <3>2 DEF Load
    <3> QED
      BY <3>1, <3>2, <3>3
  <2>4. ASSUME NEW p \in Procs, Replace(p) PROVE TreeKept'
    <3>1. /\ file' = tmp /\ tmp' = 0 /\ tmp # 0
          /\ answered' = (answered \ screen[p].drop) \cup screen[p].add
          /\ screen[p].at = "replace" /\ screen'[p] = NoScreen
          /\ \A q \in Procs \ {p} : screen'[q] = screen[q]
          /\ UNCHANGED <<content, raced>>
      BY <2>4 DEF Replace, Answer
    <3>2. screen[p].tree # Cut
      <4>1. \A n \in screen[p].tree : n.born # 0
        BY DEF Request, Tree, Node
      <4>2. \E n \in Cut : n.born = 0
        BY DEF Cut
      <4> QED
        BY <4>1, <4>2
    <3>3. ~raced => Load' = (Load \ screen[p].drop) \cup screen[p].add
      BY <3>1, <3>2 DEF Load
    <3> QED
      BY <3>1, <3>3 DEF NoScreen
  <2>5. ASSUME NEW p \in Procs, ReplaceFails(p) PROVE TreeKept'
    <3>1. UNCHANGED <<file, tmp, content, answered, raced>> /\ Load' = Load
      BY <2>5 DEF ReplaceFails, Answer, Load
    <3> QED
      BY <2>5, <3>1 DEF ReplaceFails, Answer, NoScreen
  <2>6. ASSUME NEW u \in Pages, Show(u) PROVE TreeKept'
    <3>1. Load' = Load
      BY <2>6 DEF Show, Load
    <3> QED
      BY <2>6, <3>1 DEF Show
  <2>7. CASE UNCHANGED screenVars
    <3>1. Load' = Load
      BY <2>7 DEF screenVars, Load
    <3> QED
      BY <2>7, <3>1 DEF screenVars
  <2>8. CASE Crash
    <3>1. Load' = Load
      BY <2>8 DEF Crash, ScreensCrash, Load
    <3> QED
      BY <2>8, <3>1 DEF Crash, ScreensCrash, NoScreen
  <2>9. CASE ScreensNext
    BY <2>1, <2>2, <2>3, <2>4, <2>5, <2>6, <2>9, EditSteps
  <2> QED
    BY <2>7, <2>8, <2>9 DEF Next, vars
<1> QED
  BY <1>1, <1>2, ScreenTyping, PTL DEF Spec

(* Unless requests of both processes overlap, the file is never short of    *)
(* what the requests answered so far made.                                  *)
THEOREM ScreensAreKept == Spec => []ScreensKept
<1>1. ScreenTypes /\ TreeKept => ScreensKept
  BY DEF ScreenTypes, TreeKept, ScreensKept
<1> QED
  BY <1>1, ScreenTyping, TreeInvariant, PTL
=============================================================================
