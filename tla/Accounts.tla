------------------------------ MODULE Accounts ------------------------------
(***************************************************************************)
(* The files behind signing in, of two processes with a memory of their    *)
(* own: the secret that signs tokens, of the environment or made at the     *)
(* first start; the admin password, changed through either process; the     *)
(* login failures, read, changed and written in place under a lock of one   *)
(* process only; and the users of the OPC-UA server, changed by pool        *)
(* threads under a file lock.                                               *)
(***************************************************************************)
EXTENDS AdminProcess

CONSTANTS
    Addrs,        \* client addresses
    MaxAttempts,  \* LOGIN_MAX_ATTEMPTS
    Lockout,      \* LOGIN_LOCKOUT_SECONDS, in ticks
    MaxTime,      \* bound on the clock
    Passwords,    \* passwords the admin may choose
    Users,        \* names of OPC-UA users
    Admin,        \* the one that cannot be removed
    Jobs          \* requests that change OPC-UA users

ASSUME AccountsAssumption ==
    /\ MaxAttempts \in Nat \ {0} /\ Lockout \in Nat \ {0} /\ MaxTime \in Nat
    /\ "env" \notin Passwords
    /\ Admin \in Users

VARIABLES
    envSecret,   \* number of the secret in JWT_SECRET, 0 if it is not set
    secretFile,  \* number of the secret in .jwt-secret, 0 if none
    made,        \* secrets made so far
    credFile,    \* password in .admin-credentials, "env" if none
    memory,      \* what each process signs with and accepts
    strayed,     \* history: what another process may have changed since a start,
                 \*   and whether a secret was used that could not be saved
    failFile,    \* login failures: whether the file is cut, and its records
    login,       \* the login each process is handling
    now,         \* clock
    since,       \* history: failures answered since the last success
    last,        \* history: when the last of them was
    suspect,     \* history: addresses whose record another process may have overwritten
    users,       \* OPC-UA users in .jibberish, 0 if absent, else their last change
    wanted,      \* history: what the answered changes made of them
    job          \* the requests that change them

credentialVars == <<envSecret, secretFile, made, credFile, memory, strayed>>
loginVars == <<failFile, login, now, since, last, suspect>>
userVars == <<users, wanted, job>>
accountVars == <<credentialVars, loginVars, userVars>>

NoRecord == [count |-> 0, until |-> 0]
NoRecords == [a \in Addrs |-> NoRecord]
NoLogin == [at |-> "none", addr |-> "none", good |-> FALSE, crossed |-> FALSE, data |-> NoRecords]
NoJob == [at |-> "new", kind |-> "none", user |-> Admin, data |-> [u \in Users |-> 0]]

AccountsInit ==
    /\ envSecret \in {0, 1} /\ secretFile = 0 /\ made = envSecret
    /\ credFile = "env"
    /\ memory = [p \in Procs |-> [secret |-> 0, password |-> "env"]]
    /\ strayed = [p \in Procs |-> {}]
    /\ failFile = [cut |-> FALSE, of |-> NoRecords]
    /\ login = [p \in Procs |-> NoLogin]
    /\ now = 0
    /\ since = [a \in Addrs |-> 0] /\ last = [a \in Addrs |-> 0]
    /\ suspect = {}
    /\ users = [u \in Users |-> IF u = Admin THEN 1 ELSE 0]
    /\ wanted = users
    /\ job = [j \in Jobs |-> NoJob]

-----------------------------------------------------------------------------
(* Start: the secret is that of the environment, or is read, or made and    *)
(* written in place; then the admin password of the environment gives way   *)
(* to the one in the file.                                                  *)
Making == {"making", "writing"}
InForce == IF envSecret # 0 THEN envSecret ELSE secretFile

LoadSecret(p) ==
    /\ boot[p] = "down"
    /\ IF InForce # 0
       THEN /\ memory' = [memory EXCEPT ![p].secret = InForce]
            /\ Boots(p, "secret")
            /\ UNCHANGED made
       ELSE /\ made' = made + 1
            /\ memory' = [memory EXCEPT ![p].secret = made']
            /\ Boots(p, "making")
    /\ LET rivals == {q \in Procs : boot[q] \in Making} IN
         strayed' = [q \in Procs |-> IF q = p THEN {"secret" : r \in rivals}
                                     ELSE IF q \in rivals /\ InForce = 0 THEN {"secret"}
                                     ELSE strayed[q]]
    /\ UNCHANGED <<envSecret, secretFile, credFile, loginVars, userVars, loop, inputs>>

OpenSecret(p) ==
    /\ boot[p] = "making"
    /\ secretFile' = 0
    /\ Boots(p, "writing")
    /\ UNCHANGED <<envSecret, made, credFile, memory, strayed, loginVars, userVars, loop, inputs>>

WriteSecret(p) ==
    /\ boot[p] = "writing"
    /\ secretFile' = memory[p].secret
    /\ Boots(p, "secret")
    /\ UNCHANGED <<envSecret, made, credFile, memory, strayed, loginVars, userVars, loop, inputs>>

(* The file cannot be made or written, which is passed over: the process    *)
(* keeps the secret, and the next start will make another.                  *)
SecretUnsaved(p) ==
    /\ boot[p] \in Making
    /\ strayed' = [strayed EXCEPT ![p] = @ \cup {"unsaved"}]
    /\ Boots(p, "secret")
    /\ UNCHANGED <<envSecret, secretFile, made, credFile, memory, loginVars, userVars, loop, inputs>>

(* Mutant: the password of the environment stays in force. *)
Slip_Override == "env"

Override == credFile

LoadCredentials(p) ==
    /\ boot[p] = "secret"
    /\ memory' = [memory EXCEPT ![p].password = Override]
    /\ Boots(p, "up")
    /\ UNCHANGED <<envSecret, secretFile, made, credFile, strayed, loginVars, userVars, loop, inputs>>

(* What a process signs tokens with, and opens them with. *)
Signs(p) == memory[p].secret

(* The admin password a process lets in. *)
Accepts(p) == memory[p].password

(* PUT /api/auth/password: a temporary file of its own replaces the file,   *)
(* then the memory of this process follows; the other is not told.          *)
ChangePassword(p, new) ==
    /\ Free(p) /\ Input
    /\ credFile' = new
    /\ memory' = [memory EXCEPT ![p].password = new]
    /\ strayed' = [q \in Procs |-> IF q = p THEN strayed[q] \ {"password"}
                                   ELSE IF Up(q) THEN strayed[q] \cup {"password"}
                                   ELSE strayed[q]]
    /\ UNCHANGED <<envSecret, secretFile, made, loginVars, userVars, boot, loop>>

-----------------------------------------------------------------------------
(* POST /api/auth/login.  A locked address is answered at once and changes  *)
(* nothing; a file that is missing or cut short locks nobody.               *)
LockedIn(file, a) == ~file.cut /\ file.of[a].until > now
Others(p) == {q \in Procs \ {p} : login[q].at \in {"loaded", "opened"}}
LoginAt(p, stage) == login[p].at = stage

Attempt(p, a, good) ==
    /\ Free(p) /\ Input
    /\ ~LockedIn(failFile, a)
    /\ login' = [login EXCEPT ![p] = [NoLogin EXCEPT !.at = "load", !.addr = a, !.good = good]]
    /\ Takes(p, "login")
    /\ UNCHANGED <<failFile, now, since, last, suspect, credentialVars, userVars, boot>>

LoadFailures(p) ==
    /\ LoginAt(p, "load")
    /\ login' = [login EXCEPT ![p].at = "loaded",
                              ![p].data = IF failFile.cut THEN NoRecords ELSE failFile.of]
    /\ suspect' = IF Others(p) = {} THEN suspect ELSE Addrs
    /\ UNCHANGED <<failFile, now, since, last, credentialVars, userVars, processVars>>

OpenFailures(p) ==
    /\ LoginAt(p, "loaded")
    /\ login' = [login EXCEPT ![p].at = "opened"]
    /\ failFile' = [cut |-> TRUE, of |-> NoRecords]
    /\ UNCHANGED <<now, since, last, suspect, credentialVars, userVars, processVars>>

(* Mutant: an address is locked by the last attempt it has, and never again. *)
Slip_Recorded(record) ==
    [count |-> record.count + 1,
     until |-> IF record.count + 1 = MaxAttempts THEN now + Lockout ELSE record.until]

(* One failure more; the count outlives the lock. *)
Recorded(record) ==
    [count |-> record.count + 1,
     until |-> IF record.count + 1 >= MaxAttempts THEN now + Lockout ELSE record.until]

(* The file is written from its start: when the other process has written it *)
(* since it was opened, what is left of a longer text makes it unreadable.   *)
WriteFailures(p) ==
    /\ LoginAt(p, "opened")
    /\ LET a == login[p].addr  good == login[p].good IN
         /\ \E cut \in {FALSE, login[p].crossed} :
                failFile' = [cut |-> cut,
                             of |-> IF cut THEN NoRecords
                                    ELSE [login[p].data EXCEPT ![a] =
                                             IF good THEN NoRecord ELSE Recorded(@)]]
         /\ since' = [since EXCEPT ![a] = IF good THEN 0 ELSE @ + 1]
         /\ last' = [last EXCEPT ![a] = now]
         /\ suspect' = IF good /\ Others(p) = {} /\ ~failFile'.cut THEN suspect \ {a} ELSE suspect
    /\ login' = [q \in Procs |-> IF q = p THEN NoLogin
                                 ELSE [login[q] EXCEPT !.crossed = @ \/ LoginAt(q, "opened")]]
    /\ Leaves(p)
    /\ UNCHANGED <<now, credentialVars, userVars, boot, inputs>>

Tick ==
    /\ now < MaxTime
    /\ now' = now + 1
    /\ UNCHANGED <<failFile, login, since, last, suspect, credentialVars, userVars, processVars>>

-----------------------------------------------------------------------------
(* OPC-UA users: added, given another password or group, or removed.  The   *)
(* keystore password is one more entry that is set.                         *)
JobAt(j, stage) == job[j].at = stage
JobGoes(j, stage) == job' = [job EXCEPT ![j].at = stage]

AskUser(j, kind, u) ==
    /\ JobAt(j, "new") /\ Input
    /\ \E p \in Procs : Up(p)
    /\ kind = "remove" => u # Admin
    /\ job' = [job EXCEPT ![j] = [NoJob EXCEPT !.at = "asked", !.kind = kind, !.user = u]]
    /\ UNCHANGED <<users, wanted, credentialVars, loginVars, boot, loop>>

(* Mutant: PASSWORD_LOCK keeps out only requests of the same kind. *)
Slip_PasswordLock(j) == \A i \in Jobs : JobAt(i, "loaded") => job[i].kind # job[j].kind

PasswordLock(j) == \A i \in Jobs : ~JobAt(i, "loaded")

LoadUsers(j) ==
    /\ JobAt(j, "asked") /\ PasswordLock(j)
    /\ IF (job[j].kind = "add") = (users[job[j].user] = 0)
       THEN job' = [job EXCEPT ![j].at = "loaded", ![j].data = users]
       ELSE JobGoes(j, "refused")
    /\ UNCHANGED <<users, wanted, credentialVars, loginVars, processVars>>

(* A temporary file of its own replaces the file. *)
Changed(table, j) ==
    [table EXCEPT ![job[j].user] = IF job[j].kind = "remove" THEN 0 ELSE @ + 1]

SaveUsers(j) ==
    /\ JobAt(j, "loaded")
    /\ users' = Changed(job[j].data, j)
    /\ wanted' = Changed(wanted, j)
    /\ JobGoes(j, "done")
    /\ UNCHANGED <<credentialVars, loginVars, processVars>>

(* What a crash leaves: the files as they are. *)
AccountsCrash ==
    /\ login' = [p \in Procs |-> NoLogin]
    /\ suspect' = IF \E p \in Procs : LoginAt(p, "opened") THEN Addrs ELSE suspect
    /\ job' = [j \in Jobs |-> IF JobAt(j, "asked") \/ JobAt(j, "loaded")
                              THEN [job[j] EXCEPT !.at = "lost"] ELSE job[j]]
    /\ UNCHANGED <<credentialVars, failFile, now, since, last, users, wanted>>

AccountsNext ==
    \/ \E p \in Procs :
         \/ LoadSecret(p) \/ OpenSecret(p) \/ WriteSecret(p) \/ SecretUnsaved(p)
         \/ LoadCredentials(p)
         \/ LoadFailures(p) \/ OpenFailures(p) \/ WriteFailures(p)
         \/ \E new \in Passwords : ChangePassword(p, new)
         \/ \E a \in Addrs, good \in BOOLEAN : Attempt(p, a, good)
    \/ \E j \in Jobs :
         \/ LoadUsers(j) \/ SaveUsers(j)
         \/ \E kind \in {"add", "set", "remove"}, u \in Users : AskUser(j, kind, u)
    \/ Tick

-----------------------------------------------------------------------------
(* An address that has failed as often as is allowed since it last got in,  *)
(* the last time less than the lockout ago, is locked in both processes,    *)
(* unless its record may have been overwritten by a process that had read   *)
(* the file before, or cut off by a crash.                                  *)
LockedOut ==
    \A a \in Addrs \ suspect :
        /\ since[a] >= MaxAttempts
        /\ now < last[a] + Lockout
        /\ \A p \in Procs : ~LoginAt(p, "opened")
        => LockedIn(failFile, a)

(* A process signs by the secret of the environment or else of the file and *)
(* accepts by the password of the file, also after a restart, unless it     *)
(* could not save the secret it made, another was making one when this one  *)
(* took or made its own, or the other process changed the password since    *)
(* this one started.                                                        *)
OneCredential ==
    \A p \in Procs : Up(p) =>
        /\ Signs(p) = InForce \/ strayed[p] \cap {"secret", "unsaved"} # {}
        /\ Accepts(p) = credFile \/ "password" \in strayed[p]

(* The file of OPC-UA users holds every change that was answered. *)
UsersKept == users = wanted
=============================================================================
