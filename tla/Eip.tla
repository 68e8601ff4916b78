-------------------------------- MODULE Eip --------------------------------
(* The service and the poller side by side: two processes that share the    *)
(* controllers' connections and nothing else.                               *)
EXTENDS EipPoller

CONSTANTS
    MaxInputs   \* bound on requests and writes of config.yml together

ASSUME InputsAssumption == MaxInputs \in Nat

serviceOnly == <<clock, caller, thread, lock, last, effects, ended>>

Init == ServiceInit /\ PollerInit

Poller ==
    \/ PollRests /\ UNCHANGED open
    \/ PollOpens

Inputs == Cardinality({r \in Requests : stage[r] # "new"}) + file.mtime - 1

Next ==
    \/ ServiceNext /\ UNCHANGED pollerVars /\ Inputs' <= MaxInputs
    \/ Poller /\ UNCHANGED serviceOnly
    \/ SaveConfig /\ UNCHANGED serviceVars /\ Inputs' <= MaxInputs
    \/ SeedOpens /\ UNCHANGED serviceVars /\ Inputs' < MaxInputs
    \/ SeedWrites /\ UNCHANGED serviceVars

vars == <<serviceVars, pollerVars>>

(* The poller loops by itself; nothing is asked of callers, or of those who *)
(* write the configuration.                                                 *)
Fairness == WF_vars(Poller /\ UNCHANGED serviceOnly)

Spec == Init /\ [][Next]_vars /\ Fairness

-----------------------------------------------------------------------------
(* "One CIP connection at a time": of the service there is one connection   *)
(* at most, to the controller of the request it serves, under the lock, and *)
(* none is left behind by an operation that fails.  The poller has one      *)
(* more, which the lock does not know: a controller meets two at most.      *)
OneConnectionEach ==
    LET mine == {c \in open : c[1] = "poller"}
        its == open \ mine
    IN  /\ Cardinality(mine) <= 1 /\ (mine # {} <=> at = "connected")
        /\ Cardinality(its) <= 1
        /\ lock <=> its # {}
        /\ \A c \in its : c[1] = serving /\ todo # <<>>

(* Whatever the service does, the poller comes to the devices of the last   *)
(* configuration that is written, also when a seed writes it in place and   *)
(* the poller reads it half-written; and it polls each of them again and    *)
(* again, however the others fail to answer.  There are two exceptions: the *)
(* last configuration could not be read, and one malformed device in it,    *)
(* with which it may not be taken over, or with which every cycle ends      *)
(* before the devices after it.                                             *)
PollsConfigured ==
    LET broken == (InFile \cup devices) \cap Malformed # {}
    IN  /\ <>[](unread \/ broken \/ devices = InFile)
        /\ \A p \in Plcs : []<>(p \notin devices \/ <<"poller", p>> \in open \/ broken)
=============================================================================
