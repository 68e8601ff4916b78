---------------------------- MODULE AdminProcess ----------------------------
(***************************************************************************)
(* The two uvicorn processes of the admin container, HTTP and HTTPS.  Each  *)
(* has one event loop, and a handler that never awaits keeps it until its   *)
(* answer: such handlers interleave with those of the other process only.   *)
(***************************************************************************)
EXTENDS Integers, FiniteSets

CONSTANTS
    Procs,      \* the admin processes
    MaxInputs   \* bound on requests and crashes

ASSUME ProcessAssumption == IsFiniteSet(Procs) /\ MaxInputs \in Nat

VARIABLES
    boot,    \* how far each process is with its start
    loop,    \* the handler each event loop is in, "free" if none
    inputs   \* requests and crashes so far

processVars == <<boot, loop, inputs>>

ProcessInit ==
    /\ boot = [p \in Procs |-> "down"]
    /\ loop = [p \in Procs |-> "free"]
    /\ inputs = 0

Up(p) == boot[p] = "up"
Free(p) == Up(p) /\ loop[p] = "free"
Boots(p, stage) == boot' = [boot EXCEPT ![p] = stage]
Input == inputs < MaxInputs /\ inputs' = inputs + 1
Takes(p, handler) == loop' = [loop EXCEPT ![p] = handler]
Leaves(p) == Takes(p, "free")

(* When one process of the container ends, all are ended and started again. *)
ProcessCrash ==
    /\ Input
    /\ boot' = [p \in Procs |-> "down"]
    /\ loop' = [p \in Procs |-> "free"]
=============================================================================
