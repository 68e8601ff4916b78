----------------------------- MODULE AdminFiles -----------------------------
(***************************************************************************)
(* The small files both admin processes write: those behind signing in and *)
(* the HMI screens.  A process handles one login or one HMI request at a    *)
(* time, and a crash of the container meets whatever is half done in both.  *)
(***************************************************************************)
EXTENDS Accounts, HmiScreens

vars == <<processVars, accountVars, screenVars>>

Init == ProcessInit /\ AccountsInit /\ ScreensInit

Crash ==
    /\ ProcessCrash
    /\ AccountsCrash
    /\ ScreensCrash

Next ==
    \/ AccountsNext /\ UNCHANGED screenVars
    \/ ScreensNext /\ UNCHANGED accountVars
    \/ Crash

Spec == Init /\ [][Next]_vars
=============================================================================
