---------------------------- MODULE MCAdminFiles ----------------------------
(* An instance of AdminFiles; the processes are alike, and so are the       *)
(* requests for OPC-UA users.                                               *)
EXTENDS AdminFiles, TLC

MCSymmetry == Permutations(Procs) \cup Permutations(Jobs)
=============================================================================
