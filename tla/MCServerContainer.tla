------------------------- MODULE MCServerContainer -------------------------
(* An instance of ServerContainer: two updates to different versions, one   *)
(* rollback and one restart.                                                *)
EXTENDS ServerContainer

MCTarget == [u \in Updates |-> IF u = "u1" THEN "v1" ELSE "v2"]
=============================================================================
