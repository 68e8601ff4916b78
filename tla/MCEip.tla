------------------------------- MODULE MCEip -------------------------------
(* An instance of Eip: a discovery, a batch of two tags, a write of one of  *)
(* them and a health check, of one controller.                              *)
EXTENDS Eip

MCKind == [r \in Requests |-> CASE r = "r1" -> "discover" [] r = "r2" -> "batch_write"
                                [] r = "r3" -> "write" [] OTHER -> "health"]
MCConfigs == {{"p1"}, {"p1", "p2"}, {"p1", "p3"}}
MCPlc == [r \in Requests |-> "p1"]
MCItems == [r \in Requests |-> CASE r = "r2" -> {"t1", "t2"} [] r = "r3" -> {"t1"} [] OTHER -> {}]
=============================================================================
