----------------------------- MODULE MCPlcWrite -----------------------------
(* An instance of PlcWrite: one demo device, with a tag that has limits and *)
(* a virtual one, and a name and an alias more.                             *)
EXTENDS PlcWrite

MCDemo == << [name |-> "n1", tags |-> {"a", "v"}, limits |-> {"a"}, calc |-> {},
              enabled |-> TRUE, allowWrite |-> TRUE] >>
MCBodies == {[name |-> n, tags |-> {"a"}, limits |-> {}, calc |-> c, enabled |-> TRUE,
              allowWrite |-> TRUE] : n \in DeviceNames, c \in {{}, {"v"}}}

(* A seed like the demo device, and a configuration that has a name twice.  *)
MCPlain == [name |-> "n1", tags |-> {"a"}, limits |-> {}, calc |-> {"v"},
            enabled |-> TRUE, allowWrite |-> TRUE]
MCConfigs == {MCDemo, <<MCPlain, [MCPlain EXCEPT !.limits = {"a"}]>>}

MCSymmetry == Permutations(Writes)
=============================================================================
