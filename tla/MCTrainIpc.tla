----------------------------- MODULE MCTrainIpc -----------------------------
EXTENDS TrainIpc

CONSTANTS k1, k2,                \* calls
          bearing, overheat      \* what they ask to be trained

MCCalls == {k1, k2}
MCPairs == {bearing, overheat}

\* Both calls ask for the same model.
MCSamePair == [k \in MCCalls |-> bearing]
=============================================================================
