--------------------------- MODULE MCConfigStore ---------------------------
EXTENDS ConfigStore, TLC

CONSTANTS http, https,          \* the two uvicorn processes
          worker, other, loop   \* two pool threads, and an event-loop thread

MCProcesses == {http, https}
MCThreads == {worker, other, loop}

\* In the http process a pool thread works beside the event loop, which answers GETs
\* and runs PUT /api/ml/config; the https process has a pool thread at work.
MCProcessOf == [t \in MCThreads |-> IF t = other THEN https ELSE http]
MCServes ==
    [t \in MCThreads |->
        CASE t = worker -> {"edit", "upload", "restore", "snapshot"}
          [] t = other  -> {"edit", "put"}
          [] t = loop   -> {"read", "ml"}]

\* The same without PUT /api/ml/config, and edits only.
MCEditsServes == [t \in MCThreads |-> IF t = loop THEN {"read"} ELSE {"edit"}]

MCSymmetry == Permutations(Requests)

\* The run goes up to the first trouble, not beyond: what is promised after one is
\* proved in ConfigStoreProofs.
MCUntroubled == trouble = {}
=============================================================================
