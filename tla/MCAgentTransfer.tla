--------------------------- MODULE MCAgentTransfer ---------------------------
(* Two clusters and the pool for AgentTransfer. *)
EXTENDS AgentTransfer, TLC

CONSTANTS pool, c1, c2

Roles == {{}, {"minion"}}
InCluster == [cluster |-> c1, roles |-> {"minion"}]
InPool == [cluster |-> pool, roles |-> {}]

Times(transfers, crashes, torn, requests, calls, queried) ==
    [k \in Kinds |-> CASE k = "transfer" -> transfers [] k = "crash" -> crashes
                       [] k = "tornSave" -> torn [] k = "request" -> requests
                       [] k = "call" -> calls
                       [] k = "query" -> queried]

Disturbances == Times(2, 1, 1, 1, 1, 1)
OneTransfer == Times(1, 0, 0, 0, 0, 0)
OneRestart == Times(0, 1, 0, 0, 0, 0)
TornSave == Times(1, 0, 1, 0, 0, 0)
LostCall == Times(1, 0, 0, 0, 1, 0)
LateQuery == Times(1, 0, 0, 0, 0, 1)
=============================================================================
