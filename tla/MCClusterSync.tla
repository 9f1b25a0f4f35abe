--------------------------- MODULE MCClusterSync ---------------------------
(* The pool and one cluster for ClusterSync. *)
EXTENDS ClusterSync, TLC

CONSTANTS n1, n2, g1, g2, k1, k2, k3

Times(removals, agents, requests, ends, stops) ==
    [k \in Faults |-> CASE k = "removal" -> removals [] k = "agent" -> agents
                        [] k = "etcd" -> requests [] k = "end" -> ends
                        [] k = "stop" -> stops]

Disturbances == Times(1, 1, 1, 1, 1)
Hindrances == Times(1, 1, 1, 0, 0)
OneRemoval == Times(1, 1, 0, 0, 0)
Undisturbed == Times(0, 0, 0, 0, 0)

Alike == Permutations({n1, n2}) \cup Permutations({g1, g2})
             \cup Permutations({k1, k2, k3})
=============================================================================
