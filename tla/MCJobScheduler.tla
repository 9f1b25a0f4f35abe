--------------------------- MODULE MCJobScheduler ---------------------------
(* Small clusters for JobScheduler. *)
EXTENDS JobScheduler, TLC

CONSTANTS a1, a2, a3, a4

\* Two ETCD nodes, a master on one and a load balancer on the other, and a
\* worker.
Spread == (a1 :> {"etcd", "master"}) @@ (a2 :> {"etcd", "ha"}) @@ (a3 :> {"minion"})

\* A master without load balancer and a worker.
NoBalancer == (a1 :> {"etcd", "master"}) @@ (a2 :> {"minion"})

\* The same with the load balancer beside the master.
Balanced == (a1 :> {"etcd", "master", "ha"}) @@ (a2 :> {"minion"})

\* One ETCD node more than expected.
FourEtcd == [a \in {a1, a2, a3, a4} |-> {"etcd"}]

\* Every role on one node.
AllInOne == (a1 :> {"etcd", "master", "minion"})

\* Each fault of F once.
Once(F) == [k \in Faults |-> IF k \in F THEN 1 ELSE 0]

Unfaulted == Once({})
Absences == Once({"offline"})
Staging == [Once({"start", "crash"}) EXCEPT !["offline"] = 2]
Delays == Once({"death", "install", "answer"})

NodeSymmetry == Permutations({a1, a2, a3, a4})
=============================================================================
