--------------------------- MODULE MCClusterCache ---------------------------
(* Small instances of ClusterCache for TLC. *)
EXTENDS ClusterCache, TLC

PoolOrMinion == {{}, {"etcd", "minion"}}
OneRole == {{"minion"}}

BudgetOf(r, m, e, x) ==
    [k \in Kinds |-> CASE k = "restart"   -> r
                       [] k = "removal"   -> m
                       [] k = "readError" -> e
                       [] k = "expiry"    -> x]

Serving == BudgetOf(0, 1, 0, 1)       \* one server run, one transfer
Restarting == BudgetOf(1, 0, 0, 1)    \* a restart, no transfer
Disturbed == BudgetOf(1, 1, 1, 1)    \* every fault once
Recovering == BudgetOf(0, 0, 1, 2)   \* one server run, a failing read

LeaseSymmetry == Permutations(Leases)
=============================================================================
