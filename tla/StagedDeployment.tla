-------------------------- MODULE StagedDeployment --------------------------
(***************************************************************************)
(* What the job scheduler promises, without caches, reports or queries: a  *)
(* component is started on a node only when the stage before it is ready,  *)
(* where a node that was ready once counts.  JobScheduler implements it.   *)
(***************************************************************************)
EXTENDS Naturals, FiniteSets

CONSTANTS
    Agents,    \* the nodes
    RolesOf,   \* RolesOf[a]: the components node a is meant to run
    Expected,  \* expected_etcd_count
    HaCount    \* ha_settings.count, 0 when the cluster has no HA settings

Components == {"etcd", "master", "ha", "minion"}

VARIABLES
    joined,   \* nodes whose agent has registered
    started,  \* started[a]: components whose deployment was performed on a
    ready     \* ready[a]: components that have been healthy on a

vars == <<joined, started, ready>>

WithRole(c) == {a \in Agents : c \in RolesOf[a]}

ReadyNodes(c) == {a \in WithRole(c) : c \in ready[a]}

EtcdReady == Cardinality(ReadyNodes("etcd")) >= Expected
MasterReady == EtcdReady /\ ReadyNodes("master") # {}
HaReady == MasterReady /\ (HaCount > 0 => ReadyNodes("ha") # {})

\* The stage before component c.
MayStart(c) ==
    CASE c = "etcd"   -> Cardinality(joined \cap WithRole("etcd")) >= Expected
      [] c = "master" -> EtcdReady
      [] c = "ha"     -> /\ MasterReady
                         /\ Cardinality(joined \cap WithRole("ha")) >= HaCount
      [] c = "minion" -> HaReady

Init ==
    /\ joined = {}
    /\ started = [a \in Agents |-> {}]
    /\ ready = [a \in Agents |-> {}]

Join(a) ==
    /\ joined' = joined \cup {a}
    /\ UNCHANGED <<started, ready>>

Start(a, c) ==
    /\ a \in joined /\ c \in RolesOf[a]
    /\ MayStart(c)
    /\ started' = [started EXCEPT ![a] = @ \cup {c}]
    /\ UNCHANGED <<joined, ready>>

BecomeReady(a, C) ==
    /\ C \subseteq started[a]
    /\ ready' = [ready EXCEPT ![a] = @ \cup C]
    /\ UNCHANGED <<joined, started>>

Next ==
    \E a \in Agents :
        \/ Join(a)
        \/ \E c \in Components : Start(a, c)
        \/ \E C \in SUBSET Components : BecomeReady(a, C)

Spec == Init /\ [][Next]_vars
=============================================================================
