------------------------------ MODULE Rollout ------------------------------
(***************************************************************************)
(* What the installation of a cluster's services promises, without queries,*)
(* controllers, requests or monitors: objects are only ever added, each    *)
(* after those before it in its manifest and after the services before its *)
(* own, and agents are told that nothing is left to do once all services   *)
(* are there.  Installer implements it.                                    *)
(***************************************************************************)
EXTENDS Naturals

CONSTANTS
    Agents,     \* who may be told
    Manifests   \* in the order of installation, each with a size and a probe

VARIABLES
    exists,     \* exists[c]: objects of manifest c in the cluster
    served      \* agents that have been told

vars == <<exists, served>>

HasService(c) == Manifests[c].probe \in exists[c]

Init ==
    /\ exists = [c \in DOMAIN Manifests |-> {}]
    /\ served = {}

Add(c, i) ==
    /\ 1..(i - 1) \subseteq exists[c] /\ i \notin exists[c]
    /\ \A d \in 1..(c - 1) : HasService(d)
    /\ exists' = [exists EXCEPT ![c] = @ \cup {i}]
    /\ UNCHANGED served

Tell(a) ==
    /\ \A c \in DOMAIN Manifests : HasService(c)
    /\ served' = served \cup {a}
    /\ UNCHANGED exists

Next ==
    \/ \E c \in DOMAIN Manifests : \E i \in 1..Manifests[c].size : Add(c, i)
    \/ \E a \in Agents : Tell(a)

Spec == Init /\ [][Next]_vars
=============================================================================
