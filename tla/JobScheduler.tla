---------------------------- MODULE JobScheduler ----------------------------
(***************************************************************************)
(* Deploying one cluster: the scheduler's chain of strategies, which       *)
(* answers an agent's next-work query from the hot cache, and the agents,  *)
(* which perform one job at a time and report what they find healthy.      *)
(*                                                                         *)
(* A query copies the agent from the cache once and then reads the cache   *)
(* again in every strategy, each read under the cache's lock but the whole *)
(* chain under none: every read is a step, and agents come and go between  *)
(* two of them.                                                            *)
(*                                                                         *)
(* Abstracted: what ClusterCache models (a report reaches the cache in one *)
(* step here); the texts of addresses and manifests (an address is its     *)
(* agent); IsRunning, true of every entry a 15 second lease keeps cached.  *)
(* Bound: Budget caps lost leases, dying containers, failing installs,     *)
(* lost answers, containers that never start and fatal errors.             *)
(***************************************************************************)
EXTENDS Naturals, FiniteSets

CONSTANTS
    Agents,    \* the agents registered for this cluster
    RolesOf,   \* RolesOf[a]: the roles agent a was started with
    Expected,  \* settings.ExpectedETCDCount
    HaCount,   \* settings.HASettings.NodeCount, 0: no HASettings (the check of
               \*   a new cluster refuses HASettings with a count of 0)
    None,      \* not cached
    Budget     \* how often each kind of fault may happen

Components == {"etcd", "master", "ha", "minion"}
Resources == 3  \* network stack, DNS, extensional deployments, in this order
Faults == {"offline", "death", "install", "answer", "start", "crash"}

\* Where an agent's main loop is: waiting to ask, in one of the reads of its
\* query, holding a job, or waiting for the job's component to be healthy.
Asking == {"etcdCount", "etcdTotal", "etcdAddrs", "master", "ha", "haMasters",
           "haReady", "minion", "extras"}
Points == Asking \cup {"idle", "given", "waiting", "crashed"}

ASSUME RolesAssumption == RolesOf \in [Agents -> SUBSET Components]
ASSUME AgentsAssumption == IsFiniteSet(Agents)
ASSUME CountsAssumption == Expected \in Nat \ {0} /\ HaCount \in Nat
ASSUME NoneAssumption == \A flags \in SUBSET Components : flags # None
ASSUME BudgetAssumption == Budget \in [Faults -> Nat]

VARIABLES
    view,       \* view[a]: has_provisioned flags in the cache, or None
    phase,      \* phase[a]: deployment phase saved for a
    installed,  \* how many of the cluster's resources are installed
    work,       \* work[a]: the main loop of agent a and its query
    files,      \* files[a]: components whose job was performed on a
    peers,      \* peers[a]: initial-cluster of a's ETCD manifest
    down,       \* down[a]: components whose container is not up
    broken,     \* broken[a]: components whose container never started
    joined,     \* agents that have registered
    ready,      \* history: components a's health checks have found healthy
    spent       \* how much of Budget is used

nodeVars == <<files, peers, down, broken>>
vars == <<view, phase, installed, work, nodeVars, joined, ready, spent>>

Loop == [pc |-> "idle", flags |-> {}, job |-> "none", addrs |-> {}]
Asked(flags) ==
    [pc |-> "etcdCount", flags |-> flags, job |-> "none", addrs |-> {}]
Given(c, addrs) ==
    [pc |-> "given", flags |-> {}, job |-> c, addrs |-> addrs]

Spend(k) == /\ spent[k] < Budget[k]
            /\ spent' = [spent EXCEPT ![k] = @ + 1]

-----------------------------------------------------------------------------
(* The cache *)

Cached(c) == {a \in Agents : view[a] # None /\ c \in RolesOf[a]}

Provisioned(c) == {a \in Cached(c) : c \in view[a]}

-----------------------------------------------------------------------------
(* Health of the containers, as the agent's checks see it *)

\* An agent without the minion role starts kubelet when it registers, one with
\* it when it performs the minion job; the manifests need a kubelet.
Kubelet(a) == "minion" \in RolesOf[a] => "minion" \in files[a]

Up(a, c) == /\ c \in files[a] \ (down[a] \cup broken[a])
            /\ c \in {"etcd", "master"} => Kubelet(a)

\* ETCD members with the same initial-cluster form one cluster, others do not;
\* it needs a majority, and the check wants Expected started members.
Healthy(a, c) ==
    /\ Up(a, c)
    /\ c = "etcd" =>
          LET members == {b \in peers[a] : Up(b, "etcd")
                                            /\ peers[b] = peers[a]}
          IN  /\ Cardinality(members) >= Expected
              /\ 2 * Cardinality(members) > Cardinality(peers[a])

HealthySet(a) == {c \in Components : Healthy(a, c)}

-----------------------------------------------------------------------------
Init ==
    /\ view = [a \in Agents |-> None]
    /\ phase = [a \in Agents |-> 0]
    /\ installed = 0
    /\ work = [a \in Agents |-> Loop]
    /\ files = [a \in Agents |-> {}]
    /\ peers = [a \in Agents |-> {}]
    /\ down = [a \in Agents |-> {}]
    /\ broken = [a \in Agents |-> {}]
    /\ joined = {}
    /\ ready = [a \in Agents |-> {}]
    /\ spent = [k \in Faults |-> 0]

\* The agent registers; its state key says that nothing is provisioned.  A
\* registration repeated under the same id finds the settings: nothing changes.
Register(a) ==
    /\ a \notin joined
    /\ joined' = joined \cup {a}
    /\ view' = [view EXCEPT ![a] = {}]
    /\ UNCHANGED <<phase, installed, work, nodeVars, ready, spent>>

\* The status of every component, whatever the agent's roles.
Report(a) ==
    /\ a \in joined /\ work[a].pc # "crashed"
    /\ view' = [view EXCEPT ![a] = HealthySet(a)]
    /\ ready' = [ready EXCEPT ![a] = @ \cup HealthySet(a)]
    /\ UNCHANGED <<phase, installed, work, nodeVars, joined, spent>>

\* No report for 15 seconds: the lease runs out and the cache drops the agent.
GoOffline(a) ==
    /\ view[a] # None
    /\ IF work[a].pc = "crashed" THEN UNCHANGED spent ELSE Spend("offline")
    /\ view' = [view EXCEPT ![a] = None]
    /\ UNCHANGED <<phase, installed, work, nodeVars, joined, ready>>

ContainerDies(a) ==
    /\ \E c \in files[a] \ (down[a] \cup broken[a]) :
          down' = [down EXCEPT ![a] = @ \cup {c}]
    /\ Spend("death")
    /\ UNCHANGED <<view, phase, installed, work, files, peers, broken, joined,
                   ready>>

\* kubelet and docker restart what died.
ContainerRestarts(a) ==
    /\ \E c \in down[a] : down' = [down EXCEPT ![a] = @ \ {c}]
    /\ UNCHANGED <<view, phase, installed, work, files, peers, broken, joined,
                   ready, spent>>

-----------------------------------------------------------------------------
(* GetNextJob: the chain of strategies, one cache read per step *)

Goto(a, pc) == work' = [work EXCEPT ![a].pc = pc]

\* QueryAgentNextWorkItem saves the phase only when it grew.
Advance(a, p) == phase' = [phase EXCEPT ![a] = IF p > @ THEN p ELSE @]

\* ConditionNotConfirmed: the answer is a NOP.
NotConfirmed(a) ==
    /\ work' = [work EXCEPT ![a] = Loop]
    /\ Advance(a, 1)

\* Mutant: the answer leaves out which component the job is for.
ConfirmedUnnamed(a, c, addrs) ==
    /\ Advance(a, 1)
    /\ work' = [work EXCEPT ![a] = Given("none", addrs)]
    /\ UNCHANGED spent

\* ConditionConfirmed: the answer is a job, if it reaches the agent.
Confirmed(a, c, addrs) ==
    /\ Advance(a, 1)
    /\ \/ work' = [work EXCEPT ![a] = Given(c, addrs)] /\ UNCHANGED spent
       \/ work' = [work EXCEPT ![a] = Loop] /\ Spend("answer")

\* The agent has the role and, in the copy taken at the start, has not
\* provisioned it.
Lacks(a, c) == c \in RolesOf[a] /\ c \notin work[a].flags

Unmoved == UNCHANGED <<view, nodeVars, joined, ready>>

QueryBegin(a) ==
    /\ a \in joined /\ work[a].pc = "idle" /\ view[a] # None
    /\ work' = [work EXCEPT ![a] = Asked(view[a])]
    /\ UNCHANGED <<phase, installed, spent>> /\ Unmoved

\* Mutant: one provisioned ETCD node more than expected is waited for.
EtcdCountOneMore(a) ==
    /\ work[a].pc = "etcdCount"
    /\ IF Cardinality(Provisioned("etcd")) > Expected
       THEN Goto(a, "master") /\ UNCHANGED phase
       ELSE IF Lacks(a, "etcd") THEN Goto(a, "etcdTotal") /\ UNCHANGED phase
       ELSE NotConfirmed(a)
    /\ UNCHANGED <<installed, spent>> /\ Unmoved

EtcdCount(a) ==
    /\ work[a].pc = "etcdCount"
    /\ IF Cardinality(Provisioned("etcd")) >= Expected
       THEN Goto(a, "master") /\ UNCHANGED phase
       ELSE IF Lacks(a, "etcd") THEN Goto(a, "etcdTotal") /\ UNCHANGED phase
       ELSE NotConfirmed(a)
    /\ UNCHANGED <<installed, spent>> /\ Unmoved

\* Mutant: the barrier opens one ETCD node early.
EtcdTotalOneLess(a) ==
    /\ work[a].pc = "etcdTotal"
    /\ IF Cardinality(Cached("etcd")) + 1 < Expected
       THEN NotConfirmed(a)
       ELSE Goto(a, "etcdAddrs") /\ UNCHANGED phase
    /\ UNCHANGED <<installed, spent>> /\ Unmoved

EtcdTotal(a) ==
    /\ work[a].pc = "etcdTotal"
    /\ IF Cardinality(Cached("etcd")) < Expected
       THEN NotConfirmed(a)
       ELSE Goto(a, "etcdAddrs") /\ UNCHANGED phase
    /\ UNCHANGED <<installed, spent>> /\ Unmoved

EtcdAddrs(a) ==
    /\ work[a].pc = "etcdAddrs"
    /\ Confirmed(a, "etcd", Cached("etcd"))
    /\ UNCHANGED installed /\ Unmoved

Master(a) ==
    /\ work[a].pc = "master"
    /\ IF Lacks(a, "master") THEN Confirmed(a, "master", {})
       ELSE /\ IF Provisioned("master") = {} THEN NotConfirmed(a)
               ELSE Goto(a, "ha") /\ UNCHANGED phase
            /\ UNCHANGED spent
    /\ UNCHANGED installed /\ Unmoved

Ha(a) ==
    /\ work[a].pc = "ha"
    /\ IF HaCount = 0 THEN Goto(a, "minion") /\ UNCHANGED phase
       ELSE IF Cardinality(Cached("ha")) < HaCount THEN NotConfirmed(a)
       ELSE /\ Goto(a, IF Lacks(a, "ha") THEN "haMasters" ELSE "haReady")
            /\ UNCHANGED phase
    /\ UNCHANGED <<installed, spent>> /\ Unmoved

HaMasters(a) ==
    /\ work[a].pc = "haMasters"
    /\ Confirmed(a, "ha", Cached("master"))
    /\ UNCHANGED installed /\ Unmoved

HaReady(a) ==
    /\ work[a].pc = "haReady"
    /\ IF Provisioned("ha") = {} THEN NotConfirmed(a)
       ELSE Goto(a, "minion") /\ UNCHANGED phase
    /\ UNCHANGED <<installed, spent>> /\ Unmoved

\* Mutant: with no master in the cache the minion is passed over.
MinionPassedOver(a) ==
    /\ work[a].pc = "minion"
    /\ IF Lacks(a, "minion") /\ Provisioned("master") # {}
       THEN Confirmed(a, "minion", Provisioned("master"))
       ELSE Goto(a, "extras") /\ UNCHANGED <<phase, spent>>
    /\ UNCHANGED installed /\ Unmoved

Minion(a) ==
    /\ work[a].pc = "minion"
    /\ IF Lacks(a, "minion") THEN Confirmed(a, "minion", Provisioned("master"))
       ELSE Goto(a, "extras") /\ UNCHANGED <<phase, spent>>
    /\ UNCHANGED installed /\ Unmoved

\* The remaining strategies act on the cluster instead of handing out jobs:
\* they install what is missing, in order, and stop at the first error.
Extras(a) ==
    /\ work[a].pc = "extras"
    /\ work' = [work EXCEPT ![a] = Loop]
    /\ \/ installed' = Resources /\ Advance(a, 2) /\ UNCHANGED spent
       \/ /\ installed' \in installed..Resources /\ Spend("install")
          /\ UNCHANGED phase
    /\ Unmoved

-----------------------------------------------------------------------------
(* The agent: performJob, handleJob and the main loop's wait *)

\* A job whose addresses are missing is refused.
Refused(a) ==
    /\ work[a].addrs = {}
    /\ \/ work[a].job \in {"etcd", "ha"}
       \/ work[a].job = "minion" /\ HaCount = 0

\* The containers "ha" and "kubelet" cannot be created a second time.
NameTaken(a) == work[a].job \in {"ha", "minion"} /\ work[a].job \in files[a]

\* The health check comes first: a component that runs already is skipped.
JobSkipped(a) ==
    /\ work[a].pc = "given" /\ Healthy(a, work[a].job)
    /\ work' = [work EXCEPT ![a] = Loop]
    /\ ready' = [ready EXCEPT ![a] = @ \cup {work[a].job}]
    /\ UNCHANGED <<view, phase, installed, nodeVars, joined, spent>>

\* The job is done without effect and its error logged; an error meant to end
\* the process does so if the error library recognises it, which the version
\* pinned in go.mod does not.
GiveUp(a) ==
    \/ work' = [work EXCEPT ![a] = Loop] /\ UNCHANGED spent
    \/ Goto(a, "crashed") /\ Spend("crash")

JobFails(a) ==
    /\ work[a].pc = "given" /\ ~Healthy(a, work[a].job)
    /\ Refused(a) \/ NameTaken(a)
    /\ GiveUp(a)
    /\ UNCHANGED <<view, phase, installed, nodeVars, joined, ready>>

\* The container is created, but starting it fails: it is never started.
StartFails(a) ==
    /\ work[a].pc = "given" /\ ~Healthy(a, work[a].job)
    /\ ~Refused(a) /\ ~NameTaken(a) /\ work[a].job \in {"ha", "minion"}
    /\ Spend("start")
    /\ work' = [work EXCEPT ![a] = Loop]
    /\ files' = [files EXCEPT ![a] = @ \cup {work[a].job}]
    /\ broken' = [broken EXCEPT ![a] = @ \cup {work[a].job}]
    /\ UNCHANGED <<view, phase, installed, peers, down, joined, ready>>

Perform(a) ==
    LET c == work[a].job IN
    /\ work[a].pc = "given" /\ ~Healthy(a, c)
    /\ ~Refused(a) /\ ~NameTaken(a)
    /\ files' = [files EXCEPT ![a] = @ \cup {c}]
    /\ peers' = IF c = "etcd" THEN [peers EXCEPT ![a] = work[a].addrs]
                              ELSE peers
    /\ Goto(a, "waiting")
    /\ UNCHANGED <<view, phase, installed, down, broken, joined, ready, spent>>

\* The main loop asks for nothing else until the component is healthy.
JobHealthy(a) ==
    /\ work[a].pc = "waiting" /\ Healthy(a, work[a].job)
    /\ ready' = [ready EXCEPT ![a] = @ \cup {work[a].job}]
    /\ work' = [work EXCEPT ![a] = Loop]
    /\ UNCHANGED <<view, phase, installed, nodeVars, joined, spent>>

-----------------------------------------------------------------------------
Query(a) ==
    \/ QueryBegin(a)
    \/ EtcdCount(a) \/ EtcdTotal(a) \/ EtcdAddrs(a)
    \/ Master(a)
    \/ Ha(a) \/ HaMasters(a) \/ HaReady(a)
    \/ Minion(a) \/ Extras(a)

Job(a) == JobSkipped(a) \/ JobFails(a) \/ Perform(a) \/ JobHealthy(a)

MainLoop(a) == Query(a) \/ Job(a)

Next ==
    \E a \in Agents :
        \/ Register(a) \/ Report(a) \/ MainLoop(a) \/ StartFails(a)
        \/ GoOffline(a) \/ ContainerDies(a) \/ ContainerRestarts(a)

Spec == Init /\ [][Next]_vars

\* The agents' loops keep running and what died is restarted.
Fairness ==
    \A a \in Agents : /\ WF_vars(Register(a)) /\ WF_vars(Report(a))
                      /\ WF_vars(MainLoop(a)) /\ WF_vars(ContainerRestarts(a))

FairSpec == Spec /\ Fairness

-----------------------------------------------------------------------------
(* The same cluster behind a cache that lags.  A write to ETCD reaches the *)
(* cache later, together with others or not at all, and a registration and *)
(* a report are answered without it.  What the cache shows meanwhile is    *)
(* something that was stored once: ShowsOnlyStored of ClusterCache.        *)

\* The keys are saved, the cache does not know.
RegisterUnseen(a) ==
    /\ a \notin joined
    /\ joined' = joined \cup {a}
    /\ UNCHANGED <<view, phase, installed, work, nodeVars, ready, spent>>

ReportUnseen(a) ==
    /\ a \in joined /\ work[a].pc # "crashed"
    /\ ready' = [ready EXCEPT ![a] = @ \cup HealthySet(a)]
    /\ UNCHANGED <<view, phase, installed, work, nodeVars, joined, spent>>

\* The watcher puts some earlier report into the cache, or takes the agent
\* out of it.
CacheRefreshed(a) ==
    /\ a \in joined
    /\ \E flags \in (SUBSET ready[a]) \cup {None} :
          view' = [view EXCEPT ![a] = flags]
    /\ UNCHANGED <<phase, installed, work, nodeVars, joined, ready, spent>>

Lagging(a) == RegisterUnseen(a) \/ ReportUnseen(a) \/ CacheRefreshed(a)

LaggingNext == Next \/ \E a \in Agents : Lagging(a)

LaggingSpec == Init /\ [][LaggingNext]_vars

-----------------------------------------------------------------------------
(* Properties *)

\* Type invariant.
TypeOK ==
    /\ view \in [Agents -> (SUBSET Components) \cup {None}]
    /\ phase \in [Agents -> 0..2]
    /\ installed \in 0..Resources
    /\ work \in [Agents -> [pc : Points, flags : SUBSET Components,
                            job : Components \cup {"none"},
                            addrs : SUBSET Agents]]
    /\ \A a \in Agents :
          work[a].pc \in {"given", "waiting"} => work[a].job \in Components
    /\ files \in [Agents -> SUBSET Components]
    /\ peers \in [Agents -> SUBSET Agents]
    /\ down \in [Agents -> SUBSET Components]
    /\ broken \in [Agents -> SUBSET Components]
    /\ joined \in SUBSET Agents
    /\ ready \in [Agents -> SUBSET Components]
    /\ spent \in [Faults -> Nat]

\* The scheduler deploys in stages: whatever comes and goes between the reads
\* of a query, a component is started only when the stage before it has been
\* ready, on a node meant to run it, and ETCD and HA only when the configured
\* number of nodes has shown up.
Staged == INSTANCE StagedDeployment
              WITH started <- files
StagedSpec == Staged!Spec

\* The components agent a must have deployed before it counts as deployed: the
\* scheduler lets it pass as an ETCD node when enough others are provisioned,
\* and as a load balancer when the cluster has no HA settings.
Needed(a) == RolesOf[a] \ ({"etcd"} \cup IF HaCount = 0 THEN {"ha"} ELSE {})

\* The phase saved as "deployed" is true: the components the agent needs have
\* been healthy on it, the ETCD cluster, a master and the load balancers have
\* been ready, and the cluster's resources are installed.
DeployedIsReady ==
    \A a \in Agents : phase[a] = 2 =>
        /\ Needed(a) \subseteq ready[a]
        /\ Staged!HaReady
        /\ installed = Resources

(* The inductive invariant behind StagedSpec and DeployedIsReady. *)

\* The cache shows registered agents, and nothing that was never healthy.
ViewInv == \A a \in Agents : view[a] # None => /\ a \in joined
                                               /\ view[a] \subseteq ready[a]

\* What a query has established about its agent when it is at a point ...
OfAgent(a) ==
    LET pc == work[a].pc
        Has(c) == c \in RolesOf[a] => c \in ready[a]
    IN  /\ pc \in Asking \cup {"given"} => a \in joined
        /\ pc \in Asking => work[a].flags \subseteq ready[a]
        /\ pc \in {"etcdTotal", "etcdAddrs"} => "etcd" \in RolesOf[a]
        /\ pc = "haMasters" => "ha" \in RolesOf[a]
        /\ pc = "given" => work[a].job \in RolesOf[a]
        /\ pc \in {"ha", "haMasters", "haReady", "minion", "extras"}
              => Has("master")
        /\ pc = "haReady" => Has("ha")
        /\ pc \in {"minion", "extras"} => HaCount = 0 \/ Has("ha")
        /\ pc = "extras" => Has("minion")

\* ... and about the stages of the cluster.
OfCluster(a) ==
    LET pc == work[a].pc
    IN  /\ pc = "etcdAddrs" => Staged!MayStart("etcd")
        /\ pc = "master" => Staged!EtcdReady
        /\ pc \in {"ha", "haMasters", "haReady"} => Staged!MasterReady
        /\ pc = "haMasters" => Staged!MayStart("ha")
        /\ pc \in {"minion", "extras"} => Staged!HaReady
        /\ pc = "given" => Staged!MayStart(work[a].job)

QueryInv == \A a \in Agents : OfAgent(a) /\ OfCluster(a)

\* Every agent of a cluster of the documented shape gets everything it needs:
\* failed installs, lost answers and dying containers only delay it.
EventuallyDeployed == \A a \in Agents : <>(phase[a] = 2)

\* What documents and assertions claim; the runs that refute it are findings.

\* README: the ETCD nodes form one cluster.  Nodes form a cluster when their
\* manifests name the same members.
EtcdNodesFormCluster ==
    \A a, b \in Agents :
        "etcd" \in files[a] \cap files[b] => peers[a] = peers[b]

\* HandleDeployMinion: a job without master addresses is illegal.
JobsNameMasters ==
    \A a \in Agents : work[a].pc = "given" /\ work[a].job = "minion"
                          => HaCount > 0 \/ work[a].addrs # {}

\* Register: without the minion role kubelet is started at once, "otherwise,
\* wait until all of depended components has been started".  The wait ends.
EveryJobEnds ==
    \A a \in Agents : work[a].pc = "waiting" ~> work[a].pc # "waiting"

=============================================================================
