----------------------------- MODULE Installer -----------------------------
(***************************************************************************)
(* The end of the scheduler's chain: strategies that give an agent nothing *)
(* to do but act on its cluster.  The API server installs the network      *)
(* stack, DNS and the extensional deployments through the Kubernetes API,  *)
(* starts its monitors, and has the masters route to the pods once the     *)
(* metrics server is healthy.                                              *)
(*                                                                         *)
(* Every query that gets this far runs the chain in a goroutine of its     *)
(* own and no lock is held, so installations overlap.  Clients and         *)
(* controllers are created by the first query that misses them.  A         *)
(* manifest is installed object by object, and is taken for installed when *)
(* one of its objects, the probe, exists.                                  *)
(*                                                                         *)
(* Abstracted: an object is its position in its manifest; all masters      *)
(* serve the same objects; of a controller only its address and what it    *)
(* has seen installed are kept, the latter together for all controllers of *)
(* a manifest; the routes an agent adds to its table are left out.  The    *)
(* existence check of an object asks for any version (ResourceVersion "0") *)
(* and may miss an object.  Bound: Budget caps failed requests, lost       *)
(* answers, stale reads, moments without a cached master, lost masters,    *)
(* restarts of the server and relapses of the metrics server.              *)
(***************************************************************************)
EXTENDS Naturals, Sequences

CONSTANTS
    Agents,     \* those whose queries reach this part of the chain
    Masters,    \* the provisioned masters
    Requested,  \* requested extensional deployments, in installation order
    Metrics,    \* the position in Manifests of metrics-server, 0: none
    Monitors,   \* the monitors the server starts
    None,       \* a pointer that is not set
    Empty,      \* the address before it is known
    Budget      \* how often each kind of fault may happen

Faults == {"request", "answer", "stale", "cache", "master", "restart",
           "relapse"}

-----------------------------------------------------------------------------
(* The manifests: how many objects, and which of them is the probe *)

KubeRouter    == [size |-> 5, probe |-> 2]
CoreDNS       == [size |-> 6, probe |-> 5]
PullSecrets   == [size |-> 2, probe |-> 1]  \* as many as the settings have
Prometheus    == [size |-> 5, probe |-> 4]
MetricServer  == [size |-> 9, probe |-> 6]
Traefik       == [size |-> 8, probe |-> 2]
ElasticSearch == [size |-> 8, probe |-> 3]
Filebeat      == [size |-> 5, probe |-> 2]
Metricbeat    == [size |-> 6, probe |-> 3]
Helm          == [size |-> 4, probe |-> 1]

Manifests == <<KubeRouter, CoreDNS>> \o Requested

Network == 1
Dns == 2
FirstExt == 3
Last == Len(Manifests)
Components == 1..Last

ASSUME ManifestAssumption ==
    Requested \in Seq([size : Nat \ {0}, probe : Nat \ {0}])
    /\ \A i \in 1..Len(Requested) : Requested[i].probe <= Requested[i].size
ASSUME MonitorsAssumption ==
    {"deployment"} \subseteq Monitors
    /\ Monitors \subseteq {"sys", "deployment", "daemonset"}
ASSUME MetricsAssumption == Metrics \in {0} \cup (FirstExt..Last)
ASSUME InstallerBudget == Budget \in [Faults -> Nat]
ASSUME NoneAssumption == None \notin BOOLEAN \cup Masters \cup {Empty}

VARIABLES
    exists,      \* exists[c]: objects of manifest c in the cluster
    address,     \* the API server address in the network stack's manifest
    up,          \* the masters that run
    client,      \* cc.cs.CoreClient: the master it talks to, or None
    ip,          \* cc.k8sClientIP
    controller,  \* controller[c]: address given to c's controller, or None
    flag,        \* flag[c]: hasInstalled of c's controller
    monitoring,  \* cc.monitors have been started
    points,      \* points[m]: does monitor m list metrics-server as healthy?
    healthy,     \* the metrics server is healthy
    query,       \* query[a]: where a's query is in the chain
    served,      \* agents that were told "no any operations should perform"
    spent        \* how much of Budget is used

cluster == <<exists, address, healthy, up>>
lazy == <<client, ip, controller>>
watched == <<monitoring, points>>
vars == <<cluster, lazy, flag, watched, query, served, spent>>

\* A query: the step it is at, the manifest and the object it is concerned
\* with, and an address: of the master it makes a client for, later the one
\* in the controller it has got hold of.
Points == {"idle", "client", "build", "address", "controller", "create",
           "keep", "get", "check", "recheck", "exists", "object", "points",
           "routes"}
Addresses == Masters \cup {Empty}
Query == [at : Points, comp : 1..(Last + 1), obj : Nat, addr : Addresses]
Idle == [at |-> "idle", comp |-> 1, obj |-> 0, addr |-> Empty]

\* The extensional deployments share one controller, kept at FirstExt.
Owner(c) == IF c >= FirstExt THEN FirstExt ELSE c
Owners == 1..FirstExt

Spend(k) == /\ spent[k] < Budget[k]
            /\ spent' = [spent EXCEPT ![k] = @ + 1]

At(a, point) == query[a].at = point
Becomes(a, point, c, i, addr) ==
    query' = [query EXCEPT ![a] = [at |-> point, comp |-> c, obj |-> i,
                                   addr |-> addr]]
Learn(a, point, addr) == Becomes(a, point, query[a].comp, query[a].obj, addr)
Go(a, point) == Learn(a, point, query[a].addr)
Seek(a, point, i) == Becomes(a, point, query[a].comp, i, query[a].addr)
GoTo(a, point, c) == Becomes(a, point, c, 0, query[a].addr)

\* The strategy reports an error, or its goroutine panics: no answer for a.
GiveUp(a) == query' = [query EXCEPT ![a] = Idle]

-----------------------------------------------------------------------------
Init ==
    /\ exists = [c \in Components |-> {}]
    /\ address = None
    /\ healthy = FALSE
    /\ up = Masters
    /\ client = None
    /\ ip = Empty
    /\ controller = [c \in Owners |-> None]
    /\ flag = [c \in Components |-> FALSE]
    /\ points = [m \in Monitors |-> None]
    /\ monitoring = FALSE
    /\ query = [a \in Agents |-> Idle]
    /\ served = {}
    /\ spent = [k \in Faults |-> 0]

\* The client talks to one master, for good.
Reachable == client \in up

\* The query has passed the strategies of JobScheduler.
Begin(a) ==
    /\ At(a, "idle") /\ (a \in Masters => a \in up)
    /\ Go(a, "client")
    /\ UNCHANGED <<cluster, lazy, flag, watched, served, spent>>

-----------------------------------------------------------------------------
(* InitializeKubernetesClient *)

\* The client is there: lazy load, skipped.
ClientReady(a) ==
    /\ At(a, "client") /\ client # None
    /\ Go(a, "controller")
    /\ UNCHANGED <<cluster, lazy, flag, watched, served, spent>>

\* A cached provisioned master is chosen ...
ChooseMaster(a) ==
    /\ At(a, "client") /\ client = None
    /\ \E m \in up : Learn(a, "build", m)
    /\ UNCHANGED <<cluster, lazy, flag, watched, served, spent>>

\* ... a client for it is made; that the struct around it is made once only, and
\* that its second client is never missing, is assumed ...
CreateClient(a) ==
    /\ At(a, "build")
    /\ client' = query[a].addr
    /\ Go(a, "address")
    /\ UNCHANGED <<cluster, ip, controller, flag, watched, served, spent>>

\* ... and only after it the address is noted.
NoteAddress(a) ==
    /\ At(a, "address")
    /\ ip' = query[a].addr
    /\ Go(a, "controller")
    /\ UNCHANGED <<cluster, client, controller, flag, watched, served, spent>>

\* No provisioned master is cached at this moment.
NoMaster(a) ==
    /\ At(a, "client") /\ client = None
    /\ Spend("cache")
    /\ GiveUp(a)
    /\ UNCHANGED <<cluster, lazy, flag, watched, served>>

-----------------------------------------------------------------------------
(* Initialize{Network,DNS,ExtensionDeployment}Controller *)

\* Mutant: the check for nil is missing.
HasControllerUnchecked(a) ==
    /\ At(a, "controller")
    /\ Go(a, "get")
    /\ UNCHANGED <<cluster, lazy, flag, watched, served, spent>>

\* There is a controller, or one has to be made ...
HasController(a) ==
    /\ At(a, "controller")
    /\ Go(a, IF controller[query[a].comp] = None THEN "create" ELSE "get")
    /\ UNCHANGED <<cluster, lazy, flag, watched, served, spent>>

\* ... with the address that is known by then ...
CreateController(a) ==
    /\ At(a, "create")
    /\ Learn(a, "keep", ip)
    /\ UNCHANGED <<cluster, lazy, flag, watched, served, spent>>

\* ... which replaces one that another query has made meanwhile, and has not
\* seen anything installed.
KeepController(a) ==
    LET c == query[a].comp
    IN  /\ At(a, "keep")
        /\ controller' = [controller EXCEPT ![c] = query[a].addr]
        /\ flag' = [k \in Components |-> Owner(k) # c /\ flag[k]]
        /\ Go(a, "get")
        /\ UNCHANGED <<cluster, client, ip, watched, served, spent>>

\* Get{Network,DNS,ExtensionDeployment}Controller, and past the extensional
\* deployments when none is requested.
GetController(a) ==
    /\ At(a, "get")
    /\ Learn(a, IF query[a].comp <= Last THEN "check" ELSE "points",
             controller[query[a].comp])
    /\ UNCHANGED <<cluster, lazy, flag, watched, served, spent>>

-----------------------------------------------------------------------------
(* HasInstalled and Install *)

\* Where the chain goes after manifest c: to the next strategy, to the next
\* extensional deployment or past them all.  EnableMonitors comes after DNS.
Onward(a, c, point) ==
    /\ GoTo(a, IF c < FirstExt THEN "client"
               ELSE IF c < Last THEN point ELSE "points", c + 1)
    /\ monitoring' = (monitoring \/ c = Dns)
    /\ UNCHANGED points

\* Mutant: the first object of the manifest is asked for.
SeemsInstalledByFirst(c) == flag[c] \/ 1 \in exists[c]

\* Mutant: any object of the manifest will do.
SeemsInstalledByAny(c) == flag[c] \/ exists[c] # {}

\* HasInstalled: the flag of the controller, or the probe in the cluster.
SeemsInstalled(c) == flag[c] \/ Manifests[c].probe \in exists[c]

HasInstalled(a) ==
    LET c == query[a].comp
    IN  /\ query[a].at \in {"check", "recheck"} /\ c <= Last
        /\ flag[c] \/ Reachable
        /\ SeemsInstalled(c)
        /\ flag' = [flag EXCEPT ![c] = TRUE]
        /\ Onward(a, c, query[a].at)
        /\ UNCHANGED <<cluster, lazy, served, spent>>

\* Mutant: the loop over the objects starts at 1.
InstallFromSecond(a) ==
    LET c == query[a].comp
    IN  /\ query[a].at \in {"check", "recheck"} /\ c <= Last
        /\ Reachable /\ ~SeemsInstalled(c)
        /\ IF At(a, "check") /\ c >= FirstExt
           THEN GoTo(a, "recheck", FirstExt)
           ELSE Seek(a, "exists", 2)
        /\ UNCHANGED <<cluster, lazy, flag, watched, served, spent>>

\* Something is missing.  The extensional deployments are gone through again
\* from the first one, each checked once more.
Install(a) ==
    LET c == query[a].comp
    IN  /\ query[a].at \in {"check", "recheck"} /\ c <= Last
        /\ Reachable /\ ~SeemsInstalled(c)
        /\ IF At(a, "check") /\ c >= FirstExt
           THEN GoTo(a, "recheck", FirstExt)
           ELSE Seek(a, "exists", 1)
        /\ UNCHANGED <<cluster, lazy, flag, watched, served, spent>>

\* Mutant: an error that says the object is not found is one like others.
ObjectExistsOrFails(a) ==
    LET c == query[a].comp
        i == query[a].obj
    IN  /\ At(a, "exists") /\ i <= Manifests[c].size /\ Reachable
        /\ IF i \in exists[c]
           THEN Seek(a, "exists", i + 1) ELSE GiveUp(a)
        /\ UNCHANGED <<cluster, lazy, flag, watched, served, spent>>

\* IsKubernetesResourceExists: a stale read may miss the object.
ObjectExists(a) ==
    LET c == query[a].comp
        i == query[a].obj
    IN  /\ At(a, "exists") /\ i <= Manifests[c].size /\ Reachable
        /\ \/ /\ i \in exists[c]
              /\ Seek(a, "exists", i + 1)
              /\ UNCHANGED spent
           \/ /\ i \notin exists[c]
              /\ Go(a, "object") /\ UNCHANGED spent
           \/ /\ i \in exists[c]
              /\ Go(a, "object") /\ Spend("stale")
        /\ UNCHANGED <<cluster, lazy, flag, watched, served>>

\* The object appears in the cluster; kube-router's first one, a ConfigMap,
\* has the address.
Appears(c, i, addr) ==
    /\ i \notin exists[c]
    /\ exists' = [exists EXCEPT ![c] = @ \cup {i}]
    /\ address' = IF c = Network /\ i = 1 THEN addr
                  ELSE address

\* CreateK8SResource.
CreateObject(a) ==
    /\ At(a, "object") /\ Reachable
    /\ Appears(query[a].comp, query[a].obj, query[a].addr)
    /\ Seek(a, "exists", query[a].obj + 1)
    /\ UNCHANGED <<healthy, up, lazy, flag, watched, served, spent>>

\* Mutant: a failed installation is only logged.
AnswerLostLogged(a) ==
    /\ At(a, "object") /\ Reachable
    /\ Appears(query[a].comp, query[a].obj, query[a].addr)
    /\ Spend("answer")
    /\ Onward(a, query[a].comp, "recheck")
    /\ UNCHANGED <<healthy, up, lazy, flag, served>>

\* The object is created and the answer is lost.
AnswerLost(a) ==
    /\ At(a, "object") /\ Reachable
    /\ Appears(query[a].comp, query[a].obj, query[a].addr)
    /\ Spend("answer")
    /\ GiveUp(a)
    /\ UNCHANGED <<healthy, up, lazy, flag, watched, served>>

\* Somebody else has created it meanwhile: an error.
AlreadyExists(a) ==
    /\ At(a, "object") /\ Reachable
    /\ query[a].obj \in exists[query[a].comp]
    /\ GiveUp(a)
    /\ UNCHANGED <<cluster, lazy, flag, watched, served, spent>>

\* All objects are there.
Installed(a) ==
    LET c == query[a].comp
    IN  /\ At(a, "exists") /\ query[a].obj > Manifests[c].size
        /\ Onward(a, c, "recheck")
        /\ UNCHANGED <<cluster, lazy, flag, served, spent>>

\* A request to the Kubernetes API is due ...
Requests(a) ==
    \/ At(a, "object") \/ At(a, "routes")
    \/ At(a, "exists") /\ query[a].obj <= Manifests[query[a].comp].size
    \/ /\ query[a].at \in {"check", "recheck"} /\ query[a].comp <= Last
       /\ ~flag[query[a].comp]

\* ... and fails without effect ...
RequestFails(a) ==
    /\ Requests(a) /\ Reachable
    /\ Spend("request")
    /\ GiveUp(a)
    /\ UNCHANGED <<cluster, lazy, flag, watched, served>>

\* ... as all do once the client's master is gone.
NoAnswer(a) ==
    /\ Requests(a) /\ ~Reachable
    /\ GiveUp(a)
    /\ UNCHANGED <<cluster, lazy, flag, watched, served, spent>>

-----------------------------------------------------------------------------
(* The monitors and MetricsServerAddStaticRouteStrategy *)

\* doMonitor: only deployments list the metrics server.
MonitorLists(m) ==
    /\ monitoring /\ Reachable
    /\ points' = [points EXCEPT ![m] = m = "deployment" /\ healthy]
    /\ UNCHANGED <<cluster, lazy, flag, monitoring, query, served, spent>>

\* A failed list empties what was seen, the one of system components does
\* not.
MonitorFails(m) ==
    /\ monitoring
    /\ IF Reachable THEN Spend("request") ELSE UNCHANGED spent
    /\ points' = IF m = "sys" THEN points ELSE [points EXCEPT ![m] = FALSE]
    /\ UNCHANGED <<cluster, lazy, flag, monitoring, query, served>>

Deployed(a) ==
    /\ served' = served \cup {a}
    /\ query' = [query EXCEPT ![a] = Idle]

\* The chain ends here unless a is a master and there is a metrics server.
NoRoutes(a) ==
    /\ At(a, "points")
    /\ a \notin Masters \/ Metrics = 0
    /\ Deployed(a)
    /\ UNCHANGED <<cluster, lazy, flag, watched, spent>>

\* GetWachPoints: a monitor that has not listed anything yet is a nil pointer
\* and the request panics; without a healthy metrics server it is an error.
Unhealthy(a) ==
    /\ At(a, "points") /\ a \in Masters /\ Metrics # 0
    /\ (\E m \in Monitors : points[m] = None) \/ points["deployment"] # TRUE
    /\ GiveUp(a)
    /\ UNCHANGED <<cluster, lazy, flag, watched, served, spent>>

Healthy(a) ==
    /\ At(a, "points") /\ a \in Masters /\ Metrics # 0
    /\ \A m \in Monitors : points[m] # None
    /\ points["deployment"] = TRUE
    /\ Go(a, "routes")
    /\ UNCHANGED <<cluster, lazy, flag, watched, served, spent>>

\* The nodes are listed and sent to the agent, which adds routes to their pods;
\* an error of that call is only logged.
SendRoutes(a) ==
    /\ At(a, "routes") /\ Reachable
    /\ Deployed(a)
    /\ UNCHANGED <<cluster, lazy, flag, watched, spent>>

-----------------------------------------------------------------------------
(* The environment *)

\* The probe is the Deployment, and what comes after it in the manifest is not
\* asked for by the status the monitor reads: its pods need the objects before.
MetricsServerStarts ==
    /\ Metrics # 0 /\ ~healthy
    /\ Manifests[Metrics].probe \in exists[Metrics]
    /\ healthy' = TRUE
    /\ UNCHANGED <<exists, address, up, lazy, flag, watched, query, served,
                   spent>>

MetricsServerFails ==
    /\ healthy
    /\ Spend("relapse")
    /\ healthy' = FALSE
    /\ UNCHANGED <<exists, address, up, lazy, flag, watched, query, served>>

\* A master is lost for good; another one remains.
MasterLost ==
    /\ \E m \in up : up' = up \ {m} /\ up' # {}
    /\ Spend("master")
    /\ UNCHANGED <<exists, address, healthy, lazy, flag, watched, query,
                   served>>

\* The API server starts again: what it had in memory is gone.
Restart ==
    /\ Spend("restart")
    /\ client' = None /\ ip' = Empty
    /\ controller' = [c \in Owners |-> None]
    /\ flag' = [c \in Components |-> FALSE]
    /\ points' = [m \in Monitors |-> None]
    /\ monitoring' = FALSE
    /\ query' = [a \in Agents |-> Idle]
    /\ UNCHANGED <<cluster, served>>

-----------------------------------------------------------------------------
InitializeClient(a) ==
    ClientReady(a) \/ ChooseMaster(a) \/ CreateClient(a) \/ NoteAddress(a)

Initialize(a) ==
    \/ HasController(a) \/ CreateController(a)
    \/ KeepController(a) \/ GetController(a)

Deploy(a) ==
    \/ HasInstalled(a) \/ Install(a)
    \/ ObjectExists(a) \/ CreateObject(a) \/ AlreadyExists(a)
    \/ Installed(a) \/ NoAnswer(a)

Route(a) == NoRoutes(a) \/ Unhealthy(a) \/ Healthy(a) \/ SendRoutes(a)

\* What a query does while nothing goes wrong.
Proceed(a) == InitializeClient(a) \/ Initialize(a) \/ Deploy(a) \/ Route(a)

Environment == MetricsServerStarts \/ MetricsServerFails \/ MasterLost

Next ==
    \/ \E a \in Agents : \/ Begin(a) \/ Proceed(a)
                          \/ NoMaster(a) \/ AnswerLost(a) \/ RequestFails(a)
    \/ \E m \in Monitors : MonitorLists(m) \/ MonitorFails(m)
    \/ Environment \/ Restart

Spec == Init /\ [][Next]_vars

\* Agents ask again and again, goroutines run, and the metrics server starts
\* once it is complete.
Fairness ==
    /\ \A a \in Agents : WF_vars(Begin(a)) /\ WF_vars(Proceed(a))
    /\ \A m \in Monitors : WF_vars(MonitorLists(m))
    /\ WF_vars(MetricsServerStarts)

FairSpec == Spec /\ Fairness

-----------------------------------------------------------------------------
(* Properties *)

TypeOK ==
    /\ exists \in [Components -> SUBSET Nat]
    /\ address \in Addresses \cup {None}
    /\ healthy \in BOOLEAN
    /\ up \in SUBSET Masters
    /\ client \in Masters \cup {None}
    /\ ip \in Addresses
    /\ controller \in [Owners -> Addresses \cup {None}]
    /\ flag \in [Components -> BOOLEAN]
    /\ points \in [Monitors -> BOOLEAN \cup {None}]
    /\ monitoring \in BOOLEAN
    /\ query \in [Agents -> Query]
    /\ served \in SUBSET Agents
    /\ spent \in [Faults -> Nat]

\* However many queries install the same manifest, and wherever they fail or
\* are cut off, its objects appear in the order of the manifest: roles are
\* there before what is listed after them.
ObjectsInOrder ==
    \A c \in Components : \A i \in exists[c] : 1..i \subseteq exists[c]

\* Nothing of a manifest is in the cluster before the probes of all those
\* that come earlier: no deployment before there is a network and DNS.
ComponentsInOrder ==
    \A c \in Components : exists[c] # {} =>
        \A d \in 1..(c - 1) : Manifests[d].probe \in exists[d]

\* When an agent has been told that nothing is left to do, the cluster has
\* all its services.
ServedHasServices ==
    served # {} => \A c \in Components : Manifests[c].probe \in exists[c]

\* All of this, and that nothing is ever taken away or added beyond a manifest,
\* is the rollout in order that Rollout specifies, however queries overlap,
\* fail, use each other's controllers or are cut off.
Promised == INSTANCE Rollout

RolloutSpec == Promised!Spec

\* Every agent gets through the chain, unless the server's only client is for
\* a master that is lost.
EventuallyServed ==
    \A a \in Agents : <>(a \in served \/ up # Masters)

\* Claim: "Kubernetes resource ... has been created successfully!", and what
\* has been installed need not be installed again.  What a query takes for
\* installed is complete.
InstalledIsComplete ==
    (\A a \in Agents : query[a].at = "idle") =>
        \A c \in Components :
            flag[c] => exists[c] = 1..Manifests[c].size

\* Claim: "lazy load, can directly skipped with internal initialization
\* status".  A client that is set comes with its address.
NetworkKnowsMaster == address \in Masters \cup {None}

\* The masters are redundant: agents are served as long as one remains.
ServedByAnyMaster == \A a \in Agents : <>(a \in served \cup (Masters \ up))
=============================================================================
