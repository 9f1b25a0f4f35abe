# Lightning Monkey, specified

Lightning Monkey deploys Kubernetes clusters: agents on the nodes register with
an API server, report their state every three seconds and ask for their next
job; the API server keeps everything in ETCD, mirrors each cluster's agents in
a hot cache that a watch keeps current, and decides from that cache alone what
each agent does next.

This directory holds TLA+ models of its protocols, the TLC configurations that
check them on small instances, and TLAPS proofs for instances of every size.

## The system

| part | state it keeps | operations | talks to |
|---|---|---|---|
| ETCD (external) | per agent a permanent `settings` key and a `state` key on a 15 s lease; per cluster `metadata` and `certificates` | put, delete, range read, grant, keep-alive, watch | API server only |
| hot cache (`pkg/cache/cache.go`) | five role maps agent id -> object: etcd, master, minion, ha, pool | `Online`, `Offline`, counts, addresses | filled by the watcher, read by handlers and scheduler |
| watch of a cluster's agents (`cluster_manager.go`) | the watch channel, one goroutine per cluster | `doRegister` (snapshot, watch), `watchChanges` (re-read both keys, `OnAgentChanged`) | ETCD, cache |
| cluster manager (`cluster_manager.go`, `cluster_controller.go`) | map of cluster controllers under `lockObj` | `fullSync`, `watchClusterChanges`, `doClusterChange`, `Dispose` | ETCD, controllers |
| agent handlers (`agent_mgmt.go`, `common.go`) | none: one goroutine per request | `RegisterAgent`, `AgentReportStatus`, `QueryAgentNextWorkItem` | cache, ETCD, scheduler |
| transfer (`transfer_agent.go`, `agents/apis.go`) | map of pending tasks | `ChangeAgentClusterAndRoles`, cancel, `TransferAgentToCluster` | ETCD, agent's HTTP server |
| job scheduler (`job_scheduler.go`, `strategy_*.go`) | a list of strategies | `GetNextJob` | cache, installers |
| agent (`cmd/agent`) | registration flag, lease id, status map, current job, recovery file | `Register`, report loop, main loop, job handlers, `recover`, `RegistrationDataChange` | API server, docker |
| installers (`pkg/controllers`, `pkg/k8s`) | lazily created clients | `HasInstalled`, `Install` | Kubernetes |
| monitors (`pkg/monitors`) | latest watch points, one goroutine each | `doMonitor`, `Dispose`, `GetWatchPoints` | Kubernetes |
| certificates, storage driver, HTTP plumbing | - | I/O | - |

Hard behaviours, by part:

* cache and watch: the snapshot and the watch are two requests; an event is
  handled by two more reads and carries no value; expiries, removals, reports
  and a server restart fall between any two of these steps. Correct means: the
  cache equals ETCD once the dust has settled, offline agents leave it, and
  agents that still report come back.
* handlers: each request to ETCD is a step; answers get lost; two writes of a
  registration can be cut apart.
* scheduler: a decision is a chain of separate cache reads; several agents ask
  at once. Correct means: components start in stages, "deployed" is true, and
  every cluster gets deployed.
* agent: three goroutines and an HTTP server share a flag and the arguments;
  the process restarts from a file. Correct means: it reports where it is
  registered and resumes what it had.
* transfer: a task may be cancelled or replaced while it fires; the removal and
  the notification can fail separately.
* cluster manager: certificates and metadata arrive one by one and over two
  watches; a cluster changes while the server reads it; a deleted one is disposed
  while goroutines and requests use it; one lock is held through whole
  registrations. Correct means: what clients find is what ETCD has, complete and
  up to date, nothing disposed is left over, and no goroutine waits for ever.
* installers and monitors: partial installs, lazy initialisation from several
  goroutines, goroutines that outlive their cluster.

## Modules

| module | models |
|---|---|
| `ClusterCache` | one cluster of the API server: the agents' keys and leases in ETCD, the watcher, the cache, the handlers that write, server restarts, removal of an agent |
| `StagedDeployment` | what the scheduler promises: components start in stages |
| `JobScheduler` | the chain of strategies, one cache read per step, and the agents' main loops; implements `StagedDeployment` |
| `Appointment` | what a request for a later transfer promises: cancelled in time, or begun once |
| `PendingTransfers` | the map of transfer tasks that wait, their cancellation and replacement; implements `Appointment` |
| `AgentTransfer` | one agent process with its goroutines, restarts and recovery file, and its transfers between clusters |
| `ClusterSync` | creation of clusters, the start of the server, the cluster manager and the goroutine of each cluster, certificates, removal of a cluster |
| `Rollout` | what the installation of a cluster's services promises: objects in order, truthful answers |
| `Installer` | the end of the chain: lazy clients and controllers, installation object by object, monitors, routes; implements `Rollout` |
| `*_proofs` | the theorems about the module of that name; `SettingsOrder_proofs` continues `ClusterSync_proofs` |
| `MCClusterCache`, `MCJobScheduler`, `MCAgentTransfer`, `MCInstaller`, `MCClusterSync` | instances for TLC |

The modules meet where the code has an interface. A transfer is a task in
`PendingTransfers` until it fires; `AgentTransfer` takes it from the removal of
the keys to the agent's new registration; `ClusterCache` has the same removal
key by key against the watch. The cache that `ClusterCache` keeps is the `view`
that `JobScheduler` reads. Its action `Extras`, which succeeds or fails as a
whole, is what `Installer` does step by step. `ClusterSync` has the controllers
that own these caches: one goroutine follows certificates and agents, and what
its agent events do to the cache is `ClusterCache`.

Definitions whose comment calls them a mutant, or "a wrong ..." form of the
definition after them, are not part of a model: each is a plausible bug, and
putting it in place of the definition that follows makes a property fail.

### ClusterCache

`settings`, `state` and `alive` are ETCD: the two keys of each agent and the
leases that have not run out. `queue` is what the watch channel has yet to
deliver. `server` is "down" before `doRegister`, "synced" between its range
read and its `Watch` call, "watching" after it. `cache` is the five maps;
`watcher` is the goroutine with its local variables. `reg`, `want` and `held`
describe the agent process as the handlers see it (registered or not, the roles
it asks for, the lease id it will send); `report`, `query` and `removal` are
the handlers in flight. `missed` is a history variable: an event of this agent
has gone by without refreshing the cache. `spent` counts faults.

* `doRegister` is `Snapshot` then `StartWatch`. `watchChanges` is `WatchTake`,
  `WatchReadSettings`, `WatchReadState`, `WatchApply`, or `WatchReadFails`.
* `RegisterAgent` is `RegisterCheck` and the two writes of `SaveAgent`.
* `AgentReportStatus` is `ReportBegin` (cached or not), `ReportLookup` and
  `ReportRenew` or `ReportGrant`.
* `QueryAgentNextWorkItem` is `QueryBegin`, which changes the cached object
  through its pointer (`SetPhase`), and `QuerySave`.
* `TransferAgentToCluster` is `RemoveAsked`, `RemoveState`, `RemoveSettings`,
  `NotifyAgent`; `RemoveFails` stands for an ETCD error and for the
  cancellation of the waiting task.
* `LeaseExpires` and `Crash` are the environment.

Abstracted: names, addresses and certificates; a grant of a lease and the put
that uses it are one step (between them only that handler knows the lease);
requests rejected by a comparison of host names or by a blocked cluster, which
change nothing. An agent has one report in flight and one query: it sends them
one after the other, and a handler that outlives the agent's 5 s wait while the
next report of the same agent begins is left out. A registration does not wait
for such a query.

### JobScheduler

`view` is the cache as `ClusterCache` keeps it, reduced to what the scheduler
reads: the provisioned flags of a cached agent. `work` is each agent's main loop
with the query it has under way at the server: the copy of the flags taken by
`GetNextJob`'s caller, and the point of the chain it is at. Every read of the
cache in every strategy is one action (`EtcdCount`, `EtcdTotal`, `EtcdAddrs`,
`Master`, `Ha`, `HaMasters`, `HaReady`, `Minion`). The strategies that install
cluster resources are the one action `Extras`. `files`, `peers`, `down` and
`broken` are the node: what was deployed, with which ETCD peers, which
containers are not up, and which were created but could not be started. `ready`
is a history variable.

`LaggingSpec` is the same scheduler behind a cache that is behind: at any time an
agent may be gone from `view`, or shown with any mixture of what was true of it
once (`CacheRefreshed`), and registrations and reports reach ETCD without being
seen there (`RegisterUnseen`, `ReportUnseen`). That the real cache does no worse
is `ShowsOnlyStored` of `ClusterCache`. The runs check `Spec`, in which the cache
follows at once; `SchedulerLagging.cfg` checks `LaggingSpec` on two nodes.

A main loop that holds a job checks its health first (`JobSkipped`), then fails
(`JobFails`: addresses missing, container name taken; `StartFails`) or performs
it (`Perform`) and waits (`JobHealthy`). An error "meant to crash" is formatted
as `"... %w"`; the version of the error library that `go.mod` pins wraps only a
`": %w"` suffix, so `xerrors.Is` does not see it and the loop goes on. Both
outcomes are in the model; the fatal one is a fault of the budget. An agent
registers once: a registration repeated under its id finds the settings and
changes nothing. A process that restarts gets a new id; what it was is then an
agent whose lease runs out, and that a node may be two agents in turn is left
out here (`AgentTransfer` has restarts). Load balancer settings without nodes are those
of no load balancer: the creation of a cluster refuses a count of zero.

### PendingTransfers

`pendingTasks` is the map under `pendingTasksLock`; `task` holds for each task
object its `isCancelled`, whether its context is done, and where its goroutine
is. `ChangeAgentClusterAndRoles` is the handler up to the lock,
`AddPendingTask` the critical section that refuses a duplicate or lists the task
and starts the goroutine. `TimeoutPasses` is the context's timer; `Cancel` is
the DELETE handler, which marks the task, cancels its context and unlists it.
`Wake` is the goroutine's own critical section, `Decide` its look at
`isCancelled` after the lock is released, `WorkProcReturns` the end of the
transfer. `Fate` is what a request has come to in `Appointment`: the decision
falls in `Wake`, not where the flag is read.

### AgentTransfer

`arg`, `id`, `flag`, `rr` and `healthy` are the agent's memory: the arguments,
`hasRegistered`, the recovery record and `ItemsStatus`. Once the record is
loaded or changed the arguments are pointers into it: `alias` says which.
`file` and `deployed` survive the process. `main`, `http` and `tracer` are its
three goroutines. `settings` and `transfer` are the API server's side.

* `Register` is `RegisterReadsRoles`, `RegisterSends`, `RegisterAnswered` or
  `RegisterFails`, `RegisterReadsAnswer`, and one of `EnterPool` and
  `RegisterSucceeds`, which contain the deferred compare-and-swap of the flag.
* `RegistrationDataChange` replaces the cluster, then the roles, changes the
  record, saves it (`ChangeRemovesFile`, `ChangeWritesFile`) and opens the flag.
* The status tracer's record update and save are `TraceStatus`,
  `TracerRemovesFile`, `TracerWritesFile`. A save removes the file and writes it
  again; a `Crash` in between may leave no file or one cut short (`Torn`), from
  which the process cannot start.
* `TransferAgentToCluster` is `TransferAsked`, `TransferRemoves`,
  `TransferCalls`; `TransferCallFails` is the lost call, after which the agent
  is in no cluster and is not called again.
* `queryJob` with its handler `QueryAgentNextWorkItem` is `QueryBegins`, which
  takes the settings from the cache, and `QuerySaves`, which puts the whole key
  back when the phase has risen, or `QueryEnds`. The agent waits no longer than
  five seconds for the answer; the handler goes on, and may save after a removal.
  `queries` holds the handlers, `revived` the ids whose settings such a save has
  changed: after a removal it brings the old entry back, in the old cluster and
  with the old roles.

Abstracted: the health wait of a job (it belongs to `JobScheduler`), the
individual status fields, the content of image downloads. Reports, and queries
that raise no phase, change nothing here. A new UUID is an id never used
before; which one does not matter, so `Fresh` chooses it. Registration errors
made with `fmt.Errorf`, from which the agent ends, are a `Crash` at that point.
One transfer is under way at a time; the pool is a cluster like others, its id
is `Pool`. `Undisturbed = TRUE` restricts transfers to agents that are at rest
(a query may still be under way at the server); `TransferRace.cfg` shows what
happens without it.

### Installer

`exists` is the Kubernetes cluster: for each manifest the objects that are there,
as positions in it. The manifests are records of their size and of the position
of the object that `HasInstalled` asks for, their probe. `client`, `ip`,
`controller` and `flag` are the fields of `ClusterControllerImple` and of its
controllers; `query` is, for each agent, the goroutine that runs the chain.
`points` is what the monitors have published, `None` before their first list.

* `InitializeKubernetesClient` is `ClientReady`, or `ChooseMaster`,
  `CreateClient`, `NoteAddress`: the client is set before its address.
* `Initialize...Controller` is `HasController`, `CreateController` (the address
  is read) and `KeepController` (the field is assigned); the getter is
  `GetController`.
* `HasInstalled`, `Install`, and for each object `ObjectExists` and
  `CreateObject`. `AlreadyExists`, `AnswerLost`, `RequestFails` and `NoAnswer`
  end the query with an error.
* `MonitorLists` and `MonitorFails` are one round of a monitor; `Unhealthy`,
  `Healthy`, `SendRoutes`, `NoRoutes` are the last strategy.

Abstracted: the contents of objects except for the address in kube-router's
first one; all masters serve the same objects. The settings of the network
stack and of DNS are taken to be present: without them the factory returns a nil
controller, and the chain ends in a panic at every query. The read of the client
without its lock (`cluster_controller.go:264-265`) is taken to see it or not, and
a client that is seen to have all its parts (294-299). The metrics server is
healthy, for its monitor, when its Deployment is, which is its probe; what
stands behind it (its service and its roles) the monitor does not ask for.

### ClusterSync

`meta` and `certs` are ETCD: the metadata key of each cluster and one key for
each of its certificates. `news` is what the manager's watch has yet to deliver,
`todo` what `fullSync` has read and not handled, `sync` the change
`doClusterChange` is at work on; while it is not at rest the manager's lock is
held. `listed` is the manager's map, `ctl` the controllers, `worker` and
`channel` the goroutine of each and its watch. `call` is a client's
`NewCluster`, `reading` a handler that iterates over a controller's
certificates. `missed` and `lost` are history: a certificate changed between a
controller's read and its watch; a registration failed and was only logged.

* `NewCluster` is `NewCluster`, `SaveCertificate` for each certificate in any
  order, `SaveMetadata`; `NewClusterFails` stops anywhere.
* The start of the server is `Start` (the read of all metadata; the watch goes
  back to its revision and may deliver one event again), the changes one by one,
  `Synced`, `CreatePool`.
* `doClusterChange` is `AlreadyGone`; `Dispose`, `DisposeEnds`; `Create`,
  `ReadCertificates`, `Listed`; or `Update`, `UpdateClusterSettings`, which waits
  for the controller's lock. `ReadFails` and `RegisterFails` are its errors: some
  end the process, one is only logged.
* `watchChanges` is `Receive`, `LookUp` (agent events only; needs the manager's
  lock), `Check`, `Apply`, or `Panic`: the cache is gone, or a handler reads the
  map that is written. `Cancelled` and `WatchEnds` are its ends.
* `GetClusterCertificates` is `ReadBegin`, `ReadEnd`.

Abstracted: a value is the call that wrote it; an agent event has no content.
Code never deletes a cluster, so `ClusterRemoved` is an operator at ETCD, and no
call is creating that cluster meanwhile. A certificate key is only ever deleted
with its cluster.

## What TLC checks

| run | instance | shows |
|---|---|---|
| `cache_safety` | 1 agent in the pool or with two roles, 3 leases; one restart, transfer, failed read and expiry | `TypeOK`, `CacheMirrorsEtcd`, `StateImpliesSettings` |
| `cache_recovery` | 1 agent with one role, 3 leases, two flags to report; one failed read, two expiries; fairness | `ShowsOnlyStored`, `OfflineAgentLeavesCache`, `ReportingAgentComesBack` |
| `scheduler_staged` | ETCD+master, ETCD+load balancer, worker; two lost leases, a container that never starts, a fatal error | `TypeOK`, `DeployedIsReady`, `StagedSpec` |
| `scheduler_delays` | ETCD+master+load balancer, worker; dead container, failed install, lost answer; fairness | `DeployedIsReady`, `EventuallyDeployed` |
| `pending_transfers` | 3 requests, 2 agents, 2 clusters; fairness | `TypeOK`, `CancelledNeverWorks`, `ListedIsPending`, `AppointmentSpec`, `PendingIsTemporary` |
| `agent_transfer` | the pool and a cluster, 2 transfers; a restart, a restart during a save, a failed request, a lost call, a query that saves late; fairness | `TypeOK`, `KnownToItsCluster`, `ListedOnce`, `ChangeSurvivesRestart`, `ChangeIsFollowed` |
| `installer_races` | a master and a worker install kube-router, CoreDNS, pull secrets and Helm; a lost answer | `TypeOK`, `ObjectsInOrder`, `ComponentsInOrder`, `ServedHasServices`, `RolloutSpec` |
| `installer_faults` | one of two masters; metrics server with routes and its monitor; a failed request, a stale read, a moment without masters, a lost master, a restart, a relapse; fairness | `ServedHasServices`, `EventuallyServed` |
| `cluster_mirror` | the pool and a cluster with 2 certificates, 2 calls, 3 controllers; one removal, agent event, failed request, watch that ends and stop of the server | `TypeOK`, `RegistryMirrorsEtcd`, `ListedHasCertificates`, `CertificatesMirrorEtcd`, `NoStrayController`, `ReplacedForGood` |
| `cluster_follows` | the same with 1 certificate; one removal, agent event and failed request; fairness | `RegistryFollows`, `CertificatesFollow`, `DisposedWatcherEnds` |

Bounds. Agents of one cluster do not interact in `ClusterCache` (every key,
lease and cache entry is per agent; the watcher handles one event at a time), so
one agent with the pool and one role set reaches every ordering of its events
against its handlers. One event in the channel beside the one the watcher is
handling (two in `cache_recovery`) is the least in which what was read is
overtaken. Three leases are one more than an agent can have in use.
`QueueBound` delays writers while the queue is full; longer queues only repeat
events that are re-read anyway. Two flags are the least in which an agent has
reported something and not something else (`cache_recovery`); `cache_safety`
has one, because flags never meet a guard there. In `JobScheduler` three nodes have the
stages on different nodes, with a second ETCD node to wait for. In
`PendingTransfers` three tasks give a task, its successor, and one more that is
a duplicate or for another agent. In `AgentTransfer` two transfers are the least
in which a change overtakes what an earlier one saved; one query is enough for a
save after a removal, since a second save would only put the same or an equally
old value there. In `Installer` two
queries are the least that race, and two extensional deployments the least
whose loop has a next one. In `ClusterSync` clusters share only the manager's
goroutine and lock, which the pool and one cluster contend for; two
certificates are the least between which a call can stop, two calls the least
of which one replaces the other's certificates, and three controllers allow the
pool's, a disposed one and its successor. Elsewhere the budgets allow each fault
once or twice, at any point: one of each kind is enough for each hazard. The
proofs need none of these bounds.

Deadlock is checked in every run but `installer_faults`, where nobody asks any
more once the only agent's node is lost, and the two of `ClusterSync`, where
nothing happens any more once all calls are used up.

Fairness. In `ClusterCache`: the server starts, its watcher goroutine runs, the
agent's report loop (a `for` with a three second sleep) keeps calling, and a
lease nobody renews runs out. Registration is not assumed fair: an agent may
leave its registration half done. In `JobScheduler`: the agents' loops run, and
docker and kubelet restart what died (`unless-stopped`, static pods). In
`PendingTransfers`: goroutines run and timers fire. In `AgentTransfer`: the
agent's goroutines and the API server's transfer proceed; docker starts the
process again. In `Installer`: agents keep asking, a query proceeds, monitors
tick, and the metrics server becomes healthy once its deployment is there. In
`ClusterSync`: goroutines run, readers finish, `select` finds a cancelled
context sooner or later, and somebody starts the server again when it is down;
the documented command (`docker run --rm`) does not do that by itself, so
`RegistryFollows` and `CertificatesFollow` speak of an operated server. No
fairness is assumed of failures; they are bounded by the budget.
`EventuallyDeployed` is claimed for clusters where no node combines the ETCD or
master role with the minion role; `SchedulerAllInOne.cfg` shows why.
`EventuallyServed` is claimed for clusters that lose no master, because the
server's client is bound to one for good. `RegistryFollows` is claimed for
watches that stay open and clusters whose registration was not lost.

### Claims of the code that do not hold

Both runs state what a comment says and end in a counterexample.

* `cache_removal`: deleting the keys of an agent notifies the servers "for cache
  cleaning" - the watcher drops the event when both keys are gone.
* `installer_lazy_client`: the client is "lazy load, can directly skipped" - a
  second query skips it before the address is noted, and kube-router is deployed
  without the address of an API server.

Further counterexamples, outside the regular runs:
`tlc -config <cfg> <module>` ends in the named claim's violation.

| cfg | module | claim | what happens |
|---|---|---|---|
| `CacheGap` | `MCClusterCache` | `AllLaterEventsWatched` | "we need to watch all of subsequent events": the watch starts at the current revision and misses what happened after the snapshot |
| `CacheResurrection` | `MCClusterCache` | `RemovalIsPermanent` | "permanent remove": a query under way writes the settings back |
| `SchedulerAllInOne` | `MCJobScheduler` | `EveryJobEnds` | kubelet of a minion waits "until all of depended components has been started"; with the ETCD role these wait for kubelet |
| `SchedulerEtcdSplit` | `MCJobScheduler` | `EtcdNodesFormCluster` | each ETCD node is told the members cached at its own query |
| `SchedulerNoMaster` | `MCJobScheduler` | `JobsNameMasters` | a minion job without addresses is sent when the last master drops out between two reads |
| `PendingSuccessor` | `PendingTransfers` | `RemovesItself` | "remove itself": a cancelled task that wakes late unlists its successor |
| `TransferRace` | `MCAgentTransfer` | `KnownToItsCluster` | the change handler comes to "reopen registration flag"; a registration that is just ending closes it again, and the agent believes it is registered where it never was |
| `TransferPoolStuck` | `MCAgentTransfer` | `ChangeIsFollowed` | an agent about to wait in the pool overrides the call it waits for |
| `TransferLostCall` | `MCAgentTransfer` | `RemovedAgentReregisters` | the keys are gone, the call fails, and nobody tries again |
| `TransferRevived` | `MCAgentTransfer` | `RemovedStaysRemoved` | "permanent remove": a query under way when the agent is transferred puts its settings back |
| `TransferTwice` | `MCAgentTransfer` | `OneClusterOnly` | the same save, and the agent registers at its new cluster: one id in two clusters |
| `TransferRestart` | `MCAgentTransfer` | `RestartKeepsPlace` | the record of a first start has no roles, so a restarted agent has none |
| `TransferTornSave` | `MCAgentTransfer` | `RecoveredAsChanged` | a restart between removing and writing the file forgets the change |
| `InstallerPartial` | `MCInstaller` | `InstalledIsComplete` | an installation that fails behind its probe is never completed: kube-router stays without its account and roles |
| `InstallerLostMaster` | `MCInstaller` | `ServedByAnyMaster` | the client keeps talking to a master that is lost |
| `ClusterDisposed` | `MCClusterSync` | `ServerSurvives` | an update of a disposed controller is answered with an error (`cluster_controller_test.go:125-168`); between that check and the update `Dispose` takes the cache away, and the goroutine panics |
| `ClusterGap` | `MCClusterSync` | `NewestReceived` | certificates come first "to ensure that all newest events can be received" (`cluster_mgmt.go:79-80`); one that changes between a controller's read and its watch is not |

`tlc -config SchedulerLagging.cfg MCJobScheduler` passes: the safety of the
scheduler behind a cache that lags (`TypeOK`, `DeployedIsReady`, `StagedSpec`).

README.md:171 also says that masters run ETCD too and that the expected number
must be odd; the code checks neither, and the models follow the code.

## What is proved

For every value of the constants, under the assumptions named in the modules
(finite set of agents, roles from the four, counts natural, `None` distinct from
every value):

* The type invariant of every module. Some are inductive only with what goes
  with a point of control (`Present` in `AgentTransfer`: which local variables a
  goroutine has set where).
* `CacheIsMirror`: `CacheMirrorsEtcd`. By itself it is not inductive, because it
  says nothing while an event is under way. `MirrorInv` adds what holds then: a
  delete that is the last event of its agent tells the truth (`DeletesQueued`,
  `DeleteHandled`); what the watcher has read is current unless a further event
  is queued (`FetchFresh`), because every write queues one; entries lie in the
  maps of their own roles (`Placed`), which is what makes `Offline` clean them
  all; and `MirrorFresh` extends the claim to the time before the watch.
* `DeployedCorrect`: `DeployedIsReady`, and `SchedulerIsStaged`: `JobScheduler`
  implements `StagedDeployment` with `started <- files`. The cache can only show
  registered agents and components that have been healthy (`ViewInv`); a query
  at a point of the chain has established facts about its agent (`OfAgent`) and
  about the stages (`OfCluster`); none of these facts can be undone, because
  registration and having been healthy are never taken back (`StagesStay`). So
  losing agents between two reads can delay a stage but not skip one.

* `DeployedBehindCache`, `LaggingIsStaged`: the same two results for
  `LaggingSpec`, of which the two above are consequences (`SpecMayLag`). They use
  nothing about the cache except that what it shows of an agent was true once.
* `CacheShowsOnlyStored`: `ShowsOnlyStored`, a statement about whole behaviours:
  a flag, or a set of roles, that an agent's key never has is never shown by the
  cache. It is an invariant under the assumption that the key never has it. What
  enters the cache is what the watcher fetched or the snapshot read
  (`EntryComesFrom`), what the watcher fetched is what ETCD had
  (`FetchComesFrom`), and a query that changes a cached entry in place changes
  only its phase (`FlagsStayOut`, `RolesStayOut`).
* `CancelIsFinal`, `ListIsTrue`: `CancelledNeverWorks` and `ListedIsPending`.
  `PendingInvariant` adds that a task is listed at most where it was asked for,
  and that a cancelled one is unlisted in the same critical section.
  `TaskIsAppointment`: `PendingTransfers` implements `Appointment` with
  `fate <- Fate`; every step changes one task, and takes its fate one step on or
  leaves it (`FateMoves`).
* `AgentIsKnown`, `AgentIsListedOnce` and `ChangeIsKept`, all for `Undisturbed`
  transfers: `KnownToItsCluster`, `ListedOnce` and `ChangeSurvivesRestart`. A
  save of a late query may come at any time. The first of the three still says
  that the agent's cluster has its id (only the roles may be old), the second
  speaks of the ids no such save has changed. That no other step does as much is
  what is to be shown: nothing but a removal takes an entry away, and nothing
  but a late save changes one (`Kept`). `KnownInv` says which of the two sides
  of a transfer or registration already has the agent (`Phases`,
  `UnderTransfer`, `Registering`), that a removal leaves nothing of an id no
  late save has changed (`Gone`), and that the same is true of an agent whose
  call was lost until it registers anew (`Lost`); `ChangeInv` follows the
  answered change from the handler through record and file (`Changing`,
  `Remembered`), where the tracer may save the same record meanwhile, and holds
  until a save is cut short.
* `ObjectsAppearInOrder`, `ComponentsAppearInOrder`, `ServedTruthfully`: the
  orders of `Installer`, for any agents, masters and extensional deployments.
  `Sound` is what a query may rely on at its point of the chain: the probes of
  all manifests before its own, and the objects before the one it is at. Nothing
  a concurrent query, a fault or a restart does takes an object away, so no
  query can disturb what another relies on (`OneQuery`). From the same invariant,
  `InstallerIsRollout`: the installer implements `Rollout`. `AddStep` shows that
  what a query creates is the next object of its manifest, `TellStep` that who is
  told has all services, and every other step is a stutter.
* `StateComesSecond`: `StateImpliesSettings`. `Settled` adds that whoever is
  about to write an agent's state, or could make somebody write it (a
  registration, a report, the cache, the watcher), has seen its settings; only a
  removal takes them away (`SettingsStay`).
* `Registry`, `Certificates`, `CertificatesFollowed`, `NoStray`: the four
  invariants of `ClusterSync`. All follow from `ClusterInvariant`
  (`Invariance`). A controller is free, being created, findable or left over
  (`LifeCycle`), and the manager's step says which one it is at work on
  (`SyncOK`). `LastIs` is what replaces "the cache equals ETCD" while events are
  under way: of the events of a key the last one says what ETCD has, and without
  one what is held already does. `LastWord` states it for metadata, where what is
  held is the settings read by `fullSync`, those in the hand of
  `doClusterChange`, or those of the listed controller; `LastCertificate` for
  the certificates of a controller that has read them. `Certified` says that
  metadata is written after its certificates, `Complete` that a controller has
  read them all unless its cluster is about to go.
* `SettingsInOrder`: `ReplacedForGood`, an action property of `ClusterSync`: what
  the server has replaced or withdrawn cannot come to it again while it runs.
  `Order` goes with `ClusterInvariant`: a call writes its metadata once and until
  then they are nowhere (`Unwritten`), the events under way are distinct
  (`Distinct`), and of the events of a cluster only the next may be one the
  server already has, the revision that `fullSync` and the watch share
  (`LaterIsNew`); what is being replaced has left ETCD (`OldIsGone`), and
  `fullSync` comes to a cluster once (`ReadOnce`). `KnownStep` says when what
  clients find changes at all. That the watch waits for `fullSync` is what
  `ReadOnce` and `LaterIsNew` need; without it TLC finds replaced settings still
  under way.

Only model-checked: everything that must happen eventually (`OfflineAgentLeavesCache`,
`ReportingAgentComesBack`, `EventuallyDeployed`, `PendingIsTemporary`,
`ChangeIsFollowed`, `EventuallyServed`, `RegistryFollows`, `CertificatesFollow`,
`DisposedWatcherEnds`), since the prover does not treat fairness. Every
invariant, every refinement and every other safety property that a passing run
checks is proved.

## Not modelled

Certificate generation (it runs kubeadm in a directory and reads files back),
the ETCD client, HTTP routing and decoding, the routes an agent adds to its
table, and the texts of manifests and configuration files: input and output
without protocol state. The alert manager's controller is never created: no list
of controllers contains it. `Dispose` of the monitors is called by nothing.

The download of images is part of one step of a registration. A download that
is cut off leaves a file which the next try takes for the whole image
(`docker_http_image_manager.go:53`); no model has that.

Outside `ClusterCache`: re-registration with another identity, two reports of
one agent handled at once, and the end of
the watch channel, which freezes the cache; `ClusterSync` has that end
(`WatchEnds`, `ClusterWatchEnds`) and what still changes after it. Outside
`ClusterSync`: delete events of single certificates, which nothing produces; a
read of the settings while they are being copied, which the Go memory model does
not define; and that clients of a cluster that is created a second time may see
certificates of both calls until the second has written them all.

## What could come next

1. Several API servers on one ETCD: each has its own mirror, and a transfer
   answered by one is noticed by the other through the watch alone.
2. Several steps for a job of an agent (configuration file, container, start)
   against its health checks.
3. Reuse of `ClusterCache` for two clusters at once, with the agent that moves
   between them.
