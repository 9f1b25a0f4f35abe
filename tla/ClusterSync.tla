---------------------------- MODULE ClusterSync ----------------------------
(***************************************************************************)
(* The clusters of the API server: NewCluster writes a cluster to ETCD,    *)
(* certificates first and metadata last, and the cluster manager learns of *)
(* it from ETCD.  It copies what it finds when it starts and follows the   *)
(* metadata afterwards; each cluster gets a controller, and each           *)
(* controller a goroutine that follows the changes of its certificates and *)
(* agents.                                                                 *)
(*                                                                         *)
(* The manager handles one change at a time and holds cm.lockObj through   *)
(* all requests this takes; a controller's goroutine needs that lock to    *)
(* look up its cluster and holds cc.lockObj while it updates its cache.    *)
(* Handlers read the certificates without a lock.  Nothing in the code     *)
(* removes a cluster: an operator does, by deleting its keys in ETCD.      *)
(*                                                                         *)
(* Abstracted: a value is the NewCluster call that wrote it; what an agent *)
(* event does to the agents is in ClusterCache; one handler stands for all *)
(* that read certificates.  Bounds: Calls and Handles are finite pools,    *)
(* Budget caps removals, agent events, failing requests of the manager,    *)
(* watches that end, and stops of the server.                              *)
(***************************************************************************)
EXTENDS Naturals, Sequences

CONSTANTS
    Clusters,  \* cluster ids
    Pool,      \* the resource pool, uuid.Nil
    Certs,     \* the names of a cluster's certificates
    Calls,     \* calls of NewCluster by clients
    Handles,   \* identities of controllers
    Agent,     \* in place of a certificate's name: an agent's key
    None,      \* absent
    Budget     \* how often each kind of fault may happen

Faults == {"removal", "agent", "etcd", "end", "stop"}

\* main writes the pool, with the same settings at every start.
Values == Calls \cup {Pool}

ASSUME PoolAssumption == Pool \in Clusters /\ Pool \notin Calls
ASSUME AgentAssumption == Agent \notin Certs
ASSUME NoneAssumption ==
    None \notin Clusters \cup Values \cup Handles \cup Certs \cup {Agent}
ASSUME BudgetAssumption == Budget \in [Faults -> Nat]

VARIABLES
    meta,      \* meta[c]: the metadata key
    certs,     \* certs[c][n]: the key of certificate n
    call,      \* call[g]: a call of NewCluster, and what it has yet to write
    server,    \* "down", "dead" (after a panic), "syncing" (fullSync),
               \* "pool" (main is about to write the pool), "up"
    todo,      \* todo[c]: metadata that fullSync has read but not handled
    news,      \* metadata events that watchClusterChanges has not received
    watching,  \* the watch behind news is open
    sync,      \* the change doClusterChange is at work on
    listed,    \* cm.clusters[c]
    ctl,       \* ctl[k]: a controller
    channel,   \* channel[k]: events that k's watchChanges has not received
    worker,    \* worker[k]: that goroutine, and the event it is handling
    reading,   \* the controller whose certificates a handler iterates over
    missed,    \* history: certificates changed between k's read and its watch
    lost,      \* history: the registration of c failed and was only logged
    spent      \* how much of Budget is used

etcd == <<meta, certs>>
manager == <<todo, news, watching, sync, listed, lost>>
workers == <<channel, worker>>
vars == <<etcd, call, server, manager, ctl, workers, reading, missed, spent>>

NoCerts == [n \in Certs |-> None]
Blank == [cluster |-> None, settings |-> None, certs |-> NoCerts,
          disposed |-> FALSE, cache |-> FALSE]
Ready == [pc |-> "idle", cluster |-> None, value |-> None, ctl |-> None]
Resting(pc) == [pc |-> pc, key |-> None, value |-> None]
NotCalled == [pc |-> "new", cluster |-> None, left |-> {}]

\* A watch delivers the key of a cluster, a certificate or an agent, with what
\* was written; a deletion has no value.
Event(key, v) == [key |-> key, value |-> v]

Spend(k) == /\ spent[k] < Budget[k]
            /\ spent' = [spent EXCEPT ![k] = @ + 1]

Running == server \in {"syncing", "pool", "up"}
Watched(k) == worker[k].pc \notin {"none", "ended"}

-----------------------------------------------------------------------------
Init ==
    /\ meta = [c \in Clusters |-> None]
    /\ certs = [c \in Clusters |-> NoCerts]
    /\ call = [g \in Calls |-> NotCalled]
    /\ server = "down"
    /\ todo = [c \in Clusters |-> None]
    /\ news = <<>>
    /\ watching = FALSE
    /\ sync = Ready
    /\ listed = [c \in Clusters |-> None]
    /\ ctl = [k \in Handles |-> Blank]
    /\ channel = [k \in Handles |-> <<>>]
    /\ worker = [k \in Handles |-> Resting("none")]
    /\ reading = None
    /\ missed = [k \in Handles |-> FALSE]
    /\ lost = [c \in Clusters |-> FALSE]
    /\ spent = [k \in Faults |-> 0]

\* The process ends, and with it all that it had in memory.
GoDown(how) ==
    /\ server' = how
    /\ call' = [g \in Calls |->
                  IF call[g].pc = "new" THEN NotCalled
                  ELSE [NotCalled EXCEPT !.pc = "ended"]]
    /\ todo' = [c \in Clusters |-> None]
    /\ news' = <<>>
    /\ watching' = FALSE
    /\ sync' = Ready
    /\ listed' = [c \in Clusters |-> None]
    /\ ctl' = [k \in Handles |-> Blank]
    /\ channel' = [k \in Handles |-> <<>>]
    /\ worker' = [k \in Handles |-> Resting("none")]
    /\ reading' = None
    /\ missed' = [k \in Handles |-> FALSE]
    /\ lost' = [c \in Clusters |-> FALSE]

\* fullSync reads all metadata.  The watch that starts after it goes back to
\* the revision of this read (WithRev) and delivers the event of that revision
\* once more.
Start ==
    /\ ~Running
    /\ server' = "syncing"
    /\ todo' = meta
    /\ watching' = TRUE
    /\ \/ news' = <<>>
       \/ \E c \in Clusters : /\ meta[c] # None
                              /\ news' = <<Event(c, meta[c])>>
    /\ UNCHANGED <<etcd, call, sync, listed, ctl, workers, reading, missed,
                   lost, spent>>

ServerStops ==
    /\ Running
    /\ Spend("stop")
    /\ GoDown("down")
    /\ UNCHANGED etcd

-----------------------------------------------------------------------------
(* NewCluster *)

\* Mutant: events are delivered from the end of fullSync on.
PutMetadataUnlessSyncing(c, v) ==
    /\ meta' = [meta EXCEPT ![c] = v]
    /\ news' = IF watching /\ server # "syncing"
               THEN Append(news, Event(c, v)) ELSE news

PutMetadata(c, v) ==
    /\ meta' = [meta EXCEPT ![c] = v]
    /\ news' = IF watching THEN Append(news, Event(c, v)) ELSE news

\* A client names the cluster; it may name one that exists.
NewCluster(g, c) ==
    /\ server = "up" /\ call[g].pc = "new"
    /\ call' = [call EXCEPT ![g] = [pc |-> "saving", cluster |-> c,
                                    left |-> Certs]]
    /\ UNCHANGED <<etcd, server, manager, ctl, workers, reading, missed,
                   spent>>

\* One key per certificate, in the order of a Go map.  A controller that has
\* read its certificates and has not opened its watch misses the change.
SaveCertificate(g) ==
    LET c == call[g].cluster
    IN  /\ call[g].pc = "saving"
        /\ \E n \in call[g].left :
              /\ certs' = [certs EXCEPT ![c][n] = g]
              /\ call' = [call EXCEPT ![g].left = @ \ {n}]
              /\ channel' = [k \in Handles |->
                    IF Watched(k) /\ ctl[k].cluster = c
                    THEN Append(channel[k], Event(n, g)) ELSE channel[k]]
        /\ missed' = [k \in Handles |->
              \/ missed[k]
              \/ sync.pc = "keys" /\ sync.ctl = k /\ sync.cluster = c]
        /\ UNCHANGED <<meta, server, manager, ctl, worker, reading, spent>>

\* Mutant: the metadata need not wait for the certificates.
SaveMetadataEarly(g) ==
    /\ call[g].pc = "saving"
    /\ PutMetadata(call[g].cluster, g)
    /\ call' = [call EXCEPT ![g] = [NotCalled EXCEPT !.pc = "ended"]]
    /\ UNCHANGED <<certs, server, todo, watching, sync, listed, lost, ctl,
                   workers, reading, missed, spent>>

SaveMetadata(g) ==
    /\ call[g].pc = "saving" /\ call[g].left = {}
    /\ PutMetadata(call[g].cluster, g)
    /\ call' = [call EXCEPT ![g] = [NotCalled EXCEPT !.pc = "ended"]]
    /\ UNCHANGED <<certs, server, todo, watching, sync, listed, lost, ctl,
                   workers, reading, missed, spent>>

\* A write fails: what is written stays.
NewClusterFails(g) ==
    /\ call[g].pc = "saving"
    /\ call' = [call EXCEPT ![g] = [NotCalled EXCEPT !.pc = "ended"]]
    /\ UNCHANGED <<etcd, server, manager, ctl, workers, reading, missed, spent>>

\* main creates the pool, which has no certificates, and then serves.
CreatePool ==
    /\ server = "pool"
    /\ server' = "up"
    /\ PutMetadata(Pool, Pool)
    /\ UNCHANGED <<certs, call, todo, watching, sync, listed, lost, ctl,
                   workers, reading, missed, spent>>

\* An operator deletes all keys of a cluster that nobody is creating.  The
\* delete events of certificates have no content and are skipped.
ClusterRemoved(c) ==
    /\ c # Pool /\ meta[c] # None
    /\ \A g \in Calls : call[g].cluster # c
    /\ Spend("removal")
    /\ PutMetadata(c, None)
    /\ certs' = [certs EXCEPT ![c] = NoCerts]
    /\ UNCHANGED <<call, server, todo, watching, sync, listed, lost, ctl,
                   workers, reading, missed>>

-----------------------------------------------------------------------------
(* The cluster manager: fullSync, watchClusterChanges, doClusterChange *)

\* Mutant: the watch is followed while fullSync is still at work.
TakenWhileSyncing(c, v) ==
    /\ sync.pc = "idle"
    /\ \/ /\ server = "syncing" /\ todo[c] = v /\ v # None
          /\ todo' = [todo EXCEPT ![c] = None]
          /\ UNCHANGED news
       \/ /\ news # <<>> /\ Head(news) = Event(c, v)
          /\ news' = Tail(news)
          /\ UNCHANGED todo

\* The next change: of the metadata read by fullSync, or of those watched.
Taken(c, v) ==
    /\ sync.pc = "idle"
    /\ \/ /\ server = "syncing" /\ todo[c] = v /\ v # None
          /\ todo' = [todo EXCEPT ![c] = None]
          /\ UNCHANGED news
       \/ /\ server \in {"pool", "up"} /\ news # <<>>
          /\ Head(news) = Event(c, v)
          /\ news' = Tail(news)
          /\ UNCHANGED todo

Synced ==
    /\ server = "syncing" /\ sync.pc = "idle"
    /\ \A c \in Clusters : todo[c] = None
    /\ server' = "pool"
    /\ UNCHANGED <<etcd, call, manager, ctl, workers, reading, missed, spent>>

\* The deleted cluster is not known.
AlreadyGone(c) ==
    /\ Taken(c, None) /\ listed[c] = None
    /\ lost' = [lost EXCEPT ![c] = FALSE]
    /\ UNCHANGED <<etcd, call, server, watching, sync, listed, ctl, workers,
                   reading, missed, spent>>

\* Mutant: nothing is marked.
DisposeUnmarked(c) ==
    /\ Taken(c, None) /\ listed[c] # None
    /\ sync' = [pc |-> "dispose", cluster |-> c, value |-> None,
                ctl |-> listed[c]]
    /\ UNCHANGED <<etcd, call, server, watching, listed, lost, ctl, workers,
                   reading, missed, spent>>

\* Dispose marks the controller ...
Dispose(c) ==
    /\ Taken(c, None) /\ listed[c] # None
    /\ sync' = [pc |-> "dispose", cluster |-> c, value |-> None,
                ctl |-> listed[c]]
    /\ ctl' = [ctl EXCEPT ![listed[c]].disposed = TRUE]
    /\ UNCHANGED <<etcd, call, server, watching, listed, lost, workers,
                   reading, missed, spent>>

\* Mutant: the goroutine is waited for.
DisposeEndsJoined ==
    LET k == sync.ctl
    IN  /\ sync.pc = "dispose"
        /\ worker[k].pc \in {"idle", "ended"}
        /\ ctl' = [ctl EXCEPT ![k] =
              IF worker[k].pc = "ended" THEN Blank ELSE [@ EXCEPT !.cache = FALSE]]
        /\ worker' = [worker EXCEPT ![k] =
              IF @.pc = "ended" THEN Resting("none") ELSE @]
        /\ listed' = [listed EXCEPT ![sync.cluster] = None]
        /\ sync' = Ready
        /\ UNCHANGED <<etcd, call, server, todo, news, watching, lost, channel,
                       reading, missed, spent>>

\* Mutant: the entry is not deleted.
DisposeEndsListed ==
    LET k == sync.ctl
    IN  /\ sync.pc = "dispose"
        /\ ctl' = [ctl EXCEPT ![k] =
              IF worker[k].pc = "ended" THEN Blank ELSE [@ EXCEPT !.cache = FALSE]]
        /\ worker' = [worker EXCEPT ![k] =
              IF @.pc = "ended" THEN Resting("none") ELSE @]
        /\ sync' = Ready
        /\ UNCHANGED <<etcd, call, server, todo, news, watching, listed, lost,
                       channel, reading, missed, spent>>

\* ... cancels its goroutine and lets go of its cache, under the manager's lock
\* but not under its own; nobody finds it any more.
DisposeEnds ==
    LET k == sync.ctl
    IN  /\ sync.pc = "dispose"
        /\ ctl' = [ctl EXCEPT ![k] =
              IF worker[k].pc = "ended" THEN Blank ELSE [@ EXCEPT !.cache = FALSE]]
        /\ worker' = [worker EXCEPT ![k] =
              IF @.pc = "ended" THEN Resting("none") ELSE @]
        /\ listed' = [listed EXCEPT ![sync.cluster] = None]
        /\ sync' = Ready
        /\ UNCHANGED <<etcd, call, server, todo, news, watching, lost, channel,
                       reading, missed, spent>>

\* A cluster that is not known gets a controller: Initialize ...
Create(c, v) ==
    /\ v # None /\ Taken(c, v) /\ listed[c] = None
    /\ \E k \in Handles :
          /\ ctl[k] = Blank /\ reading # k
          /\ ctl' = [ctl EXCEPT ![k] =
                [cluster |-> c, settings |-> v, certs |-> NoCerts,
                 disposed |-> FALSE, cache |-> TRUE]]
          /\ sync' = [pc |-> "certs", cluster |-> c, value |-> v, ctl |-> k]
          /\ missed' = [missed EXCEPT ![k] = FALSE]
    /\ UNCHANGED <<etcd, call, server, watching, listed, lost, workers,
                   reading, spent>>

\* ... reads its certificates, or the process ends (Fatalf) ...
ReadCertificates ==
    /\ sync.pc = "certs"
    /\ ctl' = [ctl EXCEPT ![sync.ctl].certs = certs[sync.cluster]]
    /\ sync' = [sync EXCEPT !.pc = "keys"]
    /\ UNCHANGED <<etcd, call, server, todo, news, watching, listed, lost,
                   workers, reading, missed, spent>>

ReadFails ==
    /\ sync.pc = "certs"
    /\ Spend("etcd")
    /\ GoDown("down")
    /\ UNCHANGED etcd

\* ... doRegister creates three keys and reads the agents, opens the watch at
\* ETCD's present revision, and the controller can be found.
Listed ==
    LET k == sync.ctl
    IN  /\ sync.pc = "keys"
        /\ worker' = [worker EXCEPT ![k] = Resting("idle")]
        /\ listed' = [listed EXCEPT ![sync.cluster] = k]
        /\ lost' = [lost EXCEPT ![sync.cluster] = FALSE]
        /\ sync' = Ready
        /\ UNCHANGED <<etcd, call, server, todo, news, watching, ctl, channel,
                       reading, missed, spent>>

\* An error of doRegister ends fullSync and with it the process; later it is
\* only logged.
RegisterFails ==
    /\ sync.pc = "keys"
    /\ Spend("etcd")
    /\ \/ /\ server = "syncing"
          /\ GoDown("down")
       \/ /\ server # "syncing"
          /\ ctl' = [ctl EXCEPT ![sync.ctl] = Blank]
          /\ lost' = [lost EXCEPT ![sync.cluster] = TRUE]
          /\ sync' = Ready
          /\ UNCHANGED <<call, server, todo, news, watching, listed, workers,
                         reading, missed>>
    /\ UNCHANGED etcd

\* A known cluster gets new settings, under the controller's lock.
Update(c, v) ==
    /\ v # None /\ Taken(c, v) /\ listed[c] # None
    /\ sync' = [pc |-> "update", cluster |-> c, value |-> v,
                ctl |-> listed[c]]
    /\ UNCHANGED <<etcd, call, server, watching, listed, lost, ctl, workers,
                   reading, missed, spent>>

UpdateClusterSettings ==
    /\ sync.pc = "update"
    /\ worker[sync.ctl].pc \notin {"check", "apply"}
    /\ ctl' = [ctl EXCEPT ![sync.ctl].settings = sync.value]
    /\ sync' = Ready
    /\ UNCHANGED <<etcd, call, server, todo, news, watching, listed, lost,
                   workers, reading, missed, spent>>

\* ETCD closes the channel: the goroutine returns without a word.
ClusterWatchEnds ==
    /\ watching /\ server \in {"pool", "up"} /\ sync.pc = "idle"
    /\ Spend("end")
    /\ watching' = FALSE
    /\ news' = <<>>
    /\ UNCHANGED <<etcd, call, server, todo, sync, listed, lost, ctl, workers,
                   reading, missed>>

-----------------------------------------------------------------------------
(* The goroutine of a controller: watchChanges *)

WorkerAt(k, pc) == worker' = [worker EXCEPT ![k].pc = pc]

Rest(k) == worker' = [worker EXCEPT ![k] = Resting("idle")]

\* An agent's keys change, or run out with their lease.
AgentChanges(k) ==
    /\ Watched(k)
    /\ Spend("agent")
    /\ channel' = [channel EXCEPT ![k] = Append(@, Event(Agent, None))]
    /\ UNCHANGED <<etcd, call, server, manager, ctl, worker, reading, missed>>

\* Mutant: only agent events are looked at.
ReceiveAgentsOnly(k) ==
    /\ worker[k].pc = "idle" /\ channel[k] # <<>>
    /\ channel' = [channel EXCEPT ![k] = Tail(@)]
    /\ worker' = [worker EXCEPT ![k] =
          IF Head(channel[k]).key = Agent
          THEN [pc |-> "lookup", key |-> Agent, value |-> None] ELSE @]
    /\ UNCHANGED <<etcd, call, server, manager, ctl, reading, missed, spent>>

Receive(k) ==
    /\ worker[k].pc = "idle" /\ channel[k] # <<>>
    /\ channel' = [channel EXCEPT ![k] = Tail(@)]
    /\ worker' = [worker EXCEPT ![k] =
          [pc |-> IF Head(channel[k]).key = Agent THEN "lookup" ELSE "check",
           key |-> Head(channel[k]).key, value |-> Head(channel[k]).value]]
    /\ UNCHANGED <<etcd, call, server, manager, ctl, reading, missed, spent>>

\* Mutant: a cluster that is not found is looked up again.
LookUpAgain(k) ==
    /\ worker[k].pc = "lookup" /\ sync.pc = "idle"
    /\ listed[ctl[k].cluster] # None
    /\ Rest(k) \/ WorkerAt(k, "check")
    /\ UNCHANGED <<etcd, call, server, manager, ctl, channel, reading, missed,
                   spent>>

\* GetAgentFromETCD needs the manager's lock to find the cluster by its id.
\* The event is dropped if the cluster or the agent is not found.
LookUp(k) ==
    /\ worker[k].pc = "lookup" /\ sync.pc = "idle"
    /\ \/ Rest(k)
       \/ listed[ctl[k].cluster] # None /\ WorkerAt(k, "check")
    /\ UNCHANGED <<etcd, call, server, manager, ctl, channel, reading, missed,
                   spent>>

\* OnAgentChanged, OnCertificateChanged: a disposed controller is left alone ...
Check(k) ==
    /\ worker[k].pc = "check"
    /\ IF ctl[k].disposed THEN Rest(k) ELSE WorkerAt(k, "apply")
    /\ UNCHANGED <<etcd, call, server, manager, ctl, channel, reading, missed,
                   spent>>

\* Mutant: a certificate that is there is kept.
ApplyIfAbsent(k) ==
    /\ worker[k].pc = "apply"
    /\ worker[k].key = Agent => ctl[k].cache
    /\ ctl' = IF worker[k].key = Agent \/ ctl[k].certs[worker[k].key] # None
              THEN ctl
              ELSE [ctl EXCEPT ![k].certs[worker[k].key] = worker[k].value]
    /\ Rest(k)
    /\ UNCHANGED <<etcd, call, server, manager, channel, reading, missed, spent>>

\* ... and one that is not disposed at that moment is updated.
Apply(k) ==
    /\ worker[k].pc = "apply"
    /\ worker[k].key = Agent => ctl[k].cache
    /\ ctl' = IF worker[k].key = Agent THEN ctl
              ELSE [ctl EXCEPT ![k].certs[worker[k].key] = worker[k].value]
    /\ Rest(k)
    /\ UNCHANGED <<etcd, call, server, manager, channel, reading, missed, spent>>

\* The cache has gone after the check; or a handler iterates over the map of
\* certificates and the Go runtime notices the write.  No one recovers.
Panic(k) ==
    /\ worker[k].pc = "apply"
    /\ IF worker[k].key = Agent THEN ~ctl[k].cache ELSE reading = k
    /\ GoDown("dead")
    /\ UNCHANGED <<etcd, spent>>

\* The goroutine is gone; a controller that is disposed is garbage then.
WorkerEnds(k) ==
    /\ channel' = [channel EXCEPT ![k] = <<>>]
    /\ \/ /\ ctl[k].cache
          /\ worker' = [worker EXCEPT ![k] = Resting("ended")]
          /\ UNCHANGED ctl
       \/ /\ ~ctl[k].cache
          /\ worker' = [worker EXCEPT ![k] = Resting("none")]
          /\ ctl' = [ctl EXCEPT ![k] = Blank]

\* select finds the context cancelled.
Cancelled(k) ==
    /\ worker[k].pc = "idle" /\ ~ctl[k].cache
    /\ WorkerEnds(k)
    /\ UNCHANGED <<etcd, call, server, manager, reading, missed, spent>>

WatchEnds(k) ==
    /\ worker[k].pc = "idle"
    /\ Spend("end")
    /\ WorkerEnds(k)
    /\ UNCHANGED <<etcd, call, server, manager, reading, missed>>

-----------------------------------------------------------------------------
(* GetClusterCertificates, and GetCertificates of RegisterAgent *)

ReadBegin(c) ==
    /\ server = "up" /\ reading = None /\ sync.pc = "idle"
    /\ listed[c] # None
    /\ reading' = listed[c]
    /\ UNCHANGED <<etcd, call, server, manager, ctl, workers, missed, spent>>

ReadEnd ==
    /\ reading # None
    /\ reading' = None
    /\ UNCHANGED <<etcd, call, server, manager, ctl, workers, missed, spent>>

-----------------------------------------------------------------------------
Call(g) == \/ \E c \in Clusters \ {Pool} : NewCluster(g, c)
           \/ SaveCertificate(g) \/ SaveMetadata(g) \/ NewClusterFails(g)

\* One change handled by the manager.
Sync ==
    \/ \E c \in Clusters : AlreadyGone(c) \/ Dispose(c)
    \/ \E c \in Clusters, v \in Values : Create(c, v) \/ Update(c, v)
    \/ DisposeEnds \/ ReadCertificates \/ Listed \/ UpdateClusterSettings
    \/ Synced

Work(k) == Receive(k) \/ LookUp(k) \/ Check(k) \/ Apply(k)

Next ==
    \/ Start \/ ServerStops \/ CreatePool
    \/ \E g \in Calls : Call(g)
    \/ \E c \in Clusters : ClusterRemoved(c) \/ ReadBegin(c)
    \/ Sync \/ ReadFails \/ RegisterFails \/ ClusterWatchEnds
    \/ \E k \in Handles : \/ Work(k) \/ Cancelled(k) \/ Panic(k)
                          \/ WatchEnds(k) \/ AgentChanges(k)
    \/ ReadEnd

Spec == Init /\ [][Next]_vars

\* The server is started whenever it is down, and its goroutines run: select
\* picks a cancelled context sooner or later.
Fairness ==
    /\ WF_vars(Start) /\ WF_vars(CreatePool) /\ WF_vars(Sync)
    /\ WF_vars(ReadEnd)
    /\ \A k \in Handles : WF_vars(Work(k) \/ Panic(k)) /\ WF_vars(Cancelled(k))

FairSpec == Spec /\ Fairness

-----------------------------------------------------------------------------
(* Properties *)

Controller == [cluster : Clusters \cup {None}, settings : Values \cup {None},
               certs : [Certs -> Calls \cup {None}],
               disposed : BOOLEAN, cache : BOOLEAN]

\* Type invariant; what is listed is a controller of that cluster.
TypeOK ==
    /\ meta \in [Clusters -> Values \cup {None}]
    /\ certs \in [Clusters -> [Certs -> Calls \cup {None}]]
    /\ call \in [Calls -> [pc : {"new", "saving", "ended"},
                           cluster : Clusters \cup {None}, left : SUBSET Certs]]
    /\ server \in {"down", "dead", "syncing", "pool", "up"}
    /\ todo \in [Clusters -> Values \cup {None}]
    /\ news \in Seq([key : Clusters, value : Values \cup {None}])
    /\ watching \in BOOLEAN
    /\ sync \in [pc : {"idle", "certs", "keys", "update", "dispose"},
                 cluster : Clusters \cup {None}, value : Values \cup {None},
                 ctl : Handles \cup {None}]
    /\ listed \in [Clusters -> Handles \cup {None}]
    /\ ctl \in [Handles -> Controller]
    /\ channel \in [Handles -> Seq([key : Certs \cup {Agent},
                                    value : Calls \cup {None}])]
    /\ worker \in [Handles -> [pc : {"none", "idle", "lookup", "check", "apply",
                                     "ended"},
                               key : Certs \cup {Agent, None},
                               value : Calls \cup {None}]]
    /\ reading \in Handles \cup {None}
    /\ missed \in [Handles -> BOOLEAN]
    /\ lost \in [Clusters -> BOOLEAN]
    /\ spent \in [Faults -> Nat]
    /\ \A c \in Clusters : listed[c] # None => ctl[listed[c]].cluster = c

\* What the manager knows of c agrees with ETCD.
Settled(c) ==
    IF meta[c] = None THEN listed[c] = None
    ELSE listed[c] # None /\ ctl[listed[c]].settings = meta[c]

\* Whatever is created, changed or removed while the server starts, runs or is
\* started again: when no metadata event of a cluster is under way, the manager
\* has the cluster exactly if it is in ETCD, with its last settings, unless its
\* registration failed or the watch has ended.
RegistryMirrorsEtcd ==
    \A c \in Clusters :
        \/ Settled(c)
        \/ lost[c] \/ ~watching \/ server = "syncing" \/ sync.cluster = c
        \/ \E i \in DOMAIN news : news[i].key = c

\* The settings of c that clients find.
Known(c) == IF listed[c] = None THEN None ELSE ctl[listed[c]].settings

\* The server may still come to the settings v of c.
Ahead(c, v) ==
    \/ meta[c] = v \/ todo[c] = v
    \/ sync.cluster = c /\ sync.value = v
    \/ \E i \in DOMAIN news : news[i] = Event(c, v)

\* Time does not run backwards: settings that a running server has replaced or
\* withdrawn are neither in ETCD any more nor under way, although fullSync and
\* the watch overlap in one revision and changes come in while it reads.
ReplacedForGood ==
    [][\A c \in Clusters \ {Pool}, v \in Calls :
          Known(c) = v /\ Known(c)' # v /\ Running' => ~Ahead(c, v)']_vars

\* c is about to be forgotten.
Leaving(c) ==
    \/ ~watching
    \/ \E i \in DOMAIN news : news[i] = Event(c, None)
    \/ sync.pc = "dispose" /\ sync.cluster = c

\* A client that finds a cluster finds all of its certificates.
ListedHasCertificates ==
    \A c \in Clusters \ {Pool} : \A n \in Certs :
        listed[c] = None \/ Leaving(c) \/ ctl[listed[c]].certs[n] # None

\* A controller with nothing to handle has the certificates as they are in
\* ETCD, also after a second NewCluster has replaced them one by one, unless
\* one changed between its read and its watch.
CertificatesMirrorEtcd ==
    \A k \in Handles : \A n \in Certs :
        LET c == ctl[k].cluster
        IN  worker[k].pc = "idle" /\ channel[k] = <<>> /\ ~missed[k]
                /\ ~ctl[k].disposed /\ certs[c][n] # None
            => ctl[k].certs[n] = certs[c][n]

\* No controller is left over: one that follows its cluster is the one that
\* clients find, and what is disposed cannot be found once Dispose is over.
NoStrayController ==
    \A k \in Handles :
        LET c == ctl[k].cluster
        IN  c # None =>
              \/ listed[c] = k /\ ~ctl[k].disposed
              \/ listed[c] # k /\ (ctl[k].disposed \/ sync.pc \in {"certs", "keys"})
              \/ sync.pc = "dispose" /\ sync.ctl = k

\* The manager catches up with ETCD again and again, unless a registration
\* failed or its watch has ended.
RegistryFollows ==
    \A c \in Clusters :
        []<>(Settled(c) \/ lost[c] \/ (Running /\ ~watching))

\* And so does a listed controller with the certificates.
Renewed(c) ==
    LET k == listed[c]
    IN  \/ k = None \/ meta[c] = None \/ missed[k] \/ worker[k].pc = "ended"
        \/ \A n \in Certs : ctl[k].certs[n] = certs[c][n]

CertificatesFollow == \A c \in Clusters : []<>Renewed(c)

\* The goroutine of a disposed controller ends.
DisposedWatcherEnds == \A k \in Handles : []<>~ctl[k].disposed

\* What comments and tests claim; the runs that refute it are findings.

\* "Cannot update cache to a disposed cluster controller", Test_DisposedCall:
\* an update of a disposed controller is an error, never the end of the server.
ServerSurvives == server # "dead"

\* saveCluster: certificates before metadata is "very important to ensure that
\* all newest events can be received successfully from ETCD watcher".
NewestReceived == \A k \in Handles : ~missed[k]

=============================================================================
