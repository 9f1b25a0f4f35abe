---------------------------- MODULE AgentTransfer ----------------------------
(***************************************************************************)
(* One agent process, with its restarts, and its transfers between         *)
(* clusters.                                                               *)
(*                                                                         *)
(* Three goroutines of the agent share its arguments, the hasRegistered    *)
(* flag and the recovery record: the main loop registers, the HTTP server  *)
(* takes registration changes, and the status tracer records what became   *)
(* healthy.  The flag is atomic, the rest is plain memory: every access    *)
(* that matters is a step.  The API server's side of a transfer removes    *)
(* the agent's keys and then calls the agent; the keys themselves are the  *)
(* subject of ClusterCache, here only the settings are kept.  The handler  *)
(* of a job query puts the settings back as it read them, and it may do so *)
(* when the keys have been removed and the agent has moved on.             *)
(*                                                                         *)
(* Bounds: Budget caps transfers, restarts, failing requests and calls,    *)
(* and queries that raise the phase; one transfer is under way at a time.  *)
(* Ids is the pool of agent ids.                                           *)
(***************************************************************************)
EXTENDS Integers

CONSTANTS
    Clusters,     \* cluster identities
    Pool,         \* the nil cluster id: the resource pool
    RoleSets,     \* the role combinations
    Ids,          \* agent ids
    FirstPlace,   \* cluster and roles on the agent's command line
    Undisturbed,  \* transfers leave a registering or restarting agent alone
    Budget,       \* how often each kind of disturbance may happen
    Torn,         \* content of a recovery file cut short
    None

Place == [cluster : Clusters, roles : RoleSets]
Record == [cluster : Clusters, roles : RoleSets, installed : BOOLEAN]
Query == [cluster : Clusters, id : Ids, roles : RoleSets]
Files == Record \cup {Torn, None}
Kinds == {"transfer", "crash", "tornSave", "request", "call", "query"}

ASSUME PlaceAssumption ==
    Pool \in Clusters /\ {} \in RoleSets /\ FirstPlace \in Place
ASSUME NoneAssumption ==
    None \notin Ids \cup RoleSets \cup Clusters \cup Record \cup Place \cup {Torn}
ASSUME BudgetAssumption == Undisturbed \in BOOLEAN /\ Budget \in [Kinds -> Nat]

VARIABLES
    settings,  \* settings[c][i]: roles registered under id i in cluster c
    queries,   \* settings that query handlers at the server have still to save
    revived,   \* history: ids whose settings such a save has changed
    transfer,  \* the transfer under way at the API server
    arg,       \* cluster and roles the agent's arguments point to, unless
    alias,     \*   the field is in alias and points into the record
    id,        \* a.arg.AgentId
    flag,      \* a.hasRegistered: 0 open, 1 registered, -1 waiting in the pool
    main,      \* the main loop
    http,      \* the handler of a registration change
    tracer,    \* the status tracer
    rr,        \* a.rr, the recovery record
    file,      \* the recovery file
    deployed,  \* the node runs a component
    healthy,   \* ItemsStatus says so
    acked,     \* history: the place of the last change the agent answered
    spent      \* how much of Budget is used

argVars == <<arg, alias>>
diskVars == <<file, deployed>>
queryVars == <<queries, revived>>
vars == <<settings, queryVars, transfer, arg, alias, id, flag, main, http,
          tracer, rr, file, deployed, healthy, acked, spent>>

Main == [pc : {"boot", "recovering", "loop", "reading", "sent", "answered",
               "pool", "preparing"},
         roles : RoleSets, cluster : Clusters \cup {None}, id : Ids \cup {None}]
At(pc) == [pc |-> pc, roles |-> {}, cluster |-> None, id |-> None]

NoTransfer == [pc |-> "none", id |-> None, from |-> None, to |-> None]
Idle == [pc |-> "idle", to |-> None]

\* What *a.arg.ClusterId and the role pointers show.
ClusterId == IF "cluster" \in alias THEN rr.cluster ELSE arg.cluster
ArgRoles == IF "roles" \in alias THEN rr.roles ELSE arg.roles
Arg == [cluster |-> ClusterId, roles |-> ArgRoles]

\* errNotInitialized: no cluster or no roles.
NotInitialized(p) == p.cluster = Pool \/ p.roles = {}

Spend(k) == /\ spent[k] < Budget[k]
            /\ spent' = [spent EXCEPT ![k] = @ + 1]

Init ==
    /\ settings = [c \in Clusters |-> [i \in Ids |-> None]]
    /\ queries = {} /\ revived = {}
    /\ transfer = NoTransfer
    /\ arg = FirstPlace /\ alias = {}
    /\ id = None
    /\ flag = 0
    /\ main = At("boot") /\ http = Idle /\ tracer = "idle"
    /\ rr = None /\ file = None
    /\ deployed = FALSE /\ healthy = FALSE
    /\ acked = None
    /\ spent = [k \in Kinds |-> 0]

-----------------------------------------------------------------------------
(* Start of the agent: recover, and the first lines of Start *)

\* The file does not parse: the process ends, and docker starts it again.
RecoverFails ==
    /\ main.pc = "boot" /\ file = Torn
    /\ UNCHANGED vars

\* The file is read if it is there; otherwise a record without roles is made.
Boot ==
    /\ main.pc = "boot" /\ file # Torn
    /\ IF file # None
       THEN /\ rr' = file
            /\ alias' = alias \cup {"cluster"}
            /\ main' = At("recovering")
       ELSE /\ rr' = [cluster |-> ClusterId, roles |-> {}, installed |-> FALSE]
            /\ main' = At("loop")
            /\ UNCHANGED alias
    /\ UNCHANGED <<settings, queryVars, transfer, arg, id, flag, http, tracer,
                   diskVars, healthy, acked, spent>>

\* All installed components are healthy again.
Recovered ==
    /\ main.pc = "recovering"
    /\ rr.installed => healthy
    /\ alias' = {"cluster", "roles"}
    /\ main' = At("loop")
    /\ UNCHANGED <<settings, queryVars, transfer, arg, id, flag, http, tracer,
                   rr, diskVars, healthy, acked, spent>>

\* The process ends and docker starts it again with the same command line.  A
\* save that is under way leaves no file or part of one.
Crash ==
    /\ Undisturbed => transfer.pc = "none"
    /\ IF "write" \in {http.pc, tracer}
       THEN Spend("tornSave") /\ file' \in {None, Torn}
       ELSE Spend("crash") /\ UNCHANGED file
    /\ transfer' = IF transfer.pc = "called" THEN NoTransfer ELSE transfer
    /\ arg' = FirstPlace /\ alias' = {}
    /\ id' = None
    /\ flag' = 0
    /\ main' = At("boot") /\ http' = Idle /\ tracer' = "idle"
    /\ rr' = None
    /\ healthy' = FALSE
    /\ UNCHANGED <<settings, queryVars, deployed, acked>>

-----------------------------------------------------------------------------
(* Register *)

\* The roles are copied into the request first, then the cluster.
RegisterReadsRoles ==
    /\ main.pc = "loop" /\ flag = 0
    /\ main' = [At("reading") EXCEPT !.roles = ArgRoles]
    /\ UNCHANGED <<settings, queryVars, transfer, argVars, id, flag, http,
                   tracer, rr, diskVars, healthy, acked, spent>>

RegisterSends ==
    /\ main.pc = "reading"
    /\ main' = [pc |-> "sent", roles |-> main.roles, cluster |-> ClusterId, id |-> id]
    /\ UNCHANGED <<settings, queryVars, transfer, argVars, id, flag, http,
                   tracer, rr, diskVars, healthy, acked, spent>>

Unused(i) ==
    /\ \A c \in Clusters : settings[c][i] = None
    /\ i \notin revived /\ \A q \in queries : q.id # i

\* A new UUID is one that was never used, and it does not matter which.
Fresh(i) == Unused(i) /\ i = CHOOSE j \in Ids : Unused(j)

\* RegisterAgent at the server: settings that are there stay as they are, an
\* agent without id gets a new one.
ServerRegisters(i) ==
    /\ IF main.id = None THEN Fresh(i) ELSE i = main.id
    /\ settings' = [settings EXCEPT ![main.cluster][i] =
                      IF @ = None THEN main.roles ELSE @]

RegisterAnswered(i) ==
    /\ main.pc = "sent"
    /\ ServerRegisters(i)
    /\ main' = [pc |-> "answered", roles |-> main.roles, cluster |-> main.cluster,
                 id |-> i]
    /\ UNCHANGED <<queryVars, transfer, argVars, id, flag, http, tracer, rr,
                   diskVars, healthy, acked, spent>>

\* The request fails before or after the server has handled it, or what
\* follows fails: the flag is set to 0 and the loop goes on.  The errors that
\* fmt.Errorf wraps end the process instead: they are a Crash at this point.
RegisterFails ==
    /\ main.pc \in {"sent", "preparing"}
    /\ Spend("request")
    /\ \/ UNCHANGED settings
       \/ main.pc = "sent" /\ \E i \in Ids : ServerRegisters(i)
    /\ flag' = 0
    /\ main' = At("loop")
    /\ UNCHANGED <<queryVars, transfer, argVars, id, http, tracer, rr,
                   diskVars, healthy, acked>>

\* Mutant: the agent does not keep the id it was given.
RegisterReadsAnswerNoId ==
    /\ main.pc = "answered"
    /\ main' = At(IF NotInitialized(Arg) THEN "pool" ELSE "preparing")
    /\ UNCHANGED <<settings, queryVars, transfer, argVars, id, flag, http,
                   tracer, rr, diskVars, healthy, acked, spent>>

\* The arguments are looked at again, not the request.
RegisterReadsAnswer ==
    /\ main.pc = "answered"
    /\ id' = main.id
    /\ main' = At(IF NotInitialized(Arg) THEN "pool" ELSE "preparing")
    /\ UNCHANGED <<settings, queryVars, transfer, argVars, flag, http, tracer,
                   rr, diskVars, healthy, acked, spent>>

\* The deferred function after errNotInitialized.
EnterPool ==
    /\ main.pc = "pool"
    /\ flag' = -1
    /\ main' = At("loop")
    /\ UNCHANGED <<settings, queryVars, transfer, argVars, id, http, tracer,
                   rr, diskVars, healthy, acked, spent>>

\* The deferred function after success: CompareAndSwap from 0 to 1.
RegisterSucceeds ==
    /\ main.pc = "preparing"
    /\ flag' = IF flag = 0 THEN 1 ELSE flag
    /\ main' = At("loop")
    /\ UNCHANGED <<settings, queryVars, transfer, argVars, id, http, tracer,
                   rr, diskVars, healthy, acked, spent>>

\* A registered agent performs a job; JobScheduler has the details.
Deploy ==
    /\ main.pc = "loop" /\ flag = 1 /\ ~deployed
    /\ deployed' = TRUE
    /\ UNCHANGED <<settings, queryVars, transfer, argVars, id, flag, main,
                   http, tracer, rr, file, healthy, acked, spent>>

\* reportStatus of a registered agent, and the queries that raise no phase:
\* nothing changes here.
Reports ==
    /\ main.pc = "loop" /\ flag # 0
    /\ UNCHANGED vars

-----------------------------------------------------------------------------
(* queryJob, and QueryAgentNextWorkItem at the server *)

\* The server finds the agent in the cache of its cluster.  The agent does not
\* wait longer than 5 seconds; a cache that lags is a query that began earlier.
QueryBegins ==
    /\ main.pc = "loop" /\ flag = 1
    /\ id # None /\ settings[ClusterId][id] # None
    /\ Spend("query")
    /\ queries' = queries \cup {[cluster |-> ClusterId, id |-> id,
                                 roles |-> settings[ClusterId][id]]}
    /\ UNCHANGED <<settings, revived, transfer, argVars, id, flag, main, http,
                   tracer, rr, diskVars, healthy, acked>>

\* The phase has risen: the settings are put back as they were read.
QuerySaves(q) ==
    /\ queries' = queries \ {q}
    /\ settings' = [settings EXCEPT ![q.cluster][q.id] = q.roles]
    /\ revived' = IF settings[q.cluster][q.id] = q.roles THEN revived
                  ELSE revived \cup {q.id}
    /\ UNCHANGED <<transfer, argVars, id, flag, main, http, tracer, rr,
                   diskVars, healthy, acked, spent>>

\* The phase has not risen, or the save fails.
QueryEnds(q) ==
    /\ queries' = queries \ {q}
    /\ UNCHANGED <<settings, revived, transfer, argVars, id, flag, main, http,
                   tracer, rr, diskVars, healthy, acked, spent>>

-----------------------------------------------------------------------------
(* Status tracing and the recovery file *)

\* updateRecoveryFile has something to record, once there is a record.
Unrecorded == rr # None /\ ~rr.installed /\ deployed

TraceStatus ==
    /\ tracer = "idle"
    /\ healthy # deployed \/ Unrecorded
    /\ healthy' = deployed
    /\ IF Unrecorded
       THEN /\ rr' = [rr EXCEPT !.installed = TRUE]
            /\ tracer' = "save"
       ELSE UNCHANGED <<rr, tracer>>
    /\ UNCHANGED <<settings, queryVars, transfer, argVars, id, flag, main,
                   http, diskVars, acked, spent>>

\* saveRecoveryFile, under recoveryLock: the old file is removed ...
TracerRemovesFile ==
    /\ tracer = "save" /\ http.pc # "write"
    /\ tracer' = "write"
    /\ file' = None
    /\ UNCHANGED <<settings, queryVars, transfer, argVars, id, flag, main,
                   http, rr, deployed, healthy, acked, spent>>

\* ... and the record as it is now is written.
TracerWritesFile ==
    /\ tracer = "write"
    /\ tracer' = "idle"
    /\ file' = rr
    /\ UNCHANGED <<settings, queryVars, transfer, argVars, id, flag, main,
                   http, rr, deployed, healthy, acked, spent>>

-----------------------------------------------------------------------------
(* TransferAgentToCluster at the API server *)

\* The handler finds agent i in the cache of cluster c.
TransferAsked(i, c, p) ==
    /\ transfer.pc = "none"
    /\ settings[c][i] # None
    /\ Undisturbed => main.pc = "loop" /\ flag # 0 /\ i = id
    /\ Spend("transfer")
    /\ transfer' = [pc |-> "asked", id |-> i, from |-> c, to |-> p]
    /\ UNCHANGED <<settings, queryVars, argVars, id, flag, main, http, tracer,
                   rr, diskVars, healthy, acked>>

\* Mutant: the keys are removed under the cluster the agent goes to.
TransferRemovesAtTarget ==
    /\ transfer.pc = "asked"
    /\ settings' = [settings EXCEPT ![transfer.to.cluster][transfer.id] = None]
    /\ transfer' = [transfer EXCEPT !.pc = "removed"]
    /\ UNCHANGED <<queryVars, argVars, id, flag, main, http, tracer, rr,
                   diskVars, healthy, acked, spent>>

\* RemoveAgentFromETCD.
TransferRemoves ==
    /\ transfer.pc = "asked"
    /\ settings' = [settings EXCEPT ![transfer.from][transfer.id] = None]
    /\ transfer' = [transfer EXCEPT !.pc = "removed"]
    /\ UNCHANGED <<queryVars, argVars, id, flag, main, http, tracer, rr,
                   diskVars, healthy, acked, spent>>

\* The call does not reach the agent: the handler answers with an error.
TransferCallFails ==
    /\ transfer.pc = "removed"
    /\ Spend("call")
    /\ transfer' = NoTransfer
    /\ UNCHANGED <<settings, queryVars, argVars, id, flag, main, http, tracer,
                   rr, diskVars, healthy, acked>>

TransferCalls ==
    /\ transfer.pc = "removed"
    /\ transfer' = [transfer EXCEPT !.pc = "called"]
    /\ http' = [pc |-> "cluster", to |-> transfer.to]
    /\ UNCHANGED <<settings, queryVars, argVars, id, flag, main, tracer, rr,
                   diskVars, healthy, acked, spent>>

-----------------------------------------------------------------------------
(* RegistrationDataChange at the agent *)

ChangeCluster ==
    /\ http.pc = "cluster"
    /\ arg' = [arg EXCEPT !.cluster = http.to.cluster]
    /\ alias' = alias \ {"cluster"}
    /\ http' = [http EXCEPT !.pc = "roles"]
    /\ UNCHANGED <<settings, queryVars, transfer, id, flag, main, tracer, rr,
                   diskVars, healthy, acked, spent>>

ChangeRoles ==
    /\ http.pc = "roles"
    /\ arg' = [arg EXCEPT !.roles = http.to.roles]
    /\ alias' = alias \ {"roles"}
    /\ http' = [http EXCEPT !.pc = "record"]
    /\ UNCHANGED <<settings, queryVars, transfer, id, flag, main, tracer, rr,
                   diskVars, healthy, acked, spent>>

\* Mutant: the record keeps the roles of before.
ChangeRecordClusterOnly ==
    /\ http.pc = "record"
    /\ rr # None
    /\ rr' = [rr EXCEPT !.cluster = http.to.cluster]
    /\ http' = [http EXCEPT !.pc = "save"]
    /\ UNCHANGED <<settings, queryVars, transfer, argVars, id, flag, main,
                   tracer, diskVars, healthy, acked, spent>>

\* Without a record nothing is saved.
ChangeRecord ==
    /\ http.pc = "record"
    /\ IF rr = None
       THEN http' = [http EXCEPT !.pc = "open"] /\ UNCHANGED rr
       ELSE /\ rr' = [cluster |-> http.to.cluster, roles |-> http.to.roles,
                      installed |-> rr.installed]
            /\ http' = [http EXCEPT !.pc = "save"]
    /\ UNCHANGED <<settings, queryVars, transfer, argVars, id, flag, main,
                   tracer, diskVars, healthy, acked, spent>>

ChangeRemovesFile ==
    /\ http.pc = "save" /\ tracer # "write"
    /\ http' = [http EXCEPT !.pc = "write"]
    /\ file' = None
    /\ UNCHANGED <<settings, queryVars, transfer, argVars, id, flag, main,
                   tracer, rr, deployed, healthy, acked, spent>>

ChangeWritesFile ==
    /\ http.pc = "write"
    /\ http' = [http EXCEPT !.pc = "open"]
    /\ file' = rr
    /\ UNCHANGED <<settings, queryVars, transfer, argVars, id, flag, main,
                   tracer, rr, deployed, healthy, acked, spent>>

\* Mutant: only a registered agent is opened, not one waiting in the pool.
ChangeOpensRegistered ==
    /\ http.pc = "open"
    /\ flag' = IF flag = 1 THEN 0 ELSE flag
    /\ acked' = http.to
    /\ http' = Idle
    /\ transfer' = NoTransfer
    /\ UNCHANGED <<settings, queryVars, argVars, id, main, tracer, rr,
                   diskVars, healthy, spent>>

\* Mutant: the flag is decremented.
ChangeOpensByDecrement ==
    /\ http.pc = "open"
    /\ flag' = flag - 1
    /\ acked' = http.to
    /\ http' = Idle
    /\ transfer' = NoTransfer
    /\ UNCHANGED <<settings, queryVars, argVars, id, main, tracer, rr,
                   diskVars, healthy, spent>>

\* The flag is swapped to 0 and the call answered.
ChangeOpensFlag ==
    /\ http.pc = "open"
    /\ flag' = 0
    /\ acked' = http.to
    /\ http' = Idle
    /\ transfer' = NoTransfer
    /\ UNCHANGED <<settings, queryVars, argVars, id, main, tracer, rr,
                   diskVars, healthy, spent>>

-----------------------------------------------------------------------------
MainLoop ==
    \/ Boot \/ Recovered \/ RegisterReadsRoles \/ RegisterSends
    \/ \E i \in Ids : RegisterAnswered(i)
    \/ RegisterReadsAnswer \/ EnterPool \/ RegisterSucceeds \/ Deploy

StatusTracing == TraceStatus \/ TracerRemovesFile \/ TracerWritesFile

RegistrationDataChange ==
    \/ ChangeCluster \/ ChangeRoles \/ ChangeRecord \/ ChangeRemovesFile
    \/ ChangeWritesFile \/ ChangeOpensFlag

TransferAgentToCluster == TransferRemoves \/ TransferCalls

Queries == QueryBegins \/ \E q \in queries : QuerySaves(q) \/ QueryEnds(q)

Next ==
    \/ MainLoop \/ StatusTracing \/ RegistrationDataChange \/ Queries
    \/ TransferAgentToCluster \/ TransferCallFails
    \/ RegisterFails \/ Crash \/ RecoverFails \/ Reports
    \/ \E i \in Ids, c \in Clusters, p \in Place : TransferAsked(i, c, p)

\* Goroutines run, and the API server answers except when the budget says no.
Fairness ==
    /\ WF_vars(MainLoop)
    /\ WF_vars(StatusTracing)
    /\ WF_vars(RegistrationDataChange)
    /\ WF_vars(TransferAgentToCluster)

Spec == Init /\ [][Next]_vars
FairSpec == Spec /\ Fairness

-----------------------------------------------------------------------------
(* Properties *)

TypeOK ==
    /\ settings \in [Clusters -> [Ids -> RoleSets \cup {None}]]
    /\ queries \subseteq Query /\ revived \subseteq Ids
    /\ transfer \in [pc : {"none", "asked", "removed", "called"},
                     id : Ids \cup {None}, from : Clusters \cup {None},
                     to : Place \cup {None}]
    /\ arg \in Place
    /\ alias \in SUBSET {"cluster", "roles"}
    /\ id \in Ids \cup {None}
    /\ flag \in {-1, 0, 1}
    /\ main \in Main
    /\ http \in [pc : {"idle", "cluster", "roles", "record", "save", "write", "open"},
                 to : Place \cup {None}]
    /\ tracer \in {"idle", "save", "write"}
    /\ rr \in Record \cup {None}
    /\ file \in Files
    /\ deployed \in BOOLEAN /\ healthy \in BOOLEAN
    /\ acked \in Place \cup {None}
    /\ spent \in [Kinds -> Nat]

AtRest == main.pc = "loop" /\ transfer.pc = "none"

\* An agent whose flag says it is registered, or waiting in the pool, is known
\* under its id by the cluster its requests name, and with its roles unless a
\* late query put older ones back; it waits in the pool only when it has
\* nothing to work on.  All this as long as no call of a transfer was lost
\* after its removal.
KnownToItsCluster ==
    AtRest /\ flag # 0 /\ spent["call"] = 0 =>
        /\ id # None /\ settings[ClusterId][id] # None
        /\ id \in revived \/ settings[ClusterId][id] = ArgRoles
        /\ (flag = -1) <=> NotInitialized(Arg)

\* Only a late query puts an id into two clusters: the removal at the old
\* place comes before the registration at the new one, and no registration is
\* sent to a place the agent has left meanwhile.
ListedOnce ==
    \A i \in Ids \ revived, c, d \in Clusters :
        settings[c][i] # None /\ settings[d][i] # None => c = d

\* A change the agent has answered decides where it belongs from then on,
\* across restarts, components that become healthy, and concurrent saves, as
\* long as no restart cut a save short.
ChangeSurvivesRestart ==
    AtRest /\ acked # None /\ spent["tornSave"] = 0 => Arg = acked

\* An answered change ends with the agent registered at the new place, with
\* its new roles unless a late query put the old ones back.  A restart that
\* cuts a save short, or a later transfer whose call is lost, excuses it.
ChangeIsFollowed ==
    \A p \in Place :
        (acked = p) ~> \/ acked # p \/ spent["tornSave"] + spent["call"] > 0
                       \/ /\ flag = IF NotInitialized(p) THEN -1 ELSE 1
                          /\ id # None /\ settings[p.cluster][id] # None
                          /\ id \in revived \/ settings[p.cluster][id] = p.roles

\* Claim: "try to recover system before fully start it up".  Not even a
\* restart in the middle of a save loses an answered change.
RecoveredAsChanged == AtRest /\ acked # None => Arg = acked

\* Claim: the agent recovers what it was from the recovery file.  An agent
\* that was never changed is where its command line put it.
RestartKeepsPlace == AtRest /\ acked = None => Arg = FirstPlace

\* Claim: the call of a transfer is for re-registering.  An agent removed from
\* its cluster is registered again somewhere.
RemovedAgentReregisters ==
    (transfer.pc = "removed") ~>
        (flag # 0 /\ id # None /\ settings[ClusterId][id] # None)

\* Claim: "permanent remove agent's registration information".  Settings that
\* are not there come only from a registration.
RemovedStaysRemoved ==
    [][\A c \in Clusters, i \in Ids :
          settings[c][i] = None /\ settings'[c][i] # None => main.pc = "sent"]_vars

\* Claim: a transfer entirely removes the old agent's data.  No id is ever
\* registered in two clusters.
OneClusterOnly ==
    \A i \in Ids, c, d \in Clusters :
        settings[c][i] # None /\ settings[d][i] # None => c = d
=============================================================================
