---------------------------- MODULE ClusterCache ----------------------------
(***************************************************************************)
(* One cluster of the API server: the agents' keys in ETCD, the watcher    *)
(* that copies them into the hot cache, and the handlers that write them.  *)
(*                                                                         *)
(* An agent a owns two keys below /lightning-monkey/clusters/<c>/agents/:  *)
(* a/settings (permanent) and a/state (attached to a 15 second lease).     *)
(* The watcher re-reads both keys, one after the other, on every event and *)
(* puts the result into the cache's role maps.  Every etcd request is a    *)
(* step of its own, so the other requests interleave with it.              *)
(*                                                                         *)
(* Bounds: QueueBound caps undelivered events; Budget caps restarts,       *)
(* removals, failed reads of the watcher and expiries of a live state key. *)
(* Leases is a pool of lease ids; an id is reused only when nobody holds it*)
(***************************************************************************)
EXTENDS Naturals, Sequences

CONSTANTS
    Agents,      \* agent identities
    RoleSets,    \* the role combinations agents register with
    Flags,       \* contents of a state report (the has_provisioned flags)
    NewFlags,    \* the contents written at registration: nothing provisioned
    Leases,      \* ETCD lease identities
    Outcomes,    \* deployment phases the scheduler decides on
    None,        \* absent key, absent cache entry, lease id -1
    QueueBound,  \* events the model lets ETCD hold back
    Budget       \* how often each kind of fault or removal may happen

Roles == {"etcd", "master", "minion", "ha"}
Maps == Roles \cup {"pool"}
Phases == 0..2
Kinds == {"restart", "removal", "readError", "expiry"}

Settings == [roles : SUBSET Roles, phase : Phases]
State == [flags : Flags, lease : Leases]
Object == [roles : SUBSET Roles, phase : Phases, flags : Flags]
Event == [agent : Agents, key : {"settings", "state"}, type : {"put", "delete"}]

ASSUME RoleSetsAssumption == RoleSets \subseteq SUBSET Roles
ASSUME FlagsAssumption == NewFlags \in Flags
ASSUME OutcomesAssumption == Outcomes \subseteq {1, 2}
ASSUME NoneAssumption ==
    None \notin Settings \cup State \cup Object \cup Event
                   \cup Leases \cup Flags
ASSUME BoundAssumption == QueueBound \in Nat /\ Budget \in [Kinds -> Nat]

VARIABLES
    settings,  \* settings[a]: value of the settings key
    state,     \* state[a]: value of the state key and the lease it hangs on
    alive,     \* alive[a]: leases granted for a that have not expired
    queue,     \* events the watch channel has not delivered yet
    server,    \* "down", "synced" (snapshot taken, no watch yet), "watching"
    cache,     \* cache[m][a]: entry of a in role map m
    watcher,   \* the goroutine running watchChanges
    reg,       \* reg[a]: how far a's registration in this cluster is
    want,      \* want[a]: roles in a's registration request
    held,      \* held[a]: lease id the agent process remembers
    report,    \* report[a]: a's status report in flight
    query,     \* query[a]: settings a next-work query still has to save
    removal,   \* removal[a]: how far a's removal for a transfer is
    missed,    \* history: an event of a passed without refreshing the cache
    spent      \* how much of Budget is used

etcdVars == <<settings, state, alive>>
agentVars == <<reg, want, held>>
vars == <<settings, state, alive, queue, server, cache, watcher, reg, want,
          held, report, query, removal, missed, spent>>

Idle == [pc |-> "idle", ev |-> None, settings |-> None, flags |-> None]
NoReport == [mode |-> "none", lease |-> None]
EmptyCache == [m \in Maps |-> [a \in Agents |-> None]]

-----------------------------------------------------------------------------
(* The agent cache *)

\* The maps an agent with roles rs belongs to; no role means resource pool.
MapsOf(rs) == IF rs = {} THEN {"pool"} ELSE rs

Online(a, o) ==
    [m \in Maps |-> IF m \in MapsOf(o.roles)
                    THEN [cache[m] EXCEPT ![a] = o]
                    ELSE cache[m]]

\* A wrong Offline, for the mutants: the resource pool is forgotten.
OfflinePoolForgotten(a, rs) ==
    [m \in Maps |-> IF m \in MapsOf(rs) \ {"pool"}
                    THEN [cache[m] EXCEPT ![a] = None]
                    ELSE cache[m]]

\* Only the maps named by the roles of the object passed in are cleaned.
Offline(a, rs) ==
    [m \in Maps |-> IF m \in MapsOf(rs)
                    THEN [cache[m] EXCEPT ![a] = None]
                    ELSE cache[m]]

IsCached(a) == \E m \in Maps : cache[m][a] # None

\* First hit in the order in which the code looks through the maps.
GetCachedAgent(a) ==
    LET hits == {m \in Maps : cache[m][a] # None}
    IN  IF "etcd" \in hits THEN cache["etcd"][a]
        ELSE IF "master" \in hits THEN cache["master"][a]
        ELSE IF "minion" \in hits THEN cache["minion"][a]
        ELSE IF "ha" \in hits THEN cache["ha"][a]
        ELSE cache["pool"][a]

\* The maps hold pointers: one Online call stores one object under all the
\* object's roles, so entries with equal roles are the same object.
SetPhase(a, o, p) ==
    [m \in Maps |-> IF cache[m][a] # None /\ cache[m][a].roles = o.roles
                    THEN [cache[m] EXCEPT ![a] =
                            [roles |-> @.roles, phase |-> p, flags |-> @.flags]]
                    ELSE cache[m]]

-----------------------------------------------------------------------------
(* ETCD *)

Spend(k) == /\ spent[k] < Budget[k]
            /\ spent' = [spent EXCEPT ![k] = @ + 1]

\* Writers other than lease expiry are handlers of a serving API server, so
\* the watch exists when they write.
Emit(a, k, t) ==
    /\ Len(queue) < QueueBound
    /\ queue' = Append(queue, [agent |-> a, key |-> k, type |-> t])

PutSettings(a, rs, p) ==
    /\ settings' = [settings EXCEPT ![a] = [roles |-> rs, phase |-> p]]
    /\ Emit(a, "settings", "put")

PutState(a, f, l) ==
    /\ state' = [state EXCEPT ![a] = [flags |-> f, lease |-> l]]
    /\ Emit(a, "state", "put")

\* Deleting an absent key succeeds and produces no event.
DeleteSettings(a) ==
    /\ settings' = [settings EXCEPT ![a] = None]
    /\ IF settings[a] = None THEN UNCHANGED queue
       ELSE Emit(a, "settings", "delete")

DeleteState(a) ==
    /\ state' = [state EXCEPT ![a] = None]
    /\ IF state[a] = None THEN UNCHANGED queue
       ELSE Emit(a, "state", "delete")

\* Grant: a lease id nobody uses or remembers.
NewLease(a, l) ==
    /\ l \in Leases \ (alive[a] \cup {held[a], report[a].lease})
    /\ alive' = [alive EXCEPT ![a] = @ \cup {l}]

\* A lease runs out.  If the state key hangs on it the key goes too; outside
\* a running watch nobody is told.
LeaseExpires(a, l) ==
    /\ l \in alive[a]
    /\ alive' = [alive EXCEPT ![a] = @ \ {l}]
    /\ IF state[a] # None /\ state[a].lease = l
       THEN /\ Spend("expiry")
            /\ IF server = "watching"
               THEN DeleteState(a) /\ UNCHANGED missed
               ELSE /\ state' = [state EXCEPT ![a] = None]
                    /\ missed' = [missed EXCEPT ![a] = @ \/ server = "synced"]
                    /\ UNCHANGED queue
       ELSE UNCHANGED <<state, queue, missed, spent>>
    /\ UNCHANGED <<settings, server, cache, watcher, reg, want, held, report,
                   query, removal>>

-----------------------------------------------------------------------------
(* Start of the API server: doRegister *)

Init ==
    /\ settings = [a \in Agents |-> None]
    /\ state = [a \in Agents |-> None]
    /\ alive = [a \in Agents |-> {}]
    /\ queue = <<>>
    /\ server = "down"
    /\ cache = EmptyCache
    /\ watcher = Idle
    /\ reg = [a \in Agents |-> "out"]
    /\ want = [a \in Agents |-> {}]
    /\ held = [a \in Agents |-> None]
    /\ report = [a \in Agents |-> NoReport]
    /\ query = [a \in Agents |-> None]
    /\ removal = [a \in Agents |-> "none"]
    /\ missed = [a \in Agents |-> FALSE]
    /\ spent = [k \in Kinds |-> 0]

\* One range read of all agents; those with both keys go online.
Snapshot ==
    /\ server = "down"
    /\ server' = "synced"
    /\ cache' = [m \in Maps |-> [a \in Agents |->
          IF settings[a] # None /\ state[a] # None /\ m \in MapsOf(settings[a].roles)
          THEN [roles |-> settings[a].roles, phase |-> settings[a].phase,
                flags |-> state[a].flags]
          ELSE None]]
    /\ UNCHANGED <<settings, state, alive, queue, watcher, reg, want, held,
                   report, query, removal, missed, spent>>

\* The watch starts at ETCD's current revision, not at the snapshot's.
StartWatch ==
    /\ server = "synced"
    /\ server' = "watching"
    /\ UNCHANGED <<settings, state, alive, queue, cache, watcher, reg, want,
                   held, report, query, removal, missed, spent>>

\* The API server stops: memory, watch and the handlers in flight are gone.
Crash ==
    /\ server # "down"
    /\ Spend("restart")
    /\ server' = "down"
    /\ queue' = <<>>
    /\ cache' = EmptyCache
    /\ watcher' = Idle
    /\ reg' = [a \in Agents |-> IF reg[a] \in {"checked", "saved"} THEN "out"
                                ELSE reg[a]]
    /\ report' = [a \in Agents |-> NoReport]
    /\ query' = [a \in Agents |-> None]
    /\ removal' = [a \in Agents |-> "none"]
    /\ want' = [a \in Agents |-> {}]
    /\ missed' = [a \in Agents |-> FALSE]
    /\ UNCHANGED <<settings, state, alive, held>>

-----------------------------------------------------------------------------
(* The watcher: watchChanges *)

WatchTake ==
    /\ server = "watching" /\ watcher.pc = "idle" /\ queue # <<>>
    /\ watcher' = [Idle EXCEPT !.pc = "settings", !.ev = Head(queue)]
    /\ queue' = Tail(queue)
    /\ UNCHANGED <<settings, state, alive, server, cache, reg, want, held,
                   report, query, removal, missed, spent>>

\* First read.  An agent without settings is skipped, whatever the event.
WatchReadSettings ==
    LET a == watcher.ev.agent IN
    /\ watcher.pc = "settings"
    /\ IF settings[a] = None
       THEN /\ watcher' = Idle
            /\ missed' = [missed EXCEPT ![a] = @ \/ IsCached(a)]
       ELSE /\ watcher' = [watcher EXCEPT !.pc = "state", !.settings = settings[a]]
            /\ UNCHANGED missed
    /\ UNCHANGED <<settings, state, alive, queue, server, cache, reg, want,
                   held, report, query, removal, spent>>

\* A wrong second read: a missing state reads as nothing provisioned.
WatchReadStateAsNew ==
    LET a == watcher.ev.agent IN
    /\ watcher.pc = "state"
    /\ watcher' = [watcher EXCEPT !.pc = "apply",
                     !.flags = IF state[a] = None THEN NewFlags ELSE state[a].flags]
    /\ UNCHANGED <<settings, state, alive, queue, server, cache, reg, want,
                   held, report, query, removal, missed, spent>>

\* Second read; a missing state is no error.
WatchReadState ==
    LET a == watcher.ev.agent IN
    /\ watcher.pc = "state"
    /\ watcher' = [watcher EXCEPT !.pc = "apply",
                     !.flags = IF state[a] = None THEN None ELSE state[a].flags]
    /\ UNCHANGED <<settings, state, alive, queue, server, cache, reg, want,
                   held, report, query, removal, missed, spent>>

WatchReadFails ==
    /\ watcher.pc \in {"settings", "state"}
    /\ Spend("readError")
    /\ watcher' = Idle
    /\ missed' = [missed EXCEPT ![watcher.ev.agent] = TRUE]
    /\ UNCHANGED <<settings, state, alive, queue, server, cache, reg, want,
                   held, report, query, removal>>

\* Two wrong forms of OnAgentChanged: an agent without state goes online with
\* no report, or is left as it is.
OnAgentChangedStateless(a, set, flags, isDeleted) ==
    IF isDeleted THEN Offline(a, set.roles)
    ELSE Online(a, [roles |-> set.roles, phase |-> set.phase, flags |-> flags])

OnAgentChangedNoOffline(a, set, flags, isDeleted) ==
    IF isDeleted \/ flags = None THEN cache
    ELSE Online(a, [roles |-> set.roles, phase |-> set.phase, flags |-> flags])

\* A deleted key, or no state, takes the agent offline.
OnAgentChanged(a, set, flags, isDeleted) ==
    IF isDeleted \/ flags = None
    THEN Offline(a, set.roles)
    ELSE Online(a, [roles |-> set.roles, phase |-> set.phase, flags |-> flags])

WatchApply ==
    LET a == watcher.ev.agent IN
    /\ watcher.pc = "apply"
    /\ cache' = OnAgentChanged(a, watcher.settings, watcher.flags,
                               watcher.ev.type = "delete")
    /\ watcher' = Idle
    \* an entry of other roles is out of this refresh's reach
    /\ missed' = [missed EXCEPT ![a] =
          \E m \in Maps : /\ cache[m][a] # None
                          /\ cache[m][a].roles # watcher.settings.roles]
    /\ UNCHANGED <<settings, state, alive, queue, server, reg, want, held,
                   report, query, removal, spent>>

-----------------------------------------------------------------------------
(* RegisterAgent *)

\* Settings present: a duplicate registration, answered with lease id -1.  An
\* agent that has no id yet sends none and finds nothing; a is then the id it
\* will be given.
RegisterCheck(a, rs) ==
    /\ server = "watching" /\ reg[a] = "out"
    /\ IF settings[a] # None
       THEN /\ reg' = [reg EXCEPT ![a] = "in"]
            /\ held' = [held EXCEPT ![a] = None]
            /\ UNCHANGED want
       ELSE /\ reg' = [reg EXCEPT ![a] = "checked"]
            /\ want' = [want EXCEPT ![a] = rs]
            /\ UNCHANGED held
    /\ UNCHANGED <<settings, state, alive, queue, server, cache, watcher,
                   report, query, removal, missed, spent>>

\* SaveAgent, first write.
RegisterSaveSettings(a) ==
    /\ reg[a] = "checked"
    /\ PutSettings(a, want[a], 0)
    /\ reg' = [reg EXCEPT ![a] = "saved"]
    /\ want' = [want EXCEPT ![a] = {}]
    /\ UNCHANGED <<state, alive, server, cache, watcher, held, report, query,
                   removal, missed, spent>>

\* A wrong second write of SaveAgent: the failure of the first is ignored.
RegisterSaveStateAnyway(a, l) ==
    /\ reg[a] \in {"checked", "saved"}
    /\ NewLease(a, l)
    /\ PutState(a, NewFlags, l)
    /\ reg' = [reg EXCEPT ![a] = "in"]
    /\ held' = [held EXCEPT ![a] = l]
    /\ UNCHANGED <<settings, server, cache, watcher, want, report, query,
                   removal, missed, spent>>

\* SaveAgent, second write.  Its answer may not reach the agent, or what the
\* agent does next may fail: it registers again, an agent that was new under
\* another id, so that a may be left behind for ever.
RegisterSaveState(a, l) ==
    /\ reg[a] = "saved"
    /\ NewLease(a, l)
    /\ PutState(a, NewFlags, l)
    /\ \/ /\ reg' = [reg EXCEPT ![a] = "in"]
          /\ held' = [held EXCEPT ![a] = l]
       \/ /\ reg' = [reg EXCEPT ![a] = "out"]
          /\ UNCHANGED held
    /\ UNCHANGED <<settings, server, cache, watcher, want, report, query,
                   removal, missed, spent>>

\* An ETCD request of the handler fails; the agent tries again.
RegisterFails(a) ==
    /\ reg[a] \in {"checked", "saved"}
    /\ reg' = [reg EXCEPT ![a] = "out"]
    /\ want' = [want EXCEPT ![a] = {}]
    /\ UNCHANGED <<settings, state, alive, queue, server, cache, watcher, held,
                   report, query, removal, missed, spent>>

-----------------------------------------------------------------------------
(* AgentReportStatus *)

\* A wrong begin of a report: an agent found in ETCD only keeps its old lease.
ReportBeginOldLease(a) ==
    /\ server = "watching" /\ reg[a] = "in" /\ report[a] = NoReport
    /\ report' = [report EXCEPT ![a] =
          IF held[a] # None THEN [mode |-> "renew", lease |-> held[a]]
          ELSE [mode |-> "grant", lease |-> None]]
    /\ UNCHANGED <<settings, state, alive, queue, server, cache, watcher, reg,
                   want, held, query, removal, missed, spent>>

\* The agent sends one report at a time, and one at a time is handled.
\* A cached agent renews the lease it sent, or gets a new one if it sent -1.
\* One the cache does not know is looked up in ETCD.
ReportBegin(a) ==
    /\ server = "watching" /\ reg[a] = "in" /\ report[a] = NoReport
    /\ report' = [report EXCEPT ![a] =
          IF ~IsCached(a) THEN [mode |-> "lookup", lease |-> None]
          ELSE IF held[a] # None THEN [mode |-> "renew", lease |-> held[a]]
          ELSE [mode |-> "grant", lease |-> None]]
    /\ UNCHANGED <<settings, state, alive, queue, server, cache, watcher, reg,
                   want, held, query, removal, missed, spent>>

\* The lease id of an agent found in ETCD only is replaced by -1; an agent that
\* is in neither is answered "not found".
ReportLookup(a) ==
    /\ report[a].mode = "lookup"
    /\ report' = [report EXCEPT ![a] =
          IF settings[a] # None THEN [mode |-> "grant", lease |-> None]
          ELSE NoReport]
    /\ UNCHANGED <<settings, state, alive, queue, server, cache, watcher, reg,
                   want, held, query, removal, missed, spent>>

\* KeepAliveOnce succeeds only on a lease that has not expired.  The agent
\* stores the lease id of the answer, if the answer arrives.
ReportRenew(a, f) ==
    LET l == report[a].lease IN
    /\ report[a].mode = "renew"
    /\ report' = [report EXCEPT ![a] = NoReport]
    /\ IF l \in alive[a]
       THEN /\ PutState(a, f, l)
            /\ held' = [held EXCEPT ![a] = l]
       ELSE UNCHANGED <<state, queue, held>>
    /\ UNCHANGED <<settings, alive, server, cache, watcher, reg, want, query,
                   removal, missed, spent>>

ReportGrant(a, f, l) ==
    /\ report[a].mode = "grant"
    /\ report' = [report EXCEPT ![a] = NoReport]
    /\ NewLease(a, l)
    /\ PutState(a, f, l)
    /\ \/ held' = [held EXCEPT ![a] = l]
       \/ UNCHANGED held
    /\ UNCHANGED <<settings, server, cache, watcher, reg, want, query,
                   removal, missed, spent>>

-----------------------------------------------------------------------------
(* QueryAgentNextWorkItem *)

\* The scheduler moves the cached object's phase; only an increase is saved,
\* and what is saved is the cached object.
QueryBegin(a, p) ==
    LET o == GetCachedAgent(a) IN
    /\ server = "watching" /\ reg[a] = "in" /\ query[a] = None
    /\ o # None
    /\ cache' = SetPhase(a, o, p)
    /\ IF p > o.phase
       THEN query' = [query EXCEPT ![a] = [roles |-> o.roles, phase |-> p]]
       ELSE UNCHANGED query
    /\ UNCHANGED <<settings, state, alive, queue, server, watcher, reg, want,
                   held, report, removal, missed, spent>>

QuerySave(a) ==
    /\ query[a] # None
    /\ PutSettings(a, query[a].roles, query[a].phase)
    /\ query' = [query EXCEPT ![a] = None]
    /\ UNCHANGED <<state, alive, server, cache, watcher, reg, want, held,
                   report, removal, missed, spent>>

QuerySaveFails(a) ==
    /\ query[a] # None
    /\ query' = [query EXCEPT ![a] = None]
    /\ UNCHANGED <<settings, state, alive, queue, server, cache, watcher, reg,
                   want, held, report, removal, missed, spent>>

-----------------------------------------------------------------------------
(* TransferAgentToCluster, seen from the cluster the agent leaves *)

\* The handler found the agent in the cache; it may then wait for long.
RemoveAsked(a) ==
    /\ server = "watching" /\ removal[a] = "none" /\ IsCached(a)
    /\ Spend("removal")
    /\ removal' = [removal EXCEPT ![a] = "asked"]
    /\ UNCHANGED <<settings, state, alive, queue, server, cache, watcher, reg,
                   want, held, report, query, missed>>

RemoveState(a) ==
    /\ removal[a] = "asked"
    /\ DeleteState(a)
    /\ removal' = [removal EXCEPT ![a] = "stateGone"]
    /\ UNCHANGED <<settings, alive, server, cache, watcher, reg, want, held,
                   report, query, missed, spent>>

\* The third delete names a key that never exists and changes nothing.
RemoveSettings(a) ==
    /\ removal[a] = "stateGone"
    /\ DeleteSettings(a)
    /\ removal' = [removal EXCEPT ![a] = "gone"]
    /\ UNCHANGED <<state, alive, server, cache, watcher, reg, want, held,
                   report, query, missed, spent>>

\* An ETCD delete fails, or the waiting task is cancelled.
RemoveFails(a) ==
    /\ removal[a] \in {"asked", "stateGone"}
    /\ removal' = [removal EXCEPT ![a] = "none"]
    /\ UNCHANGED <<settings, state, alive, queue, server, cache, watcher, reg,
                   want, held, report, query, missed, spent>>

\* changeAgentCluster: the call reaches the agent, or it does not and the
\* agent goes on as a member of this cluster.
NotifyAgent(a) ==
    /\ removal[a] = "gone"
    /\ removal' = [removal EXCEPT ![a] = "none"]
    /\ \/ UNCHANGED reg
       \/ reg[a] = "in" /\ reg' = [reg EXCEPT ![a] = "out"]
    /\ UNCHANGED <<settings, state, alive, queue, server, cache, watcher, want,
                   held, report, query, missed, spent>>

-----------------------------------------------------------------------------
Watch == WatchTake \/ WatchReadSettings \/ WatchReadState \/ WatchApply

Register(a) ==
    \/ \E rs \in RoleSets : RegisterCheck(a, rs)
    \/ RegisterSaveSettings(a)
    \/ \E l \in Leases : RegisterSaveState(a, l)

Report(a) ==
    \/ ReportBegin(a) \/ ReportLookup(a)
    \/ \E f \in Flags : ReportRenew(a, f)
    \/ \E f \in Flags, l \in Leases : ReportGrant(a, f, l)

Query(a) ==
    \/ \E p \in Outcomes : QueryBegin(a, p)
    \/ QuerySave(a)
    \/ QuerySaveFails(a)

Remove(a) ==
    \/ RemoveAsked(a) \/ RemoveState(a) \/ RemoveSettings(a)
    \/ RemoveFails(a) \/ NotifyAgent(a)

Next ==
    \/ Snapshot \/ StartWatch \/ Crash
    \/ Watch \/ WatchReadFails
    \/ \E a \in Agents :
          \/ Register(a) \/ RegisterFails(a)
          \/ Report(a) \/ Query(a) \/ Remove(a)
          \/ \E l \in Leases : LeaseExpires(a, l)

Spec == Init /\ [][Next]_vars

\* A lease no key hangs on is renewed by nobody: KeepAliveOnce is followed by
\* the write that attaches the key.
UnusedLeaseExpires(a) ==
    \E l \in Leases : /\ LeaseExpires(a, l)
                      /\ state[a] = None \/ state[a].lease # l

\* The server starts, its watcher runs, the agent's report loop keeps calling
\* as long as its process lives, and unused leases run out.
Fairness ==
    /\ WF_vars(Snapshot) /\ WF_vars(StartWatch) /\ WF_vars(Watch)
    /\ \A a \in Agents : WF_vars(Report(a)) /\ WF_vars(UnusedLeaseExpires(a))

FairSpec == Spec /\ Fairness

-----------------------------------------------------------------------------
(* Properties *)

\* Type invariant: every key, cache entry, request in flight and the watcher's
\* local values have the shape the code gives them.
TypeOK ==
    /\ settings \in [Agents -> Settings \cup {None}]
    /\ state \in [Agents -> State \cup {None}]
    /\ alive \in [Agents -> SUBSET Leases]
    /\ queue \in Seq(Event)
    /\ server \in {"down", "synced", "watching"}
    /\ cache \in [Maps -> [Agents -> Object \cup {None}]]
    /\ watcher \in [pc : {"idle", "settings", "state", "apply"},
                    ev : Event \cup {None}, settings : Settings \cup {None},
                    flags : Flags \cup {None}]
    /\ watcher.pc # "idle" => watcher.ev # None
    /\ watcher.pc \in {"state", "apply"} => watcher.settings # None
    /\ reg \in [Agents -> {"out", "checked", "saved", "in"}]
    /\ want \in [Agents -> SUBSET Roles]
    /\ held \in [Agents -> Leases \cup {None}]
    /\ report \in [Agents -> [mode : {"none", "lookup", "renew", "grant"},
                              lease : Leases \cup {None}]]
    /\ query \in [Agents -> Settings \cup {None}]
    /\ removal \in [Agents -> {"none", "asked", "stateGone", "gone"}]
    /\ missed \in [Agents -> BOOLEAN]
    /\ spent \in [Kinds -> Nat]

Pending(a) == \E i \in 1..Len(queue) : queue[i].agent = a

\* Nothing about a is on its way from ETCD to the cache.
Quiet(a) == /\ server = "watching"
            /\ ~Pending(a)
            /\ watcher.pc = "idle" \/ watcher.ev.agent # a

\* The cache shows a exactly as ETCD does: under the maps of its stored roles,
\* with the reported flags, if both keys exist, and nowhere otherwise.
Mirrored(a) ==
    \A m \in Maps :
        IF settings[a] # None /\ state[a] # None /\ m \in MapsOf(settings[a].roles)
        THEN /\ cache[m][a] # None
             /\ cache[m][a].roles = settings[a].roles
             /\ cache[m][a].flags = state[a].flags
        ELSE cache[m][a] = None

\* An agent none of whose events was lost to the cache (a change between the
\* snapshot and the watch, a failed read, a skipped event, an entry left under
\* other roles) is mirrored exactly whenever nothing about it is on its way.
CacheMirrorsEtcd == \A a \in Agents : Quiet(a) /\ ~missed[a] => Mirrored(a)

(* The inductive invariant behind CacheMirrorsEtcd. *)

\* Handlers, watcher and queue belong to a serving API server.
ServerInv ==
    server # "watching" =>
        /\ watcher.pc = "idle" /\ queue = <<>>
        /\ \A a \in Agents : /\ reg[a] \notin {"checked", "saved"}
                             /\ report[a].mode = "none"
                             /\ query[a] = None
                             /\ removal[a] = "none"

Handling(a) == watcher.pc # "idle" /\ watcher.ev.agent = a

Absent(k, a) == IF k = "settings" THEN settings[a] = None ELSE state[a] = None

\* Entries lie only in maps their own roles name.
Placed == \A m \in Maps, a \in Agents :
              cache[m][a] # None => m \in MapsOf(cache[m][a].roles)

\* The last event of an agent tells the truth if it is a delete.
DeletesQueued ==
    \A i \in 1..Len(queue) :
        /\ queue[i].type = "delete"
        /\ \A j \in (i + 1)..Len(queue) : queue[j].agent # queue[i].agent
        => Absent(queue[i].key, queue[i].agent)

DeleteHandled ==
    \A a \in Agents : Handling(a) /\ watcher.ev.type = "delete" /\ ~Pending(a)
                          => Absent(watcher.ev.key, a)

\* What the watcher read is current unless another event is still to come.
FetchFresh ==
    \A a \in Agents : Handling(a) /\ ~Pending(a) =>
        /\ watcher.pc \in {"state", "apply"} => watcher.settings = settings[a]
        /\ watcher.pc = "apply" =>
               watcher.flags = IF state[a] = None THEN None ELSE state[a].flags

MirrorFresh ==
    \A a \in Agents :
        server # "down" /\ ~Pending(a) /\ ~Handling(a) /\ ~missed[a] => Mirrored(a)

MirrorInv == /\ Placed
             /\ DeletesQueued /\ DeleteHandled
             /\ FetchFresh /\ MirrorFresh

\* SaveAgent writes the settings before the state, so a state key without
\* settings, which every reader ignores, exists only after a removal.
StateImpliesSettings ==
    \A a \in Agents :
        spent["removal"] = 0 /\ state[a] # None => settings[a] # None

(* The inductive invariant behind StateImpliesSettings. *)

\* Whoever is about to write the state of an agent, or could make somebody
\* write it, has seen its settings.
Settled ==
    spent["removal"] = 0 =>
        \A a \in Agents :
            /\ removal[a] = "none"
            /\ settings[a] = None =>
                  /\ state[a] = None /\ ~IsCached(a)
                  /\ reg[a] # "saved"
                  /\ report[a].mode \in {"none", "lookup"}
                  /\ ~(Handling(a) /\ watcher.pc \in {"state", "apply"})

\* An agent whose lease ran out does not stay in the cache: it goes, or it
\* reports again.  (An agent with a lost event may stay: see missed.)
OfflineAgentLeavesCache ==
    \A a \in Agents :
        IsCached(a) /\ state[a] = None /\ ~missed[a]
            ~> ~IsCached(a) \/ state[a] # None \/ missed[a]

\* A registered agent that keeps reporting comes back after its lease ran out
\* or its state was deleted: the cache lets go of it, the next report misses
\* the cache and gets a new lease.
ReportingAgentComesBack ==
    \A a \in Agents :
        server = "watching" /\ reg[a] = "in" /\ settings[a] # None /\ ~missed[a]
            ~> \/ IsCached(a) /\ state[a] # None
               \/ server # "watching" \/ reg[a] # "in" \/ settings[a] = None
               \/ missed[a]

\* What was never stored for an agent is never shown of it: a report, or a set
\* of roles, that its keys never held does not come out of the cache, however
\* the watcher's two reads, a restart and the writers interleave.
ShowsOnlyStored ==
    \A a \in Agents :
        /\ \A f \in Flags :
              [](state[a] = None \/ state[a].flags # f)
                  => [](\A m \in Maps : cache[m][a] = None \/ cache[m][a].flags # f)
        /\ \A rs \in RoleSets :
              [](settings[a] = None \/ settings[a].roles # rs)
                  => [](\A m \in Maps : cache[m][a] = None \/ cache[m][a].roles # rs)

\* What the comments of doRegister and of RemoveAgentFromETCD claim.  The
\* code does not keep these; the runs that refute them are findings.

\* "we need to watch all of subsequent events": with no failed read and no
\* removal the cache of a watched cluster mirrors ETCD.
AllLaterEventsWatched ==
    spent["readError"] = 0 /\ spent["removal"] = 0
        => \A a \in Agents : Quiet(a) => Mirrored(a)

\* "it'll cause the data changing notification ... for cache cleaning": once
\* the keys are gone and the events handled, the agent is not cached.
RemovalCleansCache ==
    spent["readError"] = 0 /\ spent["restart"] = 0
        => \A a \in Agents :
              Quiet(a) /\ settings[a] = None /\ state[a] = None => ~IsCached(a)

\* "permanent remove agent's registration information": only a registration
\* writes the settings of an agent that has none.
RemovalIsPermanent ==
    [][\A a \in Agents :
          settings[a] = None /\ settings'[a] # None => reg[a] = "checked"]_vars

=============================================================================
