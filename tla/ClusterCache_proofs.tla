------------------------- MODULE ClusterCache_proofs -------------------------
(***************************************************************************)
(* Theorems about ClusterCache for every set of agents, leases and reports *)
(* and every bound.                                                        *)
(***************************************************************************)
EXTENDS ClusterCache, SequenceTheorems, TLAPS

USE RoleSetsAssumption, FlagsAssumption, NoneAssumption, BoundAssumption,
    OutcomesAssumption

-----------------------------------------------------------------------------
(* Types *)

\* Emitting an event keeps the queue a sequence of events.
LEMMA EmitType ==
    ASSUME queue \in Seq(Event), NEW a \in Agents,
           NEW k \in {"settings", "state"}, NEW t \in {"put", "delete"},
           Emit(a, k, t)
    PROVE  queue' \in Seq(Event)
  <1>1. [agent |-> a, key |-> k, type |-> t] \in Event
    BY DEF Event
  <1> QED
    BY <1>1, AppendProperties DEF Emit

\* The lookup returns an object or nothing.
LEMMA LookupType ==
    ASSUME cache \in [Maps -> [Agents -> Object \cup {None}]], NEW a \in Agents
    PROVE  GetCachedAgent(a) \in Object \cup {None}
  BY DEF GetCachedAgent, Maps, Roles

\* The three ways the cache changes keep it a table of objects.
LEMMA CacheType ==
    ASSUME cache \in [Maps -> [Agents -> Object \cup {None}]], NEW a \in Agents
    PROVE  /\ \A o \in Object :
                Online(a, o) \in [Maps -> [Agents -> Object \cup {None}]]
           /\ \A rs : Offline(a, rs) \in [Maps -> [Agents -> Object \cup {None}]]
           /\ \A o, p : p \in Phases =>
                SetPhase(a, o, p) \in [Maps -> [Agents -> Object \cup {None}]]
  <1>1. \A o \in Object :
           Online(a, o) \in [Maps -> [Agents -> Object \cup {None}]]
    BY DEF Online
  <1>2. \A rs : Offline(a, rs) \in [Maps -> [Agents -> Object \cup {None}]]
    BY DEF Offline
  <1>3. ASSUME NEW o, NEW p \in Phases
        PROVE  SetPhase(a, o, p) \in [Maps -> [Agents -> Object \cup {None}]]
    BY DEF SetPhase, Object
  <1> QED
    BY <1>1, <1>2, <1>3

\* The type invariant holds of every reachable state.
THEOREM TypeCorrect == Spec => []TypeOK
  <1>1. Init => TypeOK
    <2> SUFFICES ASSUME Init PROVE TypeOK
      OBVIOUS
    <2>1. EmptyCache \in [Maps -> [Agents -> Object \cup {None}]]
      BY DEF EmptyCache
    <2>2. queue \in Seq(Event)
      BY DEF Init
    <2>3. watcher \in [pc : {"idle", "settings", "state", "apply"},
                    ev : Event \cup {None}, settings : Settings \cup {None},
                    flags : Flags \cup {None}]
      BY DEF Init, Idle
    <2>4. watcher.pc = "idle"
      BY DEF Init, Idle
    <2>5. report \in [Agents -> [mode : {"none", "lookup", "renew", "grant"},
                                 lease : Leases \cup {None}]]
      BY DEF Init, NoReport
    <2>6. spent \in [Kinds -> Nat]
      BY DEF Init
    <2> QED
      BY <2>1, <2>2, <2>3, <2>4, <2>5, <2>6 DEF Init, TypeOK
  <1>2. TypeOK /\ [Next]_vars => TypeOK'
    <2> SUFFICES ASSUME TypeOK, [Next]_vars PROVE TypeOK'
      OBVIOUS
    <2> USE DEF TypeOK
    <2>1. CASE Snapshot
      <3>1. cache' \in [Maps -> [Agents -> Object \cup {None}]]
        BY <2>1 DEF Snapshot, Settings, State, Object
      <3> QED
        BY <2>1, <3>1 DEF Snapshot
    <2>2. CASE StartWatch
      BY <2>2 DEF StartWatch
    <2>3. CASE Crash
      <3>1. /\ cache' \in [Maps -> [Agents -> Object \cup {None}]]
            /\ queue' \in Seq(Event)
            /\ spent' \in [Kinds -> Nat]
        BY <2>3 DEF Crash, EmptyCache, Spend, Kinds
      <3> QED
        BY <2>3, <3>1 DEF Crash, Idle, NoReport
    <2>4. CASE WatchTake
      <3>1. Head(queue) \in Event /\ Tail(queue) \in Seq(Event)
        BY <2>4, HeadTailProperties DEF WatchTake
      <3> QED
        BY ZenonT(60), <2>4, <3>1 DEF WatchTake, Idle
    <2>5. CASE WatchReadSettings
      <3>1. watcher.ev.agent \in Agents
        BY <2>5 DEF WatchReadSettings, Event
      <3>2. CASE settings[watcher.ev.agent] = None
        <4>1. /\ watcher' \in [pc : {"idle", "settings", "state", "apply"},
                    ev : Event \cup {None}, settings : Settings \cup {None},
                    flags : Flags \cup {None}]
              /\ watcher'.pc = "idle"
          BY <2>5, <3>2 DEF WatchReadSettings, Idle
        <4>2. missed' \in [Agents -> BOOLEAN]
          <5>1. IsCached(watcher.ev.agent) \in BOOLEAN
            BY DEF IsCached
          <5>2. missed' = [missed EXCEPT ![watcher.ev.agent] =
                              @ \/ IsCached(watcher.ev.agent)]
            BY <2>5, <3>2 DEF WatchReadSettings
          <5> QED
            BY <3>1, <5>1, <5>2
        <4> QED
          BY <2>5, <4>1, <4>2 DEF WatchReadSettings
      <3>3. CASE settings[watcher.ev.agent] # None
        <4>1. settings[watcher.ev.agent] \in Settings
          BY <3>1, <3>3
        <4>2. watcher' = [watcher EXCEPT !.pc = "state",
                                         !.settings = settings[watcher.ev.agent]]
          BY <2>5, <3>3 DEF WatchReadSettings
        <4>3. /\ watcher' \in [pc : {"idle", "settings", "state", "apply"},
                    ev : Event \cup {None}, settings : Settings \cup {None},
                    flags : Flags \cup {None}]
              /\ watcher'.ev # None /\ watcher'.settings # None
          BY <2>5, <4>1, <4>2, <3>3 DEF WatchReadSettings
        <4> QED
          BY <2>5, <3>3, <4>3 DEF WatchReadSettings
      <3> QED
        BY <3>2, <3>3
    <2>6. CASE WatchReadState
      <3>1. watcher.ev.agent \in Agents
        BY <2>6 DEF WatchReadState, Event
      <3>2. (IF state[watcher.ev.agent] = None THEN None
             ELSE state[watcher.ev.agent].flags) \in Flags \cup {None}
        BY <3>1 DEF State
      <3>3. watcher' \in [pc : {"idle", "settings", "state", "apply"},
                          ev : Event \cup {None}, settings : Settings \cup {None},
                          flags : Flags \cup {None}]
            /\ watcher'.ev = watcher.ev /\ watcher'.settings = watcher.settings
            /\ watcher'.pc = "apply"
        BY <2>6, <3>2 DEF WatchReadState
      <3> QED
        BY <2>6, <3>3 DEF WatchReadState
    <2>7. CASE WatchApply
      <3> DEFINE a == watcher.ev.agent
                 o == [roles |-> watcher.settings.roles,
                       phase |-> watcher.settings.phase, flags |-> watcher.flags]
      <3>1. a \in Agents
        BY <2>7 DEF WatchApply, Event
      <3>2. watcher.flags # None => o \in Object
        BY <2>7 DEF WatchApply, Settings, Object
      <3>3. cache' \in [Maps -> [Agents -> Object \cup {None}]]
        BY <2>7, <3>1, <3>2, CacheType DEF WatchApply, OnAgentChanged
      <3> QED
        BY <2>7, <3>1, <3>3 DEF WatchApply, Idle
    <2>8. CASE WatchReadFails
      <3>1. spent' \in [Kinds -> Nat]
        BY SMTT(60), <2>8 DEF WatchReadFails, Spend, Kinds
      <3> QED
        BY <2>8, <3>1 DEF WatchReadFails, Idle
    <2>9. ASSUME NEW a \in Agents, Register(a)
          PROVE  TypeOK'
      <3>1. CASE \E rs \in RoleSets : RegisterCheck(a, rs)
        <4>1. PICK rs \in RoleSets : RegisterCheck(a, rs)
          BY <3>1
        <4>2. rs \in SUBSET Roles
          OBVIOUS
        <4>3. /\ reg' \in [Agents -> {"out", "checked", "saved", "in"}]
              /\ want' \in [Agents -> SUBSET Roles]
              /\ held' \in [Agents -> Leases \cup {None}]
          <5>1. CASE settings[a] # None
            <6>1. /\ reg' = [reg EXCEPT ![a] = "in"]
                  /\ held' = [held EXCEPT ![a] = None]
                  /\ want' = want
              BY <4>1, <5>1 DEF RegisterCheck
            <6> QED
              BY <6>1
          <5>2. CASE settings[a] = None
            <6>1. /\ reg' = [reg EXCEPT ![a] = "checked"]
                  /\ want' = [want EXCEPT ![a] = rs]
                  /\ held' = held
              BY <4>1, <5>2 DEF RegisterCheck
            <6> QED
              BY <6>1, <4>2
          <5> QED
            BY <5>1, <5>2
        <4> QED
          BY <4>1, <4>3 DEF RegisterCheck
      <3>2. CASE RegisterSaveSettings(a)
        <4>1. queue' \in Seq(Event)
          BY <3>2, EmitType DEF RegisterSaveSettings, PutSettings
        <4>2. settings' \in [Agents -> Settings \cup {None}]
          BY <3>2 DEF RegisterSaveSettings, PutSettings, Settings, Phases
        <4> QED
          BY <3>2, <4>1, <4>2 DEF RegisterSaveSettings
      <3>3. CASE \E l \in Leases : RegisterSaveState(a, l)
        <4>1. PICK l \in Leases : RegisterSaveState(a, l)
          BY <3>3
        <4>2. queue' \in Seq(Event)
          BY <4>1, EmitType DEF RegisterSaveState, PutState
        <4>3. state' \in [Agents -> State \cup {None}]
          BY <4>1 DEF RegisterSaveState, PutState, State
        <4>4. alive' \in [Agents -> SUBSET Leases]
          BY <4>1 DEF RegisterSaveState, NewLease
        <4>5. /\ held' \in [Agents -> Leases \cup {None}]
              /\ reg' \in [Agents -> {"out", "checked", "saved", "in"}]
          <5>1. CASE /\ reg' = [reg EXCEPT ![a] = "in"]
                     /\ held' = [held EXCEPT ![a] = l]
            BY <5>1
          <5>2. CASE reg' = [reg EXCEPT ![a] = "out"] /\ held' = held
            BY <5>2
          <5> QED
            BY <4>1, <5>1, <5>2 DEF RegisterSaveState
        <4>6. UNCHANGED <<settings, server, cache, watcher, want, report, query,
                          removal, missed, spent>>
          BY <4>1 DEF RegisterSaveState
        <4> QED
          BY <4>2, <4>3, <4>4, <4>5, <4>6
      <3> QED
        BY <2>9, <3>1, <3>2, <3>3 DEF Register
    <2>10. ASSUME NEW a \in Agents, RegisterFails(a)
           PROVE  TypeOK'
      BY <2>10 DEF RegisterFails
    <2>11. ASSUME NEW a \in Agents, Report(a)
           PROVE  TypeOK'
      <3>1. CASE ReportBegin(a) \/ ReportLookup(a)
        <4>1. /\ held[a] \in Leases \cup {None}
              /\ \E m \in {"none", "lookup", "renew", "grant"},
                    l \in {None, held[a]} :
                    report' = [report EXCEPT ![a] = [mode |-> m, lease |-> l]]
          BY <3>1 DEF ReportBegin, ReportLookup, NoReport
        <4> QED
          BY <3>1, <4>1 DEF ReportBegin, ReportLookup
      <3>2. CASE \E f \in Flags : ReportRenew(a, f)
        <4>1. PICK f \in Flags : ReportRenew(a, f)
          BY <3>2
        <4>2. CASE report[a].lease \in alive[a]
          <5>1. queue' \in Seq(Event)
            BY <4>1, <4>2, EmitType DEF ReportRenew, PutState
          <5>2. state' \in [Agents -> State \cup {None}]
            <6>1. [flags |-> f, lease |-> report[a].lease] \in State
              BY <4>2 DEF State
            <6>2. state' = [state EXCEPT ![a] =
                              [flags |-> f, lease |-> report[a].lease]]
              BY <4>1, <4>2 DEF ReportRenew, PutState
            <6> QED
              BY <6>1, <6>2
          <5> QED
            BY ZenonT(60), <4>1, <4>2, <5>1, <5>2 DEF ReportRenew, NoReport
        <4>3. CASE report[a].lease \notin alive[a]
          BY <4>1, <4>3 DEF ReportRenew, NoReport
        <4> QED
          BY <4>2, <4>3
      <3>3. CASE \E f \in Flags, l \in Leases : ReportGrant(a, f, l)
        <4>1. PICK f \in Flags, l \in Leases : ReportGrant(a, f, l)
          BY <3>3
        <4>2. queue' \in Seq(Event)
          BY <4>1, EmitType DEF ReportGrant, PutState
        <4>3. state' \in [Agents -> State \cup {None}]
          BY <4>1 DEF ReportGrant, PutState, State
        <4>4. alive' \in [Agents -> SUBSET Leases]
          BY <4>1 DEF ReportGrant, NewLease
        <4>5. held' \in [Agents -> Leases \cup {None}]
          BY ZenonT(60), <4>1 DEF ReportGrant
        <4> QED
          BY <4>1, <4>2, <4>3, <4>4, <4>5 DEF ReportGrant, NoReport
      <3> QED
        BY <2>11, <3>1, <3>2, <3>3 DEF Report
    <2>12. ASSUME NEW a \in Agents, Query(a)
           PROVE  TypeOK'
      <3>1. CASE \E p \in Outcomes : QueryBegin(a, p)
        <4>1. PICK p \in Outcomes : QueryBegin(a, p)
          BY <3>1
        <4>2. p \in Phases
          BY DEF Phases
        <4>3. cache' \in [Maps -> [Agents -> Object \cup {None}]]
          BY <4>1, <4>2, CacheType DEF QueryBegin
        <4>4. query' \in [Agents -> Settings \cup {None}]
          <5>1. GetCachedAgent(a) \in Object
            BY <4>1, LookupType DEF QueryBegin
          <5>2. [roles |-> GetCachedAgent(a).roles, phase |-> p] \in Settings
            BY <5>1, <4>2 DEF Object, Settings
          <5>3. \/ query' = [query EXCEPT ![a] =
                               [roles |-> GetCachedAgent(a).roles, phase |-> p]]
                \/ query' = query
            BY <4>1 DEF QueryBegin
          <5> QED
            BY SMTT(60), <5>2, <5>3
        <4> QED
          BY <4>1, <4>3, <4>4 DEF QueryBegin
      <3>2. CASE QuerySave(a)
        <4>1. queue' \in Seq(Event)
          BY <3>2, EmitType DEF QuerySave, PutSettings
        <4>2. settings' \in [Agents -> Settings \cup {None}]
          BY <3>2 DEF QuerySave, PutSettings, Settings
        <4> QED
          BY <3>2, <4>1, <4>2 DEF QuerySave
      <3>3. CASE QuerySaveFails(a)
        BY <3>3 DEF QuerySaveFails
      <3> QED
        BY <2>12, <3>1, <3>2, <3>3 DEF Query
    <2>13. ASSUME NEW a \in Agents, Remove(a)
           PROVE  TypeOK'
      <3>1. CASE RemoveAsked(a)
        BY SMTT(60), <3>1 DEF RemoveAsked, Spend, Kinds
      <3>2. CASE RemoveState(a)
        <4>1. queue' \in Seq(Event)
          BY <3>2, EmitType DEF RemoveState, DeleteState
        <4> QED
          BY <3>2, <4>1 DEF RemoveState, DeleteState
      <3>3. CASE RemoveSettings(a)
        <4>1. queue' \in Seq(Event)
          BY <3>3, EmitType DEF RemoveSettings, DeleteSettings
        <4> QED
          BY <3>3, <4>1 DEF RemoveSettings, DeleteSettings
      <3>4. CASE RemoveFails(a)
        BY <3>4 DEF RemoveFails
      <3>5. CASE NotifyAgent(a)
        BY <3>5 DEF NotifyAgent
      <3> QED
        BY <2>13, <3>1, <3>2, <3>3, <3>4, <3>5 DEF Remove
    <2>14. ASSUME NEW a \in Agents, NEW l \in Leases, LeaseExpires(a, l)
           PROVE  TypeOK'
      <3>1. queue' \in Seq(Event)
        BY <2>14, EmitType DEF LeaseExpires, DeleteState
      <3>2. state' \in [Agents -> State \cup {None}]
        BY <2>14 DEF LeaseExpires, DeleteState
      <3>3. spent' \in [Kinds -> Nat]
        BY <2>14 DEF LeaseExpires, Spend, Kinds
      <3> QED
        BY ZenonT(60), <2>14, <3>1, <3>2, <3>3 DEF LeaseExpires, DeleteState
    <2>15. CASE UNCHANGED vars
      BY <2>15 DEF vars
    <2> QED
      BY <2>1, <2>2, <2>3, <2>4, <2>5, <2>6, <2>7, <2>8, <2>9, <2>10, <2>11,
         <2>12, <2>13, <2>14, <2>15 DEF Next, Watch
  <1> QED
    BY <1>1, <1>2, PTL DEF Spec

-----------------------------------------------------------------------------
(* Handlers, watcher and queue belong to a serving API server *)

LEMMA ServerCorrect == Spec => []ServerInv
  <1>1. Init => ServerInv
    BY DEF Init, ServerInv, Idle, NoReport
  <1>2. TypeOK /\ TypeOK' /\ ServerInv /\ [Next]_vars => ServerInv'
    <2> SUFFICES ASSUME TypeOK, ServerInv, [Next]_vars, server' # "watching"
                 PROVE  ServerInv'
      BY DEF ServerInv
    <2>1. CASE Snapshot
      BY <2>1 DEF Snapshot, ServerInv
    <2>2. CASE StartWatch
      BY <2>2 DEF StartWatch
    <2>3. CASE Crash
      BY <2>3 DEF Crash, ServerInv, TypeOK, Idle, NoReport
    <2>4. CASE Watch
      BY <2>4 DEF Watch, WatchTake, WatchReadSettings, WatchReadState,
                  WatchApply, ServerInv
    <2>5. CASE WatchReadFails
      BY <2>5 DEF WatchReadFails, ServerInv
    <2>6. ASSUME NEW a \in Agents, Register(a) \/ RegisterFails(a)
          PROVE  ServerInv'
      BY <2>6 DEF Register, RegisterCheck, RegisterSaveSettings,
                  RegisterSaveState, RegisterFails, ServerInv
    <2>7. ASSUME NEW a \in Agents, Report(a)
          PROVE  ServerInv'
      BY <2>7 DEF Report, ReportBegin, ReportLookup, ReportRenew, ReportGrant, ServerInv
    <2>8. ASSUME NEW a \in Agents, Query(a)
          PROVE  ServerInv'
      BY <2>8 DEF Query, QueryBegin, QuerySave, QuerySaveFails, ServerInv
    <2>9. ASSUME NEW a \in Agents, Remove(a)
          PROVE  ServerInv'
      BY <2>9 DEF Remove, RemoveAsked, RemoveState, RemoveSettings,
                  RemoveFails, NotifyAgent, ServerInv
    <2>10. ASSUME NEW a \in Agents, NEW l \in Leases, LeaseExpires(a, l)
           PROVE  ServerInv'
      BY <2>10 DEF LeaseExpires, ServerInv
    <2>11. CASE UNCHANGED vars
      BY <2>11 DEF vars, ServerInv
    <2> QED
      BY <2>1, <2>2, <2>3, <2>4, <2>5, <2>6, <2>7, <2>8, <2>9, <2>10, <2>11
         DEF Next
  <1> QED
    BY <1>1, <1>2, TypeCorrect, PTL DEF Spec

-----------------------------------------------------------------------------
(* The queue *)

\* Emitting makes the agent pending and leaves the others as they are.
LEMMA EmitPending ==
    ASSUME TypeOK, NEW a \in Agents, NEW k, NEW t, Emit(a, k, t)
    PROVE  /\ Len(queue') = Len(queue) + 1
           /\ queue'[Len(queue) + 1] = [agent |-> a, key |-> k, type |-> t]
           /\ \A i \in 1..Len(queue) : queue'[i] = queue[i]
           /\ Pending(a)'
           /\ \A b \in Agents : Pending(b) => Pending(b)'
  BY DEF Emit, Pending, TypeOK

\* Taking the head leaves the rest pending.
LEMMA TakePending ==
    ASSUME TypeOK, queue # <<>>, queue' = Tail(queue)
    PROVE  /\ Head(queue) = queue[1] /\ Head(queue) \in Event
           /\ Len(queue) \in Nat /\ Len(queue) >= 1
           /\ Len(queue') = Len(queue) - 1
           /\ \A i \in 1..Len(queue') : queue'[i] = queue[i + 1]
           /\ \A b \in Agents : Pending(b) /\ Head(queue).agent # b => Pending(b)'
  <1>1. /\ Head(queue) = queue[1] /\ Head(queue) \in Event
        /\ Len(queue) \in Nat /\ Len(queue) >= 1
        /\ Len(queue') = Len(queue) - 1
        /\ \A i \in 1..Len(queue') : queue'[i] = queue[i + 1]
    BY DEF TypeOK
  <1>2. ASSUME NEW b \in Agents, Pending(b), Head(queue).agent # b
        PROVE  Pending(b)'
    <2>1. PICK i \in 1..Len(queue) : queue[i].agent = b
      BY <1>2 DEF Pending
    <2>2. i # 1
      BY <2>1, <1>1, <1>2
    <2>3. i - 1 \in 1..Len(queue') /\ queue'[i - 1] = queue[i]
      BY <2>1, <2>2, <1>1
    <2> QED
      BY <2>1, <2>3 DEF Pending
  <1> QED
    BY <1>1, <1>2

-----------------------------------------------------------------------------
(* Steps grouped by what they do to the store, the queue and the cache *)

\* A write of one key, announced by an event.
Write(a, k, t) ==
    /\ Emit(a, k, t)
    /\ \A b \in Agents \ {a} : settings'[b] = settings[b] /\ state'[b] = state[b]
    /\ k = "settings" => state' = state
    /\ k = "state" => settings' = settings
    /\ t = "delete" => Absent(k, a)'
    /\ UNCHANGED <<server, cache, watcher, missed>>

\* A step of agents and handlers that touches none of it.
Aside == UNCHANGED <<settings, state, queue, server, cache, watcher, missed>>

\* Every step of a handler or of a lease is a write, touches nothing the
\* mirror depends on, or is a phase change or an unobserved expiry.
LEMMA RegisterKind ==
    ASSUME TypeOK, NEW a \in Agents, Register(a) \/ RegisterFails(a)
    PROVE  Aside \/ \E k \in {"settings", "state"} : Write(a, k, "put")
  <1>1. ASSUME NEW rs, RegisterCheck(a, rs) PROVE Aside
    BY <1>1 DEF RegisterCheck, Aside
  <1>2. ASSUME RegisterSaveSettings(a) PROVE Write(a, "settings", "put")
    BY <1>2 DEF RegisterSaveSettings, PutSettings, Write, TypeOK
  <1>3. ASSUME NEW l \in Leases, RegisterSaveState(a, l)
        PROVE  Write(a, "state", "put")
    BY <1>3 DEF RegisterSaveState, PutState, Write, TypeOK
  <1>4. ASSUME RegisterFails(a) PROVE Aside
    BY <1>4 DEF RegisterFails, Aside
  <1> QED
    BY <1>1, <1>2, <1>3, <1>4 DEF Register

LEMMA ReportKind ==
    ASSUME TypeOK, NEW a \in Agents, Report(a)
    PROVE  Aside \/ Write(a, "state", "put")
  <1>1. ASSUME ReportBegin(a) \/ ReportLookup(a) PROVE Aside
    BY <1>1 DEF ReportBegin, ReportLookup, Aside
  <1>2. ASSUME NEW f, ReportRenew(a, f)
        PROVE  Aside \/ Write(a, "state", "put")
    BY <1>2 DEF ReportRenew, PutState, Write, Aside, TypeOK
  <1>3. ASSUME NEW f, NEW l \in Leases, ReportGrant(a, f, l)
        PROVE  Write(a, "state", "put")
    BY <1>3 DEF ReportGrant, PutState, Write, TypeOK
  <1> QED
    BY <1>1, <1>2, <1>3 DEF Report

LEMMA QueryKind ==
    ASSUME TypeOK, NEW a \in Agents, Query(a)
    PROVE  \/ Aside \/ Write(a, "settings", "put")
           \/ \E p \in Outcomes : QueryBegin(a, p)
  <1>1. ASSUME QuerySave(a) PROVE Write(a, "settings", "put")
    BY <1>1 DEF QuerySave, PutSettings, Write, TypeOK
  <1>2. ASSUME QuerySaveFails(a) PROVE Aside
    BY <1>2 DEF QuerySaveFails, Aside
  <1> QED
    BY <1>1, <1>2 DEF Query

LEMMA RemoveKind ==
    ASSUME TypeOK, NEW a \in Agents, Remove(a)
    PROVE  Aside \/ \E k \in {"settings", "state"} : Write(a, k, "delete")
  <1>1. ASSUME RemoveState(a)
        PROVE  Aside \/ Write(a, "state", "delete")
    <2>1. CASE state[a] = None
      <3>1. state' = state
        BY <1>1, <2>1 DEF RemoveState, DeleteState, TypeOK
      <3> QED
        BY <1>1, <2>1, <3>1 DEF RemoveState, DeleteState, Aside
    <2>2. CASE state[a] # None
      BY <1>1, <2>2 DEF RemoveState, DeleteState, Write, Absent, TypeOK
    <2> QED
      BY <2>1, <2>2
  <1>2. ASSUME RemoveSettings(a)
        PROVE  Aside \/ Write(a, "settings", "delete")
    <2>1. CASE settings[a] = None
      <3>1. settings' = settings
        BY <1>2, <2>1 DEF RemoveSettings, DeleteSettings, TypeOK
      <3> QED
        BY <1>2, <2>1, <3>1 DEF RemoveSettings, DeleteSettings, Aside
    <2>2. CASE settings[a] # None
      BY <1>2, <2>2 DEF RemoveSettings, DeleteSettings, Write, Absent, TypeOK
    <2> QED
      BY <2>1, <2>2
  <1>3. ASSUME RemoveAsked(a) \/ RemoveFails(a) \/ NotifyAgent(a) PROVE Aside
    BY <1>3 DEF RemoveAsked, RemoveFails, NotifyAgent, Aside
  <1> QED
    BY <1>1, <1>2, <1>3 DEF Remove

\* The state key goes with its lease: announced, unannounced, or not at all.
Unannounced(a) ==
    /\ server # "watching"
    /\ state' = [state EXCEPT ![a] = None]
    /\ missed' = [missed EXCEPT ![a] = @ \/ server = "synced"]
    /\ UNCHANGED <<settings, queue, server, cache, watcher>>

LEMMA ExpiryKind ==
    ASSUME TypeOK, NEW a \in Agents, NEW l \in Leases, LeaseExpires(a, l)
    PROVE  Aside \/ Write(a, "state", "delete") \/ Unannounced(a)
  <1>1. CASE state[a] # None /\ state[a].lease = l /\ server = "watching"
    BY <1>1 DEF LeaseExpires, DeleteState, Write, Absent, TypeOK
  <1>2. CASE state[a] # None /\ state[a].lease = l /\ server # "watching"
    BY <1>2 DEF LeaseExpires, Unannounced
  <1>3. CASE ~(state[a] # None /\ state[a].lease = l)
    BY <1>3 DEF LeaseExpires, Aside
  <1> QED
    BY <1>1, <1>2, <1>3

\* An announced write keeps the invariant: its agent becomes pending.
LEMMA WriteKeepsMirror ==
    ASSUME TypeOK, MirrorInv, NEW a \in Agents, NEW k \in {"settings", "state"},
           NEW t \in {"put", "delete"}, Write(a, k, t)
    PROVE  MirrorInv'
  <1> USE DEF MirrorInv
  <1>1. /\ Len(queue) \in Nat /\ Len(queue') = Len(queue) + 1
        /\ queue'[Len(queue) + 1] = [agent |-> a, key |-> k, type |-> t]
        /\ \A i \in 1..Len(queue) : queue'[i] = queue[i]
        /\ Pending(a)'
        /\ \A b \in Agents : Pending(b) => Pending(b)'
    BY EmitPending DEF Write, TypeOK
  <1>2. Placed'
    BY DEF Placed, Write
  <1>3. DeletesQueued'
    <2> SUFFICES ASSUME NEW i \in 1..Len(queue'),
                        queue'[i].type = "delete",
                        \A j \in (i + 1)..Len(queue') :
                            queue'[j].agent # queue'[i].agent
                 PROVE  Absent(queue[i].key, queue[i].agent)'
      BY DEF DeletesQueued
    <2>1. CASE i = Len(queue) + 1
      BY <2>1, <1>1 DEF Write
    <2>2. CASE i # Len(queue) + 1
      <3>1. i \in 1..Len(queue)
        BY <2>2, <1>1
      <3>2. queue[i].agent # a
        <4>1. Len(queue) + 1 \in (i + 1)..Len(queue')
          BY <3>1, <1>1
        <4> QED
          BY <4>1, <3>1, <1>1
      <3>3. \A j \in (i + 1)..Len(queue) : queue[j].agent # queue[i].agent
        BY <3>1, <1>1
      <3>4. Absent(queue[i].key, queue[i].agent)
        BY <3>1, <3>3, <1>1 DEF DeletesQueued
      <3>5. queue[i].agent \in Agents
        <4>1. queue[i] \in Event
          BY <3>1 DEF TypeOK
        <4> QED
          BY <4>1 DEF Event
      <3> QED
        BY <3>1, <3>2, <3>4, <3>5, <1>1 DEF Write, Absent
    <2> QED
      BY <2>1, <2>2
  <1>4. DeleteHandled'
    BY <1>1 DEF DeleteHandled, Handling, Write, Absent
  <1>5. FetchFresh'
    BY <1>1 DEF FetchFresh, Handling, Write
  <1>6. MirrorFresh'
    BY <1>1 DEF MirrorFresh, Handling, Write, Mirrored
  <1> QED
    BY <1>2, <1>3, <1>4, <1>5, <1>6

\* A step that touches none of it keeps the invariant.
LEMMA AsideKeepsMirror ==
    ASSUME MirrorInv, Aside
    PROVE  MirrorInv'
  BY DEF MirrorInv, Aside, Placed, DeletesQueued, DeleteHandled, FetchFresh,
         MirrorFresh, Handling, Pending, Absent, Mirrored

\* An expiry nobody is told of happens while nothing is watched, and counts as
\* missed once the snapshot is taken.
LEMMA UnannouncedKeepsMirror ==
    ASSUME TypeOK, ServerInv, MirrorInv, NEW a \in Agents, Unannounced(a)
    PROVE  MirrorInv'
  <1>1. queue' = <<>> /\ watcher'.pc = "idle"
    BY DEF Unannounced, ServerInv
  <1>2. Placed'
    BY DEF MirrorInv, Placed, Unannounced
  <1>3. DeletesQueued' /\ DeleteHandled' /\ FetchFresh'
    BY <1>1 DEF DeletesQueued, DeleteHandled, FetchFresh, Handling
  <1>4. MirrorFresh'
    <2> SUFFICES ASSUME NEW b \in Agents, server' # "down", ~missed'[b]
                 PROVE  Mirrored(b)'
      BY DEF MirrorFresh
    <2>1. b # a /\ ~missed[b]
      BY ZenonT(60) DEF Unannounced, TypeOK
    <2>2. Mirrored(b)
      BY <2>1 DEF MirrorInv, MirrorFresh, Unannounced, ServerInv, Handling, Pending
    <2> QED
      BY <2>1, <2>2 DEF Mirrored, Unannounced, TypeOK
  <1> QED
    BY <1>2, <1>3, <1>4 DEF MirrorInv

\* A phase change moves no entry and touches neither roles nor flags.
LEMMA QueryKeepsMirror ==
    ASSUME TypeOK, MirrorInv, NEW a \in Agents, NEW p \in Outcomes, QueryBegin(a, p)
    PROVE  MirrorInv'
  <1>1. \A m \in Maps, b \in Agents :
           /\ cache'[m][b] = None <=> cache[m][b] = None
           /\ cache[m][b] # None => /\ cache'[m][b].roles = cache[m][b].roles
                                    /\ cache'[m][b].flags = cache[m][b].flags
    <2> SUFFICES ASSUME NEW m \in Maps, NEW b \in Agents
                 PROVE  /\ cache'[m][b] = None <=> cache[m][b] = None
                        /\ cache[m][b] # None =>
                              /\ cache'[m][b].roles = cache[m][b].roles
                              /\ cache'[m][b].flags = cache[m][b].flags
      OBVIOUS
    <2> DEFINE o == GetCachedAgent(a)
               q == [roles |-> cache[m][a].roles, phase |-> p,
                     flags |-> cache[m][a].flags]
    <2>1. cache'[m] = IF cache[m][a] # None /\ cache[m][a].roles = o.roles
                      THEN [cache[m] EXCEPT ![a] = q] ELSE cache[m]
      BY DEF QueryBegin, SetPhase
    <2>2. CASE cache[m][a] # None /\ cache[m][a].roles = o.roles /\ b = a
      <3>1. cache[m][a] \in Object
        BY <2>2 DEF TypeOK
      <3>2. q \in Object
        BY <3>1 DEF Object, Phases
      <3>3. cache'[m][b] = q
        BY <2>1, <2>2 DEF TypeOK
      <3> QED
        BY <2>2, <3>1, <3>2, <3>3
    <2>3. CASE ~(cache[m][a] # None /\ cache[m][a].roles = o.roles /\ b = a)
      BY <2>1, <2>3 DEF TypeOK
    <2> QED
      BY <2>2, <2>3
  <1>2. UNCHANGED <<settings, state, queue, server, watcher, missed>>
    BY DEF QueryBegin
  <1>3. Placed'
    BY <1>1 DEF MirrorInv, Placed
  <1>4. DeletesQueued' /\ DeleteHandled' /\ FetchFresh'
    BY <1>2 DEF MirrorInv, DeletesQueued, DeleteHandled, FetchFresh, Handling,
                Pending, Absent
  <1>5. MirrorFresh'
    <2> SUFFICES ASSUME NEW b \in Agents, Mirrored(b) PROVE Mirrored(b)'
      BY <1>2 DEF MirrorInv, MirrorFresh, Pending, Handling
    <2> QED
      BY <1>1, <1>2 DEF Mirrored
  <1> QED
    BY <1>3, <1>4, <1>5 DEF MirrorInv

\* The snapshot is the mirror; starting the watch changes nothing; a crash
\* empties everything.
LEMMA StartKeepsMirror ==
    ASSUME TypeOK, ServerInv, MirrorInv, Snapshot \/ StartWatch \/ Crash
    PROVE  MirrorInv'
  <1>1. CASE Snapshot
    <2>1. queue' = <<>> /\ watcher'.pc = "idle"
      BY <1>1 DEF Snapshot, ServerInv
    <2>2. Placed'
      BY <1>1 DEF Snapshot, Placed
    <2>3. DeletesQueued' /\ DeleteHandled' /\ FetchFresh'
      BY <2>1 DEF DeletesQueued, DeleteHandled, FetchFresh, Handling
    <2>4. \A a \in Agents : Mirrored(a)'
      <3> SUFFICES ASSUME NEW a \in Agents, NEW m \in Maps
                   PROVE (IF settings[a] # None /\ state[a] # None
                             /\ m \in MapsOf(settings[a].roles)
                          THEN /\ cache[m][a] # None
                               /\ cache[m][a].roles = settings[a].roles
                               /\ cache[m][a].flags = state[a].flags
                          ELSE cache[m][a] = None)'
        BY DEF Mirrored
      <3> DEFINE o == [roles |-> settings[a].roles, phase |-> settings[a].phase,
                       flags |-> state[a].flags]
      <3>1. settings[a] # None /\ state[a] # None => o \in Object
        BY DEF TypeOK, Settings, State, Object
      <3>2. o \in Object => o # None
        OBVIOUS
      <3> QED
        BY <1>1, <3>1, <3>2 DEF Snapshot
    <2> QED
      BY <2>2, <2>3, <2>4 DEF MirrorInv, MirrorFresh
  <1>2. CASE StartWatch
    BY <1>2 DEF StartWatch, MirrorInv, Placed, DeletesQueued, DeleteHandled,
                FetchFresh, MirrorFresh, Handling, Pending, Absent, Mirrored
  <1>3. CASE Crash
    <2>1. queue' = <<>> /\ watcher'.pc = "idle" /\ server' = "down"
      BY <1>3 DEF Crash, Idle
    <2>2. Placed'
      BY <1>3 DEF Crash, Placed, EmptyCache
    <2> QED
      BY <2>1, <2>2 DEF MirrorInv, DeletesQueued, DeleteHandled, FetchFresh,
                        MirrorFresh, Handling
  <1> QED
    BY <1>1, <1>2, <1>3

LEMMA TakeKeepsMirror ==
    ASSUME TypeOK, MirrorInv, WatchTake
    PROVE  MirrorInv'
  <1> DEFINE e == Head(queue)
  <1>1. /\ e = queue[1] /\ e \in Event /\ e.agent \in Agents
        /\ Len(queue) \in Nat /\ Len(queue) >= 1
        /\ Len(queue') = Len(queue) - 1
        /\ \A i \in 1..Len(queue') : queue'[i] = queue[i + 1]
        /\ \A b \in Agents : Pending(b) /\ e.agent # b => Pending(b)'
    BY TakePending DEF WatchTake, Event
  <1>2. /\ watcher'.pc = "settings" /\ watcher'.ev = e
        /\ UNCHANGED <<settings, state, server, cache, missed>>
        /\ watcher.pc = "idle"
    BY DEF WatchTake, Idle
  <1>3. Placed'
    BY <1>2 DEF MirrorInv, Placed
  <1>4. DeletesQueued'
    <2> SUFFICES ASSUME NEW i \in 1..Len(queue'),
                        queue'[i].type = "delete",
                        \A j \in (i + 1)..Len(queue') :
                            queue'[j].agent # queue'[i].agent
                 PROVE  Absent(queue[i].key, queue[i].agent)'
      BY DEF DeletesQueued
    <2>1. i + 1 \in 1..Len(queue) /\ queue'[i] = queue[i + 1]
      BY <1>1
    <2>2. ASSUME NEW j \in (i + 2)..Len(queue)
          PROVE  queue[j].agent # queue[i + 1].agent
      <3>1. /\ j - 1 \in (i + 1)..Len(queue') /\ j - 1 \in 1..Len(queue')
            /\ (j - 1) + 1 = j
        BY <1>1
      <3>2. queue'[j - 1] = queue[j]
        BY <3>1, <1>1
      <3> QED
        BY <3>1, <3>2, <2>1
    <2>3. Absent(queue[i + 1].key, queue[i + 1].agent)
      BY <2>1, <2>2 DEF MirrorInv, DeletesQueued
    <2> QED
      BY <2>1, <2>3, <1>2 DEF Absent
  <1>5. DeleteHandled'
    <2> SUFFICES ASSUME NEW b \in Agents, b = e.agent, e.type = "delete",
                        ~Pending(b)'
                 PROVE  Absent(e.key, b)
      BY <1>2 DEF DeleteHandled, Handling, Absent
    <2>1. ASSUME NEW j \in 2..Len(queue)
          PROVE  queue[j].agent # e.agent
      <3>1. j - 1 \in 1..Len(queue') /\ (j - 1) + 1 = j
        BY <1>1
      <3>2. queue'[j - 1].agent # b
        BY <3>1 DEF Pending
      <3> QED
        BY <3>1, <3>2, <1>1
    <2>2. 1 \in 1..Len(queue) /\ 1 + 1 = 2
      BY <1>1
    <2> QED
      BY <1>1, <2>1, <2>2 DEF MirrorInv, DeletesQueued
  <1>6. FetchFresh'
    BY <1>2 DEF FetchFresh
  <1>7. MirrorFresh'
    BY <1>1, <1>2 DEF MirrorInv, MirrorFresh, Handling, Mirrored
  <1> QED
    BY <1>3, <1>4, <1>5, <1>6, <1>7 DEF MirrorInv

\* The reads: an agent skipped although cached counts as missed, otherwise the
\* value read is the current one.
LEMMA ReadKeepsMirror ==
    ASSUME TypeOK, MirrorInv,
           WatchReadSettings \/ WatchReadState \/ WatchReadFails
    PROVE  MirrorInv'
  <1> DEFINE a == watcher.ev.agent
  <1>1. a \in Agents /\ watcher.pc # "idle"
    BY DEF TypeOK, Event, WatchReadSettings, WatchReadState, WatchReadFails
  <1>0. watcher \in [pc : {"idle", "settings", "state", "apply"},
                     ev : Event \cup {None}, settings : Settings \cup {None},
                     flags : Flags \cup {None}]
    BY DEF TypeOK
  <1>2. UNCHANGED <<settings, state, queue, server, cache>>
    BY DEF WatchReadSettings, WatchReadState, WatchReadFails
  <1>3. Placed' /\ DeletesQueued'
    BY <1>2 DEF MirrorInv, Placed, DeletesQueued, Absent
  <1>4. CASE WatchReadSettings /\ settings[a] = None
    <2>1. watcher'.pc = "idle" /\ watcher.pc = "settings"
      BY <1>4 DEF WatchReadSettings, Idle
    <2>2. DeleteHandled' /\ FetchFresh'
      BY <2>1 DEF DeleteHandled, FetchFresh, Handling
    <2>3. MirrorFresh'
      <3> SUFFICES ASSUME NEW b \in Agents, server # "down", ~Pending(b),
                          ~missed'[b]
                   PROVE  Mirrored(b)
        BY <1>2 DEF MirrorFresh, Mirrored, Pending
      <3>1. CASE b = a
        <4>1. ~IsCached(b)
          <5>1. missed' = [missed EXCEPT ![a] = @ \/ IsCached(a)]
            BY <1>4 DEF WatchReadSettings
          <5>2. missed'[a] = (missed[a] \/ IsCached(a))
            BY <5>1, <1>1 DEF TypeOK
          <5> QED
            BY <5>2, <3>1
        <4> QED
          BY <4>1, <3>1, <1>4 DEF IsCached, Mirrored
      <3>2. CASE b # a
        <4>1. ~missed[b]
          BY <1>1, <1>4, <3>2 DEF WatchReadSettings, TypeOK
        <4> QED
          BY <4>1, <3>2 DEF MirrorInv, MirrorFresh, Handling
      <3> QED
        BY <3>1, <3>2
    <2> QED
      BY <1>3, <2>2, <2>3 DEF MirrorInv
  <1>5. CASE \/ WatchReadSettings /\ settings[a] # None
             \/ WatchReadState
    <2>1. /\ watcher'.pc # "idle" /\ watcher'.ev = watcher.ev
          /\ missed' = missed
      <3>1. CASE WatchReadSettings /\ settings[a] # None
        <4>1. /\ watcher' = [watcher EXCEPT !.pc = "state", !.settings = settings[a]]
              /\ missed' = missed
          BY <3>1 DEF WatchReadSettings
        <4> QED
          BY <4>1, <1>0
      <3>2. CASE WatchReadState
        <4>1. /\ watcher' = [watcher EXCEPT !.pc = "apply", !.flags =
                               IF state[a] = None THEN None ELSE state[a].flags]
              /\ missed' = missed
          BY <3>2 DEF WatchReadState
        <4> QED
          BY <4>1, <1>0
      <3> QED
        BY <1>5, <3>1, <3>2
    <2>2. DeleteHandled' /\ MirrorFresh'
      BY <1>1, <1>2, <2>1 DEF MirrorInv, DeleteHandled, MirrorFresh, Handling,
                              Pending, Absent, Mirrored
    <2>3. FetchFresh'
      <3>1. CASE WatchReadSettings /\ settings[a] # None
        <4>1. watcher' = [watcher EXCEPT !.pc = "state", !.settings = settings[a]]
          BY <3>1 DEF WatchReadSettings
        <4>2. watcher'.pc = "state" /\ watcher'.settings = settings[a]
          BY <4>1, <1>0
        <4> QED
          BY <4>2, <2>1, <1>2 DEF FetchFresh, Handling
      <3>2. CASE WatchReadState
        <4>1. /\ watcher.pc = "state" /\ watcher'.settings = watcher.settings
              /\ watcher'.flags = IF state[a] = None THEN None ELSE state[a].flags
          BY <3>2 DEF WatchReadState, TypeOK
        <4>2. ~Pending(a) => watcher.settings = settings[a]
          BY <4>1, <1>1 DEF MirrorInv, FetchFresh, Handling
        <4> QED
          BY <4>1, <4>2, <2>1, <1>2 DEF FetchFresh, Handling, Pending
      <3> QED
        BY <1>5, <3>1, <3>2
    <2> QED
      BY <1>3, <2>2, <2>3 DEF MirrorInv
  <1>6. CASE WatchReadFails
    <2>1. watcher'.pc = "idle" /\ missed'[a]
      BY <1>1, <1>6 DEF WatchReadFails, Idle, TypeOK
    <2>2. DeleteHandled' /\ FetchFresh'
      BY <2>1 DEF DeleteHandled, FetchFresh, Handling
    <2>3. \A b \in Agents : b # a => missed'[b] = missed[b]
      BY <1>6, <1>1 DEF WatchReadFails, TypeOK
    <2>4. MirrorFresh'
      BY <1>1, <1>2, <2>1, <2>3 DEF MirrorInv, MirrorFresh, Handling, Mirrored,
                                    Pending
    <2> QED
      BY <1>3, <2>2, <2>4 DEF MirrorInv
  <1> QED
    BY <1>4, <1>5, <1>6

\* Applying what was read: unless another event is to come or an entry of
\* other roles is left, the cache now shows the agent as ETCD does.
LEMMA ApplyKeepsMirror ==
    ASSUME TypeOK, MirrorInv, WatchApply
    PROVE  MirrorInv'
  <1> DEFINE a == watcher.ev.agent
             set == watcher.settings
             new == [roles |-> set.roles, phase |-> set.phase,
                     flags |-> watcher.flags]
             off == watcher.ev.type = "delete" \/ watcher.flags = None
  <1>1. /\ a \in Agents /\ watcher.ev \in Event /\ set \in Settings
        /\ watcher.pc = "apply" /\ watcher'.pc = "idle"
        /\ UNCHANGED <<settings, state, queue, server>>
    BY DEF TypeOK, Event, WatchApply, Idle
  <1>2. /\ \A m \in Maps, b \in Agents \ {a} : cache'[m][b] = cache[m][b]
        /\ \A m \in Maps :
              cache'[m][a] = IF m \in MapsOf(set.roles)
                             THEN IF off THEN None ELSE new
                             ELSE cache[m][a]
    BY <1>1 DEF WatchApply, OnAgentChanged, Online, Offline, TypeOK
  <1>3. /\ missed'[a] <=> \E m \in Maps : /\ cache[m][a] # None
                                          /\ cache[m][a].roles # set.roles
        /\ \A b \in Agents \ {a} : missed'[b] = missed[b]
    BY ZenonT(60), <1>1 DEF WatchApply, TypeOK
  <1>4. Placed'
    BY <1>1, <1>2 DEF MirrorInv, Placed
  <1>5. DeletesQueued' /\ DeleteHandled' /\ FetchFresh'
    BY <1>1 DEF MirrorInv, DeletesQueued, DeleteHandled, FetchFresh, Handling,
                Absent
  <1>6. MirrorFresh'
    <2> SUFFICES ASSUME NEW b \in Agents, server # "down", ~Pending(b),
                        ~missed'[b]
                 PROVE  Mirrored(b)'
      BY <1>1 DEF MirrorFresh, Pending
    <2>1. CASE b # a
      <3>1. Mirrored(b)
        BY <2>1, <1>3 DEF MirrorInv, MirrorFresh, Handling
      <3> QED
        BY <3>1, <2>1, <1>1, <1>2 DEF Mirrored
    <2>2. CASE b = a
      <3>1. /\ set = settings[a] /\ set # None
            /\ watcher.flags = IF state[a] = None THEN None ELSE state[a].flags
        BY <2>2, <1>1 DEF MirrorInv, FetchFresh, Handling, TypeOK
      <3>2. \A m \in Maps : m \notin MapsOf(set.roles) => cache[m][a] = None
        BY <2>2, <1>3 DEF MirrorInv, Placed
      <3>3. CASE off
        <4>1. state[a] = None
          <5>1. CASE watcher.ev.type = "delete"
            BY <5>1, <2>2, <1>1, <3>1 DEF MirrorInv, DeleteHandled, Handling, Absent
          <5>2. CASE watcher.flags = None
            <6>1. state[a] \in State \cup {None}
              BY <1>1 DEF TypeOK
            <6> QED
              BY <5>2, <6>1, <3>1, NoneAssumption DEF State
          <5> QED
            BY <3>3, <5>1, <5>2
        <4> QED
          BY <2>2, <3>2, <3>3, <4>1, <1>1, <1>2 DEF Mirrored
      <3>4. CASE ~off
        <4>1. state[a] # None /\ watcher.flags = state[a].flags
          BY <3>1, <3>4
        <4>2. new \in Object /\ new # None
          <5>1. state[a].flags \in Flags
            BY <4>1, <1>1 DEF TypeOK, State
          <5> QED
            BY <5>1, <4>1, <1>1 DEF Settings, Object
        <4>3. /\ settings' = settings /\ state' = state
              /\ new.roles = settings[a].roles /\ new.flags = state[a].flags
              /\ settings[a] # None /\ state[a] # None
          BY <3>1, <4>1, <1>1
        <4>4. ASSUME NEW m \in Maps
              PROVE  cache'[m][a] = IF m \in MapsOf(settings[a].roles) THEN new
                                    ELSE None
          BY <3>1, <3>2, <3>4, <1>2
        <4> HIDE DEF new
        <4> QED
          BY <2>2, <4>2, <4>3, <4>4 DEF Mirrored
      <3> QED
        BY <3>3, <3>4
    <2> QED
      BY <2>1, <2>2
  <1> QED
    BY <1>4, <1>5, <1>6 DEF MirrorInv

-----------------------------------------------------------------------------
(* The theorem *)

LEMMA MirrorCorrect == Spec => []MirrorInv
  <1>1. Init => MirrorInv
    BY DEF Init, MirrorInv, Placed, DeletesQueued, DeleteHandled, FetchFresh,
           MirrorFresh, Handling, EmptyCache, Idle
  <1>2. TypeOK /\ ServerInv /\ MirrorInv /\ [Next]_vars => MirrorInv'
    <2> SUFFICES ASSUME TypeOK, ServerInv, MirrorInv, [Next]_vars
                 PROVE  MirrorInv'
      OBVIOUS
    <2>1. CASE Snapshot \/ StartWatch \/ Crash
      BY <2>1, StartKeepsMirror
    <2>2. CASE Watch \/ WatchReadFails
      BY <2>2, TakeKeepsMirror, ReadKeepsMirror, ApplyKeepsMirror DEF Watch
    <2>3. ASSUME NEW a \in Agents, Register(a) \/ RegisterFails(a)
          PROVE  MirrorInv'
      BY <2>3, RegisterKind, AsideKeepsMirror, WriteKeepsMirror
    <2>4. ASSUME NEW a \in Agents, Report(a)
          PROVE  MirrorInv'
      BY <2>4, ReportKind, AsideKeepsMirror, WriteKeepsMirror
    <2>5. ASSUME NEW a \in Agents, Query(a)
          PROVE  MirrorInv'
      BY <2>5, QueryKind, AsideKeepsMirror, WriteKeepsMirror, QueryKeepsMirror
    <2>6. ASSUME NEW a \in Agents, Remove(a)
          PROVE  MirrorInv'
      BY <2>6, RemoveKind, AsideKeepsMirror, WriteKeepsMirror
    <2>7. ASSUME NEW a \in Agents, NEW l \in Leases, LeaseExpires(a, l)
          PROVE  MirrorInv'
      BY <2>7, ExpiryKind, AsideKeepsMirror, WriteKeepsMirror,
         UnannouncedKeepsMirror
    <2>8. CASE UNCHANGED vars
      BY <2>8, AsideKeepsMirror DEF vars, Aside
    <2> QED
      BY <2>1, <2>2, <2>3, <2>4, <2>5, <2>6, <2>7, <2>8 DEF Next
  <1> QED
    BY <1>1, <1>2, TypeCorrect, ServerCorrect, PTL DEF Spec

\* watchChanges and doRegister keep the hot cache an exact mirror of ETCD for
\* every agent none of whose events was lost, whenever nothing about it is on
\* its way - for any number of agents, leases, faults and any queue length.
THEOREM CacheIsMirror == Spec => []CacheMirrorsEtcd
  <1>1. MirrorInv => CacheMirrorsEtcd
    BY DEF MirrorInv, MirrorFresh, CacheMirrorsEtcd, Quiet, Handling
  <1> QED
    BY <1>1, MirrorCorrect, PTL

-----------------------------------------------------------------------------
(* A state key without settings exists only after a removal *)

\* Who has no settings, as long as nobody was removed.
Unknown(a) ==
    /\ state[a] = None /\ ~IsCached(a)
    /\ reg[a] # "saved"
    /\ report[a].mode \in {"none", "lookup"}
    /\ ~(Handling(a) /\ watcher.pc \in {"state", "apply"})

\* Only a removal takes settings away, and without its budget it never begins.
LEMMA SettingsStay ==
    ASSUME TypeOK, Settled, [Next]_vars, spent'["removal"] = 0
    PROVE  /\ spent["removal"] = 0
           /\ \A a \in Agents :
                 /\ removal'[a] = "none"
                 /\ settings'[a] = None => settings[a] = None
<1> USE DEF TypeOK, Kinds
<1>1. spent["removal"] \in Nat
  OBVIOUS
<1>2. ASSUME NEW k \in Kinds, Spend(k)
      PROVE  /\ k # "removal"
             /\ spent["removal"] = 0
  BY <1>2 DEF Spend
<1>3. CASE Snapshot \/ StartWatch \/ Watch
  BY <1>3 DEF Snapshot, StartWatch, Watch, WatchTake, WatchReadSettings,
              WatchReadState, WatchApply, Settled
<1>4. CASE Crash \/ WatchReadFails
  BY <1>2, <1>4 DEF Crash, WatchReadFails, Settled
<1>5. ASSUME NEW a \in Agents, Register(a) \/ RegisterFails(a) \/ Report(a)
      PROVE  /\ spent["removal"] = 0
             /\ \A b \in Agents :
                   /\ removal'[b] = "none"
                   /\ settings'[b] = None => settings[b] = None
  <2>1. [roles |-> want[a], phase |-> 0] # None
    BY NoneAssumption DEF Settings, Phases
  <2>2. QED
    BY <1>5, <2>1
    DEF Register, RegisterCheck, RegisterSaveSettings, RegisterSaveState,
        RegisterFails, Report, ReportBegin, ReportLookup, ReportRenew,
        ReportGrant, PutSettings, Settled
<1>6. ASSUME NEW a \in Agents, Query(a)
      PROVE  /\ spent["removal"] = 0
             /\ \A b \in Agents :
                   /\ removal'[b] = "none"
                   /\ settings'[b] = None => settings[b] = None
  <2>1. QuerySave(a) => [roles |-> query[a].roles, phase |-> query[a].phase] # None
    BY NoneAssumption DEF QuerySave, Settings
  <2>2. QED
    BY SMTT(60), <1>6, <2>1 DEF Query, QueryBegin, QuerySave, QuerySaveFails, PutSettings,
                      Settled
<1>7. ASSUME NEW a \in Agents, Remove(a) PROVE FALSE
  <2>1. ~RemoveAsked(a)
    BY <1>2 DEF RemoveAsked
  <2>2. spent' = spent
    BY <1>7, <2>1 DEF Remove, RemoveState, RemoveSettings, RemoveFails,
                      NotifyAgent
  <2>3. removal[a] = "none"
    BY <2>2 DEF Settled
  <2>4. QED
    BY <1>7, <2>1, <2>3 DEF Remove, RemoveState, RemoveSettings, RemoveFails,
                            NotifyAgent
<1>8. ASSUME NEW a \in Agents, NEW l \in Leases, LeaseExpires(a, l)
      PROVE  /\ spent["removal"] = 0
             /\ \A b \in Agents :
                   /\ removal'[b] = "none"
                   /\ settings'[b] = None => settings[b] = None
  BY <1>2, <1>8 DEF LeaseExpires, Settled
<1>9. CASE UNCHANGED vars
  BY <1>9 DEF vars, Settled
<1>10. QED
  BY <1>3, <1>4, <1>5, <1>6, <1>7, <1>8, <1>9 DEF Next

\* Nobody acts for an agent without settings but to register it.
LEMMA UnknownStays ==
    ASSUME TypeOK, [Next]_vars, NEW a \in Agents, Unknown(a),
           settings[a] = None, settings'[a] = None
    PROVE  Unknown(a)'
<1> USE DEF TypeOK, Unknown
<1>1. CASE Snapshot \/ StartWatch \/ Crash
  BY <1>1 DEF Snapshot, StartWatch, Crash, IsCached, EmptyCache, NoReport, Idle,
              Handling, Maps
<1>2. CASE WatchTake \/ WatchReadSettings \/ WatchReadState \/ WatchReadFails
  <2>1. UNCHANGED <<state, cache, reg, report>>
    BY <1>2 DEF WatchTake, WatchReadSettings, WatchReadState, WatchReadFails
  <2>2. IsCached(a)' = IsCached(a)
    BY <2>1 DEF IsCached
  <2>3. ~(Handling(a)' /\ watcher'.pc \in {"state", "apply"})
    <3>1. CASE WatchTake
      BY <3>1 DEF WatchTake, Idle
    <3>2. CASE WatchReadSettings
      <4>1. CASE watcher.ev.agent = a
        BY <3>2, <4>1 DEF WatchReadSettings, Idle
      <4>2. CASE watcher.ev.agent # a
        <5>1. watcher'.pc = "idle" \/ watcher'.ev = watcher.ev
          <6>1. CASE settings[watcher.ev.agent] = None
            BY <3>2, <6>1 DEF WatchReadSettings, Idle
          <6>2. CASE settings[watcher.ev.agent] # None
            <7>1. watcher' = [watcher EXCEPT !.pc = "state",
                                !.settings = settings[watcher.ev.agent]]
              BY <3>2, <6>2 DEF WatchReadSettings
            <7>2. QED
              BY <7>1
          <6>3. QED
            BY <6>1, <6>2
        <5>2. QED
          BY <4>2, <5>1 DEF Handling
      <4>3. QED
        BY <4>1, <4>2
    <3>3. CASE WatchReadState
      BY <3>3 DEF WatchReadState, Handling
    <3>4. CASE WatchReadFails
      BY <3>4 DEF WatchReadFails, Idle
    <3>5. QED
      BY <1>2, <3>1, <3>2, <3>3, <3>4
  <2>4. QED
    BY <2>1, <2>2, <2>3
<1>3. CASE WatchApply
  <2>1. watcher.ev.agent # a
    BY <1>3 DEF WatchApply, Handling
  <2>2. \A m \in Maps : cache'[m][a] = cache[m][a]
    BY <1>3, <2>1 DEF WatchApply, OnAgentChanged, Online, Offline
  <2>3. QED
    BY <1>3, <2>2 DEF WatchApply, IsCached, Idle, Handling
<1>4. ASSUME NEW b \in Agents, Register(b) \/ RegisterFails(b)
      PROVE  Unknown(a)'
  <2>1. [roles |-> want[b], phase |-> 0] # None
    BY NoneAssumption DEF Settings, Phases
  <2>2. QED
    BY <1>4, <2>1 DEF Register, RegisterCheck, RegisterSaveSettings,
       RegisterSaveState, RegisterFails, PutSettings, PutState, IsCached, Handling
<1>5. ASSUME NEW b \in Agents, Report(b)
      PROVE  Unknown(a)'
  <2>1. UNCHANGED <<settings, cache, reg, watcher>>
    BY <1>5 DEF Report, ReportBegin, ReportLookup, ReportRenew, ReportGrant
  <2>2. IsCached(a)' = IsCached(a) /\ Handling(a)' = Handling(a)
    BY <2>1 DEF IsCached, Handling
  <2>3. state'[a] = None
    BY <1>5 DEF Report, ReportBegin, ReportLookup, ReportRenew, ReportGrant,
                PutState
  <2>4. report'[a].mode \in {"none", "lookup"}
    <3>1. CASE b # a
      BY <1>5, <3>1 DEF Report, ReportBegin, ReportLookup, ReportRenew,
                        ReportGrant
    <3>2. ASSUME b = a, ReportBegin(a)
          PROVE  report'[a].mode = "lookup"
      BY <3>2 DEF ReportBegin
    <3>3. ASSUME b = a, ReportLookup(a)
          PROVE  report'[a].mode = "none"
      BY <3>3 DEF ReportLookup, NoReport
    <3>4. ASSUME b = a, ~ReportBegin(a), ~ReportLookup(a)
          PROVE  FALSE
      BY <1>5, <3>4 DEF Report, ReportRenew, ReportGrant
    <3>5. QED
      BY <1>5, <3>1, <3>2, <3>3, <3>4
  <2>5. QED
    BY <2>1, <2>2, <2>3, <2>4
<1>6. ASSUME NEW b \in Agents, Query(b)
      PROVE  Unknown(a)'
  <2>1. \A m \in Maps : cache[m][a] = None => cache'[m][a] = None
    <3>1. CASE cache' = cache
      BY <3>1
    <3>2. ASSUME NEW o, NEW p, cache' = SetPhase(b, o, p)
          PROVE  \A m \in Maps : cache[m][a] = None => cache'[m][a] = None
      <4> SUFFICES ASSUME NEW m \in Maps, cache[m][a] = None
                   PROVE  cache'[m][a] = None
        OBVIOUS
      <4>1. cache'[m] = IF cache[m][b] # None /\ cache[m][b].roles = o.roles
                        THEN [cache[m] EXCEPT ![b] =
                                [roles |-> @.roles, phase |-> p,
                                 flags |-> @.flags]]
                        ELSE cache[m]
        BY <3>2 DEF SetPhase
      <4>2. QED
        BY <4>1
    <3>3. QED
      BY <1>6, <3>1, <3>2 DEF Query, QueryBegin, QuerySave, QuerySaveFails
  <2>2. QED
    BY <1>6, <2>1 DEF Query, QueryBegin, QuerySave, QuerySaveFails, IsCached,
                      Handling
<1>7. ASSUME NEW b \in Agents, Remove(b)
      PROVE  Unknown(a)'
  BY <1>7 DEF Remove, RemoveAsked, RemoveState, RemoveSettings, RemoveFails,
              NotifyAgent, DeleteState, IsCached, Handling
<1>8. ASSUME NEW b \in Agents, NEW l \in Leases, LeaseExpires(b, l)
      PROVE  Unknown(a)'
  BY <1>8 DEF LeaseExpires, DeleteState, IsCached, Handling
<1>9. CASE UNCHANGED vars
  BY <1>9 DEF vars, IsCached, Handling
<1>10. QED
  BY <1>1, <1>2, <1>3, <1>4, <1>5, <1>6, <1>7, <1>8, <1>9 DEF Next, Watch

LEMMA SettledCorrect == Spec => []Settled
<1>1. Init => Settled
  <2> SUFFICES ASSUME Init, NEW a \in Agents
               PROVE  removal[a] = "none" /\ Unknown(a)
    BY DEF Settled, Unknown
  <2>1. ~IsCached(a)
    BY DEF Init, EmptyCache, IsCached
  <2>2. watcher.pc = "idle" /\ report[a].mode = "none"
    BY DEF Init, Idle, NoReport
  <2>3. QED
    BY <2>1, <2>2 DEF Init, Unknown
<1>2. TypeOK /\ Settled /\ [Next]_vars => Settled'
  <2> SUFFICES ASSUME TypeOK, Settled, [Next]_vars, spent'["removal"] = 0,
                      NEW a \in Agents
               PROVE  /\ removal'[a] = "none"
                      /\ settings'[a] = None => Unknown(a)'
    BY DEF Settled, Unknown
  <2>1. /\ spent["removal"] = 0
        /\ removal'[a] = "none"
        /\ settings'[a] = None => settings[a] = None
    BY SettingsStay
  <2>2. settings[a] = None => Unknown(a)
    BY <2>1 DEF Settled, Unknown
  <2>3. QED
    BY <2>1, <2>2, UnknownStays
<1>3. QED
  BY <1>1, <1>2, TypeCorrect, PTL DEF Spec

\* SaveAgent, cut off anywhere, and the reports of an agent never leave a state
\* without settings behind, unless the agent was removed.
THEOREM StateComesSecond == Spec => []StateImpliesSettings
<1>1. Settled => StateImpliesSettings
  BY DEF Settled, StateImpliesSettings
<1>2. QED
  BY <1>1, SettledCorrect, PTL

-----------------------------------------------------------------------------
(* The cache shows only what was stored *)

\* Where an entry of a comes from: it shows the same roles and flags as one
\* that was there, the keys as the snapshot finds them, or what the watcher
\* fetched.
LEMMA EntryComesFrom ==
    ASSUME TypeOK, [Next]_vars, NEW m \in Maps, NEW a \in Agents,
           cache'[m][a] # None
    PROVE  \/ /\ cache[m][a] # None
              /\ cache'[m][a].roles = cache[m][a].roles
              /\ cache'[m][a].flags = cache[m][a].flags
           \/ /\ settings[a] # None /\ state[a] # None
              /\ cache'[m][a].roles = settings[a].roles
              /\ cache'[m][a].flags = state[a].flags
           \/ /\ watcher.pc = "apply" /\ watcher.ev.agent = a
              /\ cache'[m][a].roles = watcher.settings.roles
              /\ cache'[m][a].flags = watcher.flags
  <1> DEFINE Goal == \/ /\ cache[m][a] # None
                        /\ cache'[m][a].roles = cache[m][a].roles
                        /\ cache'[m][a].flags = cache[m][a].flags
                     \/ /\ settings[a] # None /\ state[a] # None
                        /\ cache'[m][a].roles = settings[a].roles
                        /\ cache'[m][a].flags = state[a].flags
                     \/ /\ watcher.pc = "apply" /\ watcher.ev.agent = a
                        /\ cache'[m][a].roles = watcher.settings.roles
                        /\ cache'[m][a].flags = watcher.flags
  <1>1. CASE cache' = cache
    BY <1>1
  <1>2. CASE Snapshot
    BY <1>2 DEF Snapshot
  <1>3. CASE Crash
    BY <1>3 DEF Crash, EmptyCache
  <1>4. CASE WatchApply
    <2> DEFINE b == watcher.ev.agent
               o == [roles |-> watcher.settings.roles,
                     phase |-> watcher.settings.phase, flags |-> watcher.flags]
    <2>1. b \in Agents
      BY <1>4 DEF WatchApply, TypeOK, Event
    <2>2. CASE cache' = Offline(b, watcher.settings.roles)
      BY <2>1, <2>2 DEF Offline, TypeOK
    <2>3. CASE cache' = Online(b, o)
      <3>1. cache'[m] = IF m \in MapsOf(o.roles)
                        THEN [cache[m] EXCEPT ![b] = o] ELSE cache[m]
        BY <2>3 DEF Online
      <3>2. cache[m] \in [Agents -> Object \cup {None}]
        BY DEF TypeOK
      <3>3. CASE a = b /\ m \in MapsOf(o.roles)
        <4>1. cache'[m][a] = o
          BY <3>1, <3>2, <3>3, <2>1
        <4> QED
          BY <4>1, <3>3, <1>4 DEF WatchApply
      <3>4. CASE ~(a = b /\ m \in MapsOf(o.roles))
        <4>1. cache'[m][a] = cache[m][a]
          BY <3>1, <3>2, <3>4, <2>1
        <4> QED
          BY <4>1
      <3> QED
        BY <3>3, <3>4
    <2> QED
      BY <1>4, <2>2, <2>3 DEF WatchApply, OnAgentChanged
  <1>5. ASSUME NEW b \in Agents, NEW p \in Outcomes, QueryBegin(b, p)
        PROVE  Goal
    <2> DEFINE o == GetCachedAgent(b)
               q == [roles |-> cache[m][b].roles, phase |-> p,
                     flags |-> cache[m][b].flags]
    <2>1. cache'[m] = IF cache[m][b] # None /\ cache[m][b].roles = o.roles
                      THEN [cache[m] EXCEPT ![b] = q] ELSE cache[m]
      BY <1>5 DEF QueryBegin, SetPhase
    <2>2. cache[m] \in [Agents -> Object \cup {None}]
      BY DEF TypeOK
    <2>3. CASE a = b /\ cache[m][b] # None /\ cache[m][b].roles = o.roles
      <3>1. cache'[m][a] = q
        BY <2>1, <2>2, <2>3
      <3> QED
        BY <3>1, <2>3
    <2>4. CASE ~(a = b /\ cache[m][b] # None /\ cache[m][b].roles = o.roles)
      <3>1. cache'[m][a] = cache[m][a]
        BY <2>1, <2>2, <2>4
      <3> QED
        BY <3>1
    <2> QED
      BY <2>3, <2>4
  <1>6. \/ cache' = cache \/ Snapshot \/ Crash \/ WatchApply
        \/ \E b \in Agents, p \in Outcomes : QueryBegin(b, p)
    <2>1. CASE StartWatch \/ WatchTake \/ WatchReadSettings \/ WatchReadState
                   \/ WatchReadFails
      BY <2>1 DEF StartWatch, WatchTake, WatchReadSettings, WatchReadState,
                  WatchReadFails
    <2>2. ASSUME NEW b \in Agents, Register(b) \/ RegisterFails(b)
          PROVE  cache' = cache
      BY <2>2 DEF Register, RegisterCheck, RegisterSaveSettings,
                  RegisterSaveState, RegisterFails
    <2>3. ASSUME NEW b \in Agents, Report(b)
          PROVE  cache' = cache
      BY <2>3 DEF Report, ReportBegin, ReportLookup, ReportRenew, ReportGrant
    <2>4. ASSUME NEW b \in Agents, Query(b)
          PROVE  cache' = cache \/ \E p \in Outcomes : QueryBegin(b, p)
      BY <2>4 DEF Query, QuerySave, QuerySaveFails
    <2>5. ASSUME NEW b \in Agents, Remove(b)
          PROVE  cache' = cache
      BY <2>5 DEF Remove, RemoveAsked, RemoveState, RemoveSettings,
                  RemoveFails, NotifyAgent
    <2>6. ASSUME NEW b \in Agents, NEW l \in Leases, LeaseExpires(b, l)
          PROVE  cache' = cache
      BY <2>6 DEF LeaseExpires
    <2>7. CASE UNCHANGED vars
      BY <2>7 DEF vars
    <2> QED
      BY <2>1, <2>2, <2>3, <2>4, <2>5, <2>6, <2>7 DEF Next, Watch
  <1> QED
    BY <1>1, <1>2, <1>3, <1>4, <1>5, <1>6

\* Where the watcher's values come from: it had them already, or it has just
\* read them.
LEMMA FetchComesFrom ==
    ASSUME TypeOK, [Next]_vars
    PROVE  /\ watcher'.pc = "state" =>
                 \/ watcher' = watcher
                 \/ /\ settings[watcher'.ev.agent] # None
                    /\ watcher'.settings = settings[watcher'.ev.agent]
           /\ watcher'.pc = "apply" =>
                 \/ watcher' = watcher
                 \/ /\ watcher.pc = "state" /\ watcher'.ev = watcher.ev
                    /\ watcher'.settings = watcher.settings
                    /\ watcher'.flags = IF state[watcher.ev.agent] = None
                                        THEN None
                                        ELSE state[watcher.ev.agent].flags
  <1>0. watcher \in [pc : {"idle", "settings", "state", "apply"},
                     ev : Event \cup {None}, settings : Settings \cup {None},
                     flags : Flags \cup {None}]
    BY DEF TypeOK
  <1>1. CASE watcher' = watcher
    BY <1>1
  <1>2. CASE WatchReadSettings
    <2>1. CASE settings[watcher.ev.agent] = None
      BY <1>2, <2>1 DEF WatchReadSettings, Idle
    <2>2. CASE settings[watcher.ev.agent] # None
      <3>1. watcher' = [watcher EXCEPT !.pc = "state",
                                       !.settings = settings[watcher.ev.agent]]
        BY <1>2, <2>2 DEF WatchReadSettings
      <3>2. /\ watcher'.pc = "state" /\ watcher'.ev = watcher.ev
            /\ watcher'.settings = settings[watcher.ev.agent]
        BY <1>0, <3>1
      <3> QED
        BY <2>2, <3>2
    <2> QED
      BY <2>1, <2>2
  <1>3. CASE WatchReadState
    <2> DEFINE got == IF state[watcher.ev.agent] = None THEN None
                      ELSE state[watcher.ev.agent].flags
    <2>1. /\ watcher' = [watcher EXCEPT !.pc = "apply", !.flags = got]
          /\ watcher.pc = "state"
      BY <1>3 DEF WatchReadState
    <2>2. /\ watcher'.pc = "apply" /\ watcher'.ev = watcher.ev
          /\ watcher'.settings = watcher.settings /\ watcher'.flags = got
      BY <1>0, <2>1
    <2> QED
      BY <2>1, <2>2
  <1>4. CASE watcher'.pc \in {"idle", "settings"}
    BY <1>4
  <1>5. watcher' = watcher \/ WatchReadSettings \/ WatchReadState
            \/ watcher'.pc \in {"idle", "settings"}
    <2>1. CASE Snapshot \/ StartWatch \/ Crash
      BY <2>1 DEF Snapshot, StartWatch, Crash, Idle
    <2>2. CASE WatchTake \/ WatchApply \/ WatchReadFails
      <3>1. CASE WatchTake
        <4>1. watcher' = [Idle EXCEPT !.pc = "settings", !.ev = Head(queue)]
          BY <3>1 DEF WatchTake
        <4>2. watcher'.pc = "settings"
          BY <4>1 DEF Idle
        <4> QED
          BY <4>2
      <3>2. CASE WatchApply \/ WatchReadFails
        <4>1. watcher' = Idle
          BY <3>2 DEF WatchApply, WatchReadFails
        <4> QED
          BY <4>1 DEF Idle
      <3> QED
        BY <2>2, <3>1, <3>2
    <2>3. ASSUME NEW b \in Agents, Register(b) \/ RegisterFails(b)
          PROVE  watcher' = watcher
      BY <2>3 DEF Register, RegisterCheck, RegisterSaveSettings,
                  RegisterSaveState, RegisterFails
    <2>4. ASSUME NEW b \in Agents, Report(b)
          PROVE  watcher' = watcher
      BY <2>4 DEF Report, ReportBegin, ReportLookup, ReportRenew, ReportGrant
    <2>5. ASSUME NEW b \in Agents, Query(b)
          PROVE  watcher' = watcher
      BY <2>5 DEF Query, QueryBegin, QuerySave, QuerySaveFails
    <2>6. ASSUME NEW b \in Agents, Remove(b)
          PROVE  watcher' = watcher
      BY <2>6 DEF Remove, RemoveAsked, RemoveState, RemoveSettings,
                  RemoveFails, NotifyAgent
    <2>7. ASSUME NEW b \in Agents, NEW l \in Leases, LeaseExpires(b, l)
          PROVE  watcher' = watcher
      BY <2>7 DEF LeaseExpires
    <2>8. CASE UNCHANGED vars
      BY <2>8 DEF vars
    <2> QED
      BY <2>1, <2>2, <2>3, <2>4, <2>5, <2>6, <2>7, <2>8 DEF Next, Watch
  <1> QED
    BY <1>1, <1>2, <1>3, <1>4, <1>5

\* A report nobody stored for a: neither stored, nor shown, nor fetched.
NotStored(a, f) == state[a] = None \/ state[a].flags # f
NotShown(a, f) == \A m \in Maps : cache[m][a] = None \/ cache[m][a].flags # f
NotFetched(a, f) == watcher.pc = "apply" /\ watcher.ev.agent = a
                        => watcher.flags # f

\* The same for roles.
RolesNotStored(a, rs) == settings[a] = None \/ settings[a].roles # rs
RolesNotShown(a, rs) ==
    \A m \in Maps : cache[m][a] = None \/ cache[m][a].roles # rs
RolesNotFetched(a, rs) ==
    watcher.pc \in {"state", "apply"} /\ watcher.ev.agent = a
        => watcher.settings.roles # rs

\* For a given agent and report.
LEMMA FlagsStayOut ==
    ASSUME NEW a \in Agents, NEW f \in Flags
    PROVE  Spec => ([]NotStored(a, f) => []NotShown(a, f))
  <1>1. Init => NotShown(a, f) /\ NotFetched(a, f)
    BY DEF Init, EmptyCache, Idle, NotShown, NotFetched
  <1>2. TypeOK /\ NotStored(a, f) /\ NotShown(a, f) /\ NotFetched(a, f)
            /\ [Next]_vars
        => NotShown(a, f)' /\ NotFetched(a, f)'
    <2> SUFFICES ASSUME TypeOK, NotStored(a, f), NotShown(a, f),
                        NotFetched(a, f), [Next]_vars
                 PROVE  NotShown(a, f)' /\ NotFetched(a, f)'
      OBVIOUS
    <2>1. NotShown(a, f)'
      BY EntryComesFrom DEF NotShown, NotStored, NotFetched
    <2>2. NotFetched(a, f)'
      BY FetchComesFrom DEF NotFetched, NotStored
    <2> QED
      BY <2>1, <2>2
  <1> QED
    BY <1>1, <1>2, TypeCorrect, PTL DEF Spec

\* For a given agent and set of roles.
LEMMA RolesStayOut ==
    ASSUME NEW a \in Agents, NEW rs \in RoleSets
    PROVE  Spec => ([]RolesNotStored(a, rs) => []RolesNotShown(a, rs))
  <1>1. Init => RolesNotShown(a, rs) /\ RolesNotFetched(a, rs)
    BY DEF Init, EmptyCache, Idle, RolesNotShown, RolesNotFetched
  <1>2. TypeOK /\ RolesNotStored(a, rs) /\ RolesNotShown(a, rs)
            /\ RolesNotFetched(a, rs) /\ [Next]_vars
        => RolesNotShown(a, rs)' /\ RolesNotFetched(a, rs)'
    <2> SUFFICES ASSUME TypeOK, RolesNotStored(a, rs), RolesNotShown(a, rs),
                        RolesNotFetched(a, rs), [Next]_vars
                 PROVE  RolesNotShown(a, rs)' /\ RolesNotFetched(a, rs)'
      OBVIOUS
    <2>1. RolesNotShown(a, rs)'
      BY EntryComesFrom DEF RolesNotShown, RolesNotStored, RolesNotFetched
    <2>2. RolesNotFetched(a, rs)'
      BY FetchComesFrom DEF RolesNotFetched, RolesNotStored
    <2> QED
      BY <2>1, <2>2
  <1> QED
    BY <1>1, <1>2, TypeCorrect, PTL DEF Spec

\* What the keys of an agent never held, the cache never shows.
THEOREM CacheShowsOnlyStored == Spec => ShowsOnlyStored
  BY FlagsStayOut, RolesStayOut
     DEF ShowsOnlyStored, NotStored, NotShown, RolesNotStored, RolesNotShown
=============================================================================
