-------------------------- MODULE ClusterSync_proofs --------------------------
(* Proofs about ClusterSync: the registry and the certificates mirror ETCD. *)
EXTENDS ClusterSync, TLAPS

-----------------------------------------------------------------------------
(* The inductive invariant *)

\* Of the events of key in s the last one says v; without one, d is v.
LastIs(s, key, d, v) ==
    /\ \A i \in DOMAIN s : s[i].key = key =>
          \E j \in DOMAIN s : j >= i /\ s[j] = Event(key, v)
    /\ d = v \/ \E j \in DOMAIN s : s[j] = Event(key, v)

\* A controller's life: free, being created by the manager, listed, left over.
NotListed(k) == \A c \in Clusters : listed[c] # k

Free(k) == /\ ctl[k] = Blank /\ worker[k] = Resting("none")
           /\ channel[k] = <<>> /\ sync.ctl # k /\ NotListed(k)

Creating(k) ==
    /\ sync.pc \in {"certs", "keys"} /\ sync.ctl = k /\ NotListed(k)
    /\ ctl[k].cluster = sync.cluster /\ ctl[k].settings = sync.value
    /\ ~ctl[k].disposed /\ ctl[k].cache
    /\ worker[k] = Resting("none") /\ channel[k] = <<>>

Findable(k) ==
    /\ ctl[k].cluster \in Clusters /\ ctl[k].settings \in Values
    /\ listed[ctl[k].cluster] = k /\ ctl[k].cache
    /\ sync.ctl = k => sync.pc \in {"update", "dispose"}
    /\ ctl[k].disposed <=> sync.pc = "dispose" /\ sync.ctl = k
    /\ worker[k].pc # "none"

Left(k) ==
    /\ ctl[k].cluster \in Clusters /\ ctl[k].settings \in Values
    /\ NotListed(k) /\ ctl[k].disposed /\ ~ctl[k].cache
    /\ sync.ctl # k /\ Watched(k)

Life(k) == Free(k) \/ Creating(k) \/ Findable(k) \/ Left(k)

LifeCycle == \A k \in Handles : Life(k)

SyncOK ==
    /\ sync.pc = "idle" => sync = Ready
    /\ sync.pc # "idle" => sync.cluster \in Clusters /\ sync.ctl \in Handles
    /\ sync.pc \in {"certs", "keys"} =>
          sync.value \in Values /\ listed[sync.cluster] = None
    /\ sync.pc \in {"update", "dispose"} => listed[sync.cluster] = sync.ctl
    /\ sync.pc = "update" => sync.value \in Values
    /\ sync.pc = "dispose" => sync.value = None

ServerOK ==
    /\ ~Running => /\ ~watching /\ sync.pc = "idle"
                   /\ \A c \in Clusters : listed[c] = None
    /\ server = "syncing" => watching
    /\ server # "syncing" => \A c \in Clusters : todo[c] = None

\* Certificates are written, never deleted one by one; a goroutine that has
\* ended has no channel.
EventsOK ==
    \A k \in Handles :
        /\ \A i \in DOMAIN channel[k] :
              channel[k][i].key \in Certs => channel[k][i].value \in Calls
        /\ worker[k].key \in Certs =>
              worker[k].pc \in {"check", "apply"} /\ worker[k].value \in Calls
        /\ worker[k].pc = "ended" => channel[k] = <<>>

\* What the manager will make of c when no further event arrives.
Pending(c) == IF todo[c] # None THEN todo[c]
              ELSE IF sync.cluster = c THEN sync.value
              ELSE IF lost[c] THEN meta[c] ELSE Known(c)

LastWord ==
    watching => \A c \in Clusters : LastIs(news, c, Pending(c), meta[c])

\* The same of a controller and a certificate.
Follows(k) ==
    /\ ctl[k].cluster \in Clusters /\ worker[k].pc # "ended"
    /\ ~(sync.pc = "certs" /\ sync.ctl = k) /\ ~missed[k] /\ ~ctl[k].disposed

Held(k, n) == IF worker[k].key = n THEN worker[k].value ELSE ctl[k].certs[n]

Mirrors(k, n) ==
    Follows(k) /\ certs[ctl[k].cluster][n] # None =>
        LastIs(channel[k], n, Held(k, n), certs[ctl[k].cluster][n])

LastCertificate == \A k \in Handles : \A n \in Certs : Mirrors(k, n)

\* A cluster with metadata has its certificates, and a call that is about to
\* write the metadata has written them.
Certified ==
    /\ \A c \in Clusters \ {Pool} : meta[c] # None =>
          \A n \in Certs : certs[c][n] # None
    /\ \A g \in Calls : call[g].pc = "saving" =>
          /\ call[g].cluster \in Clusters \ {Pool}
          /\ \A n \in Certs \ call[g].left : certs[call[g].cluster][n] # None

Full(k) == \A n \in Certs : ctl[k].certs[n] # None

CompleteAt(k) ==
    ctl[k].cluster \in Clusters \ {Pool} =>
        \/ Full(k) \/ Leaving(ctl[k].cluster) \/ ctl[k].disposed
        \/ sync.pc = "certs" /\ sync.ctl = k

Complete == \A k \in Handles : CompleteAt(k)

Structure == TypeOK /\ SyncOK /\ LifeCycle /\ ServerOK /\ EventsOK

ClusterInvariant ==
    Structure /\ LastWord /\ LastCertificate /\ Certified /\ Complete

-----------------------------------------------------------------------------
(* Sequences of events *)

LEMMA LastIsAppended ==
    ASSUME NEW S, NEW s \in Seq(S), NEW key, NEW v, NEW d, Event(key, v) \in S
    PROVE  LastIs(Append(s, Event(key, v)), key, d, v)
  BY DEF LastIs, Event

LEMMA LastIsOther ==
    ASSUME NEW S, NEW s \in Seq(S), NEW key, NEW v, NEW d, NEW e \in S,
           e.key # key, LastIs(s, key, d, v)
    PROVE  LastIs(Append(s, e), key, d, v)
<1> DEFINE t == Append(s, e)
<1>1. /\ DOMAIN s = 1..Len(s) /\ Len(s) \in Nat
      /\ DOMAIN t = 1..Len(s) + 1
      /\ t[Len(s) + 1] = e /\ \A i \in 1..Len(s) : t[i] = s[i]
  OBVIOUS
<1> HIDE DEF t
<1>2. ASSUME NEW i \in DOMAIN t, t[i].key = key
      PROVE  \E j \in DOMAIN t : j >= i /\ t[j] = Event(key, v)
  <2>1. i \in DOMAIN s /\ s[i].key = key
    BY <1>1, <1>2
  <2>2. PICK j \in DOMAIN s : j >= i /\ s[j] = Event(key, v)
    BY <2>1 DEF LastIs
  <2> QED
    BY <1>1, <2>2
<1>3. d = v \/ \E j \in DOMAIN t : t[j] = Event(key, v)
  <2>1. CASE d = v
    BY <2>1
  <2>2. CASE \E j \in DOMAIN s : s[j] = Event(key, v)
    BY <1>1, <2>2
  <2> QED
    BY <2>1, <2>2 DEF LastIs
<1> QED
  BY <1>2, <1>3 DEF LastIs, t

LEMMA LastIsTail ==
    ASSUME NEW S, NEW s \in Seq(S), NEW key, NEW v, NEW d, NEW e, s # <<>>,
           LastIs(s, key, d, v),
           Head(s).key = key => Head(s) = Event(key, e),
           Head(s).key # key => e = d
    PROVE  LastIs(Tail(s), key, e, v)
<1> DEFINE t == Tail(s)
<1>1. /\ DOMAIN s = 1..Len(s) /\ Len(s) \in Nat \ {0}
      /\ DOMAIN t = 1..Len(s) - 1 /\ Head(s) = s[1]
      /\ \A i \in DOMAIN t : i \in Nat \ {0} /\ i + 1 \in DOMAIN s
                              /\ t[i] = s[i + 1]
  OBVIOUS
<1> HIDE DEF t
<1>2. ASSUME NEW j \in DOMAIN s, s[j] = Event(key, v), j # 1
      PROVE  j - 1 \in DOMAIN t /\ t[j - 1] = Event(key, v)
  BY <1>1, <1>2
<1>3. ASSUME NEW i \in DOMAIN t, t[i].key = key
      PROVE  \E j \in DOMAIN t : j >= i /\ t[j] = Event(key, v)
  <2>1. i + 1 \in DOMAIN s /\ s[i + 1].key = key
    BY <1>1, <1>3
  <2>2. PICK j \in DOMAIN s : j >= i + 1 /\ s[j] = Event(key, v)
    BY <2>1 DEF LastIs
  <2>3. j # 1 /\ j - 1 >= i
    BY <1>1, <2>2
  <2> QED
    BY <1>2, <2>2, <2>3
<1>4. e = v \/ \E j \in DOMAIN t : t[j] = Event(key, v)
  <2>1. CASE Head(s).key = key
    <3>1. 1 \in DOMAIN s /\ s[1] = Event(key, e) /\ s[1].key = key
      BY <1>1, <2>1
    <3>2. PICK j \in DOMAIN s : s[j] = Event(key, v)
      BY <3>1 DEF LastIs
    <3>3. CASE j = 1
      BY <3>1, <3>2, <3>3 DEF Event
    <3>4. CASE j # 1
      BY <1>2, <3>2, <3>4
    <3> QED
      BY <3>3, <3>4
  <2>2. CASE Head(s).key # key
    <3>1. CASE d = v
      BY <2>2, <3>1
    <3>2. ASSUME NEW j \in DOMAIN s, s[j] = Event(key, v)
          PROVE  \E i \in DOMAIN t : t[i] = Event(key, v)
      BY <1>1, <1>2, <2>2, <3>2 DEF Event
    <3> QED
      BY <3>1, <3>2 DEF LastIs
  <2> QED
    BY <2>1, <2>2
<1> QED
  BY <1>3, <1>4 DEF LastIs, t

-----------------------------------------------------------------------------
(* Structure *)

USE PoolAssumption, AgentAssumption, NoneAssumption, BudgetAssumption
USE DEF etcd, manager, workers, Faults

\* The conjuncts of TypeOK, by the actions that touch them.
StoreType ==
    /\ meta \in [Clusters -> Values \cup {None}]
    /\ certs \in [Clusters -> [Certs -> Calls \cup {None}]]

CallType ==
    call \in [Calls -> [pc : {"new", "saving", "ended"},
                        cluster : Clusters \cup {None}, left : SUBSET Certs]]

NewsType == news \in Seq([key : Clusters, value : Values \cup {None}])

SyncType ==
    sync \in [pc : {"idle", "certs", "keys", "update", "dispose"},
              cluster : Clusters \cup {None}, value : Values \cup {None},
              ctl : Handles \cup {None}]

ManagerType ==
    /\ server \in {"down", "dead", "syncing", "pool", "up"}
    /\ todo \in [Clusters -> Values \cup {None}]
    /\ watching \in BOOLEAN
    /\ listed \in [Clusters -> Handles \cup {None}]
    /\ lost \in [Clusters -> BOOLEAN]

ControllerType == ctl \in [Handles -> Controller]

ChannelType ==
    channel \in [Handles -> Seq([key : Certs \cup {Agent},
                                 value : Calls \cup {None}])]

WorkerType ==
    worker \in [Handles -> [pc : {"none", "idle", "lookup", "check", "apply",
                                  "ended"},
                            key : Certs \cup {Agent, None},
                            value : Calls \cup {None}]]

OtherType ==
    /\ reading \in Handles \cup {None}
    /\ missed \in [Handles -> BOOLEAN]
    /\ spent \in [Faults -> Nat]

Linked == \A c \in Clusters : listed[c] # None => ctl[listed[c]].cluster = c

LEMMA TypeParts ==
    TypeOK <=> /\ StoreType /\ CallType /\ NewsType /\ SyncType /\ ManagerType
               /\ ControllerType /\ ChannelType /\ WorkerType /\ OtherType
               /\ Linked
  BY DEF TypeOK, StoreType, CallType, NewsType, SyncType, ManagerType,
         ControllerType, ChannelType, WorkerType, OtherType, Linked

LEMMA BlankType ==
    /\ Blank \in Controller /\ NoCerts \in [Certs -> Calls \cup {None}]
    /\ Blank.cluster = None /\ ~Blank.disposed /\ ~Blank.cache
  BY DEF Blank, Controller, NoCerts

LEMMA ControllerFields ==
    ASSUME NEW r \in Controller
    PROVE  /\ [r EXCEPT !.disposed = TRUE] \in Controller
           /\ [r EXCEPT !.cache = FALSE] \in Controller
           /\ \A v \in Values \cup {None} : [r EXCEPT !.settings = v] \in Controller
           /\ \A f \in [Certs -> Calls \cup {None}] :
                 [r EXCEPT !.certs = f] \in Controller
           /\ \A n : \A v \in Calls \cup {None} :
                 [r EXCEPT !.certs[n] = v] \in Controller
  BY DEF Controller

\* The four lives, told apart.
LEMMA Lives ==
    ASSUME SyncOK, LifeCycle, NEW k \in Handles
    PROVE  /\ ctl[k].cluster = None \/ ctl[k] = Blank <=> Free(k)
           /\ sync.pc \in {"certs", "keys"} /\ sync.ctl = k => Creating(k)
           /\ sync.pc \in {"update", "dispose"} /\ sync.ctl = k => Findable(k)
           /\ ~NotListed(k) => Findable(k)
           /\ Life(k)
<1>1. Life(k)
  BY DEF LifeCycle
<1> QED
  BY <1>1, BlankType DEF Life, Free, Creating, Findable, Left, NotListed, SyncOK

\* What a sequence of S keeps.
LEMMA SeqType ==
    ASSUME NEW S, NEW s \in Seq(S)
    PROVE  /\ \A e \in S : Append(s, e) \in Seq(S)
           /\ s # <<>> => Tail(s) \in Seq(S) /\ Head(s) \in S
           /\ <<>> \in Seq(S)
  BY SMTT(60)

LEMMA SingleType == ASSUME NEW S, NEW e \in S PROVE <<e>> \in Seq(S)
  OBVIOUS

LEMMA StoreStep ==
    ASSUME StoreType, CallType, Next
    PROVE  StoreType'
<1> USE DEF StoreType
<1>1. CASE UNCHANGED <<meta, certs>>
  BY <1>1 DEF CallType, Values
<1>2. ASSUME NEW g \in Calls, SaveCertificate(g)
      PROVE  StoreType'
  <2>1. PICK n \in call[g].left : certs' = [certs EXCEPT ![call[g].cluster][n] = g]
    BY <1>2 DEF SaveCertificate
  <2>2. meta' = meta /\ n \in Certs
    BY <1>2 DEF SaveCertificate, CallType
  <2>3. ASSUME NEW c \in Clusters
        PROVE  certs'[c] \in [Certs -> Calls \cup {None}]
    BY <2>1, <2>2
  <2> QED
    BY <2>1, <2>2, <2>3
<1>3. ASSUME NEW g \in Calls, SaveMetadata(g)
      PROVE  StoreType'
  BY <1>3 DEF SaveMetadata, PutMetadata, Event, NotCalled, CallType, Values
<1>4. CASE CreatePool
  BY <1>4 DEF CreatePool, PutMetadata, Event, CallType, Values
<1>5. ASSUME NEW c \in Clusters, ClusterRemoved(c)
      PROVE  StoreType'
  BY SMTT(60), <1>5
  DEF ClusterRemoved, Spend, PutMetadata, Event, NoCerts, CallType, Values
<1> QED
  BY <1>1, <1>2, <1>3, <1>4, <1>5
  DEF Next, Sync, Work, Call, Start, ServerStops, NewCluster, NewClusterFails,
      ReadBegin, AlreadyGone, Dispose, Create, Update, DisposeEnds,
      ReadCertificates, Listed, UpdateClusterSettings, Synced, ReadFails,
      RegisterFails, ClusterWatchEnds, Receive, LookUp, Check, Apply,
      Cancelled, Panic, WatchEnds, AgentChanges, ReadEnd

LEMMA CallStep ==
    ASSUME CallType, Next
    PROVE  CallType'
<1> USE DEF CallType
<1>1. CASE UNCHANGED <<call>>
  BY <1>1 DEF NotCalled
<1>2. ASSUME NEW g \in Calls, NEW c \in Clusters, NewCluster(g, c)
      PROVE  CallType'
  BY <1>2 DEF NewCluster, NotCalled
<1>3. ASSUME NEW g \in Calls, SaveCertificate(g)
      PROVE  CallType'
  BY <1>3 DEF SaveCertificate, Event, NotCalled
<1>4. ASSUME NEW g \in Calls, SaveMetadata(g)
      PROVE  CallType'
  BY <1>4 DEF SaveMetadata, PutMetadata, Event, NotCalled, NotCalled
<1>5. ASSUME NEW g \in Calls, NewClusterFails(g)
      PROVE  CallType'
  BY <1>5 DEF NewClusterFails, NotCalled, NotCalled
<1>6. CASE ServerStops
  BY <1>6 DEF ServerStops, Spend, GoDown, NotCalled
<1>7. CASE ReadFails
  BY <1>7 DEF ReadFails, Spend, GoDown, NotCalled
<1>8. CASE RegisterFails
  <2>1. CASE server = "syncing"
    BY SMTT(60), <1>8, <2>1 DEF RegisterFails, Spend, GoDown, NotCalled
  <2>2. CASE server # "syncing"
    BY <1>8, <2>2 DEF RegisterFails, Spend, Ready, NotCalled
  <2> QED
    BY <2>1, <2>2
<1>9. ASSUME NEW k \in Handles, Panic(k)
      PROVE  CallType'
  BY ZenonT(60), <1>9 DEF Panic, GoDown, NotCalled
<1> QED
  BY <1>1, <1>2, <1>3, <1>4, <1>5, <1>6, <1>7, <1>8, <1>9
  DEF Next, Sync, Work, Call, Start, CreatePool, ClusterRemoved, ReadBegin,
      AlreadyGone, Dispose, Create, Update, DisposeEnds, ReadCertificates,
      Listed, UpdateClusterSettings, Synced, ClusterWatchEnds, Receive, LookUp,
      Check, Apply, Cancelled, WatchEnds, AgentChanges, ReadEnd

LEMMA NewsStep ==
    ASSUME StoreType, NewsType, Certified, Next
    PROVE  NewsType'
<1> DEFINE E == [key : Clusters, value : Values \cup {None}]
<1>0. /\ news \in Seq(E) /\ (NewsType' <=> news' \in Seq(E))
      /\ \A c \in Clusters, v \in Values \cup {None} :
            Event(c, v) \in E
      /\ \A e \in E : Append(news, e) \in Seq(E)
      /\ news # <<>> => Tail(news) \in Seq(E)
      /\ <<>> \in Seq(E)
  <2>1. /\ news \in Seq(E) /\ (NewsType' <=> news' \in Seq(E))
        /\ \A c \in Clusters, v \in Values \cup {None} : Event(c, v) \in E
    BY DEF NewsType, Event
  <2> HIDE DEF E
  <2>2. ASSUME NEW s \in Seq(E)
        PROVE  /\ \A e \in E : Append(s, e) \in Seq(E)
               /\ s # <<>> => Tail(s) \in Seq(E)
               /\ <<>> \in Seq(E)
    BY SeqType
  <2> QED
    BY <2>1, <2>2
<1> HIDE DEF E
<1>1. CASE UNCHANGED <<news>>
  BY <1>0, <1>1
<1>2. CASE Start
  <2>1. CASE news' = <<>>
    BY <1>0, <2>1
  <2>2. ASSUME NEW c \in Clusters, news' = <<Event(c, meta[c])>>
        PROVE  NewsType'
    <3>1. Event(c, meta[c]) \in E
      BY <1>0 DEF StoreType
    <3> QED
      BY <1>0, <2>2, <3>1, SingleType
  <2> QED
    BY <1>2, <2>1, <2>2 DEF Start
<1>3. CASE CreatePool
  BY <1>3, <1>0 DEF CreatePool, PutMetadata, Values
<1>4. ASSUME NEW g \in Calls, SaveMetadata(g)
      PROVE  NewsType'
  <2>1. CASE ~watching
    BY <1>4, <1>0, <2>1 DEF SaveMetadata, PutMetadata
  <2>2. CASE watching
    <3>1. call[g].cluster \in Clusters
      BY <1>4 DEF SaveMetadata, Certified
    <3> QED
      BY <1>4, <1>0, <2>2, <3>1 DEF SaveMetadata, PutMetadata, Values
  <2> QED
    BY <2>1, <2>2
<1>5. ASSUME NEW c \in Clusters, ClusterRemoved(c)
      PROVE  NewsType'
  BY <1>5, <1>0 DEF ClusterRemoved, Spend, PutMetadata
<1>6. ASSUME NEW c \in Clusters, AlreadyGone(c)
      PROVE  NewsType'
  BY <1>6, <1>0 DEF AlreadyGone, Taken
<1>7. ASSUME NEW c \in Clusters, Dispose(c)
      PROVE  NewsType'
  BY <1>7, <1>0 DEF Dispose, Taken
<1>8. ASSUME NEW c \in Clusters, NEW v \in Values, Create(c, v)
      PROVE  NewsType'
  BY <1>8, <1>0 DEF Create, Taken
<1>9. ASSUME NEW c \in Clusters, NEW v \in Values, Update(c, v)
      PROVE  NewsType'
  BY <1>9, <1>0 DEF Update, Taken
<1>10. CASE ClusterWatchEnds
  BY <1>10, <1>0 DEF ClusterWatchEnds, Spend
<1>11. CASE ServerStops
  BY <1>11, <1>0 DEF ServerStops, Spend, GoDown
<1>12. CASE ReadFails
  BY <1>12, <1>0 DEF ReadFails, Spend, GoDown
<1>13. CASE RegisterFails
  <2>1. CASE server = "syncing"
    BY <1>13, <2>1, <1>0 DEF RegisterFails, Spend, GoDown
  <2>2. CASE server # "syncing"
    BY <1>13, <2>2, <1>0 DEF RegisterFails, Spend, Ready
  <2> QED
    BY <2>1, <2>2
<1>14. ASSUME NEW k \in Handles, Panic(k)
      PROVE  NewsType'
  BY ZenonT(60), <1>14, <1>0 DEF Panic, GoDown
<1> QED
  BY <1>1, <1>2, <1>3, <1>4, <1>5, <1>6, <1>7, <1>8, <1>9, <1>10, <1>11, <1>12,
     <1>13, <1>14
  DEF Next, Sync, Work, Call, NewCluster, SaveCertificate, NewClusterFails,
      ReadBegin, DisposeEnds, ReadCertificates, Listed, UpdateClusterSettings,
      Synced, Receive, LookUp, Check, Apply, Cancelled, WatchEnds,
      AgentChanges, ReadEnd

LEMMA SyncStep ==
    ASSUME ManagerType, SyncType, Next
    PROVE  SyncType'
<1> USE DEF SyncType
<1>1. CASE UNCHANGED <<sync>>
  BY <1>1 DEF Ready
<1>2. ASSUME NEW c \in Clusters, Dispose(c)
      PROVE  SyncType'
  BY <1>2 DEF Dispose, Taken, Event, Ready, ManagerType
<1>3. ASSUME NEW c \in Clusters, NEW v \in Values, Create(c, v)
      PROVE  SyncType'
  BY <1>3 DEF Create, Taken, Event, NoCerts, Ready
<1>4. ASSUME NEW c \in Clusters, NEW v \in Values, Update(c, v)
      PROVE  SyncType'
  BY <1>4 DEF Update, Taken, Event, Ready, ManagerType
<1>5. CASE DisposeEnds
  BY <1>5 DEF DisposeEnds, Ready, Resting, Ready
<1>6. CASE ReadCertificates
  BY <1>6 DEF ReadCertificates, Ready
<1>7. CASE Listed
  BY <1>7 DEF Listed, Ready, Resting, Ready
<1>8. CASE UpdateClusterSettings
  BY <1>8 DEF UpdateClusterSettings, Ready, Ready
<1>9. CASE ServerStops
  BY <1>9 DEF ServerStops, Spend, GoDown, Ready
<1>10. CASE ReadFails
  BY <1>10 DEF ReadFails, Spend, GoDown, Ready
<1>11. CASE RegisterFails
  <2>1. CASE server = "syncing"
    BY <1>11, <2>1 DEF RegisterFails, Spend, GoDown, Ready
  <2>2. CASE server # "syncing"
    BY <1>11, <2>2 DEF RegisterFails, Spend, Ready, Ready
  <2> QED
    BY <2>1, <2>2
<1>12. ASSUME NEW k \in Handles, Panic(k)
      PROVE  SyncType'
  BY ZenonT(60), <1>12 DEF Panic, GoDown, Ready
<1> QED
  BY <1>1, <1>2, <1>3, <1>4, <1>5, <1>6, <1>7, <1>8, <1>9, <1>10, <1>11, <1>12
  DEF Next, Sync, Work, Call, Start, CreatePool, NewCluster, SaveCertificate,
      SaveMetadata, NewClusterFails, ClusterRemoved, ReadBegin, AlreadyGone,
      Synced, ClusterWatchEnds, Receive, LookUp, Check, Apply, Cancelled,
      WatchEnds, AgentChanges, ReadEnd

LEMMA ManagerStep ==
    ASSUME StoreType, ManagerType, SyncType, Next
    PROVE  ManagerType'
<1> USE DEF ManagerType
<1>1. CASE UNCHANGED <<server, todo, watching, listed, lost>>
  BY <1>1
<1>2. CASE Start
  BY <1>2 DEF Start, StoreType
<1>3. CASE CreatePool
  BY <1>3 DEF CreatePool, PutMetadata, Event
<1>4. ASSUME NEW c \in Clusters, AlreadyGone(c)
      PROVE  ManagerType'
  BY <1>4 DEF AlreadyGone, Taken, Event
<1>5. ASSUME NEW c \in Clusters, Dispose(c)
      PROVE  ManagerType'
  BY <1>5 DEF Dispose, Taken, Event
<1>6. ASSUME NEW c \in Clusters, NEW v \in Values, Create(c, v)
      PROVE  ManagerType'
  BY <1>6 DEF Create, Taken, Event, NoCerts
<1>7. ASSUME NEW c \in Clusters, NEW v \in Values, Update(c, v)
      PROVE  ManagerType'
  BY <1>7 DEF Update, Taken, Event
<1>8. CASE DisposeEnds
  BY <1>8 DEF DisposeEnds, Ready, Resting
<1>9. CASE Listed
  BY <1>9 DEF Listed, Ready, Resting, SyncType
<1>10. CASE Synced
  BY <1>10 DEF Synced
<1>11. CASE ClusterWatchEnds
  BY <1>11 DEF ClusterWatchEnds, Spend
<1>12. CASE ServerStops
  BY <1>12 DEF ServerStops, Spend, GoDown
<1>13. CASE ReadFails
  BY <1>13 DEF ReadFails, Spend, GoDown
<1>14. CASE RegisterFails
  <2>1. CASE server = "syncing"
    <3>1. GoDown("down")
      BY <1>14, <2>1 DEF RegisterFails
    <3> QED
      BY <3>1 DEF GoDown
  <2>2. CASE server # "syncing"
    BY <1>14, <2>2 DEF RegisterFails, Spend, Ready, SyncType
  <2> QED
    BY <2>1, <2>2
<1>15. ASSUME NEW k \in Handles, Panic(k)
      PROVE  ManagerType'
  BY <1>15 DEF Panic, GoDown
<1> QED
  BY <1>1, <1>2, <1>3, <1>4, <1>5, <1>6, <1>7, <1>8, <1>9, <1>10, <1>11, <1>12,
     <1>13, <1>14, <1>15
  DEF Next, Sync, Work, Call, NewCluster, SaveCertificate, SaveMetadata,
      NewClusterFails, ClusterRemoved, ReadBegin, ReadCertificates,
      UpdateClusterSettings, Receive, LookUp, Check, Apply, Cancelled,
      WatchEnds, AgentChanges, ReadEnd

LEMMA ControllerStep ==
    ASSUME StoreType, ManagerType, ControllerType, WorkerType, SyncType,
           SyncOK, Next
    PROVE  ControllerType'
<1> USE DEF ControllerType
<1>1. CASE UNCHANGED <<ctl>>
  BY BlankType, <1>1 DEF Controller
<1>2. ASSUME NEW c \in Clusters, Dispose(c)
      PROVE  ControllerType'
  <2>1. SUFFICES ASSUME NEW h \in Handles
                 PROVE  ctl'[h] \in Controller
    BY <1>2 DEF Dispose
  <2> QED
    BY <1>2, ControllerFields DEF Dispose
<1>3. ASSUME NEW c \in Clusters, NEW v \in Values, Create(c, v)
      PROVE  ControllerType'
  BY <1>3, BlankType DEF Create, Taken, Event, NoCerts, Controller
<1>4. CASE DisposeEnds
  <2> DEFINE k == sync.ctl
  <2>1. SUFFICES ASSUME NEW h \in Handles
                 PROVE  ctl'[h] \in Controller
    BY <1>4 DEF DisposeEnds
  <2>2. CASE h # k
    BY <1>4, <2>2 DEF DisposeEnds
  <2>3. CASE h = k /\ worker[k].pc = "ended"
    BY <1>4, <2>3, BlankType DEF DisposeEnds
  <2>4. CASE h = k /\ worker[k].pc # "ended"
    <3>1. ctl'[h] = [ctl[h] EXCEPT !.cache = FALSE]
      BY <1>4, <2>4 DEF DisposeEnds
    <3> QED
      BY <3>1 DEF Controller
  <2> QED
    BY <2>2, <2>3, <2>4
<1>5. CASE ReadCertificates
  <2>1. SUFFICES ASSUME NEW h \in Handles
                 PROVE  ctl'[h] \in Controller
    BY <1>5 DEF ReadCertificates
  <2> QED
    BY <1>5, ControllerFields DEF ReadCertificates, StoreType, SyncOK
<1>6. CASE UpdateClusterSettings
  <2>1. SUFFICES ASSUME NEW h \in Handles
                 PROVE  ctl'[h] \in Controller
    BY <1>6 DEF UpdateClusterSettings
  <2> QED
    BY <1>6, ControllerFields DEF UpdateClusterSettings, SyncType
<1>7. ASSUME NEW k \in Handles, Apply(k)
      PROVE  ControllerType'
  <2>1. SUFFICES ASSUME NEW h \in Handles
                 PROVE  ctl'[h] \in Controller
    BY <1>7 DEF Apply
  <2> QED
    BY <1>7, ControllerFields DEF Apply, WorkerType
<1>8. ASSUME NEW k \in Handles, Cancelled(k)
      PROVE  ControllerType'
  BY <1>8, BlankType DEF Cancelled, WorkerEnds, Resting, Controller
<1>9. ASSUME NEW k \in Handles, WatchEnds(k)
      PROVE  ControllerType'
  BY <1>9, BlankType DEF WatchEnds, WorkerEnds, Resting, Spend, Controller
<1>10. CASE ServerStops
  BY <1>10, BlankType DEF ServerStops, Spend, GoDown, Controller
<1>11. CASE ReadFails
  BY <1>11, BlankType DEF ReadFails, Spend, GoDown, Controller
<1>12. CASE RegisterFails
  <2>1. CASE server = "syncing"
    BY <1>12, <2>1, BlankType DEF RegisterFails, Spend, GoDown, Controller
  <2>2. CASE server # "syncing"
    BY SMTT(60), <1>12, <2>2, BlankType DEF RegisterFails, Spend, Ready, Controller
  <2> QED
    BY <2>1, <2>2
<1>13. ASSUME NEW k \in Handles, Panic(k)
      PROVE  ControllerType'
  BY <1>13, BlankType DEF Panic, GoDown, Controller
<1> QED
  BY <1>1, <1>2, <1>3, <1>4, <1>5, <1>6, <1>7, <1>8, <1>9, <1>10, <1>11, <1>12,
     <1>13
  DEF Next, Sync, Work, Call, Start, CreatePool, NewCluster, SaveCertificate,
      SaveMetadata, NewClusterFails, ClusterRemoved, ReadBegin, AlreadyGone,
      Update, Listed, Synced, ClusterWatchEnds, Receive, LookUp, Check,
      AgentChanges, ReadEnd

LEMMA ChannelStep ==
    ASSUME CallType, ChannelType, Next
    PROVE  ChannelType'
<1> DEFINE E == [key : Certs \cup {Agent}, value : Calls \cup {None}]
<1>0. /\ channel \in [Handles -> Seq(E)]
      /\ ChannelType' <=> channel' \in [Handles -> Seq(E)]
      /\ \A n \in Certs \cup {Agent}, v \in Calls \cup {None} : Event(n, v) \in E
      /\ \A k \in Handles :
            /\ \A e \in E : Append(channel[k], e) \in Seq(E)
            /\ channel[k] # <<>> => Tail(channel[k]) \in Seq(E)
            /\ <<>> \in Seq(E)
  <2>1. /\ channel \in [Handles -> Seq(E)]
        /\ ChannelType' <=> channel' \in [Handles -> Seq(E)]
        /\ \A n \in Certs \cup {Agent}, v \in Calls \cup {None} : Event(n, v) \in E
    BY DEF ChannelType, Event
  <2> HIDE DEF E
  <2> QED
    BY <2>1, SeqType
<1> HIDE DEF E
<1>1. CASE UNCHANGED <<channel>>
  BY <1>0, <1>1
<1>2. ASSUME NEW g \in Calls, SaveCertificate(g)
      PROVE  ChannelType'
  BY <1>2, <1>0 DEF SaveCertificate, CallType
<1>3. ASSUME NEW k \in Handles, Receive(k)
      PROVE  ChannelType'
  BY <1>3, <1>0 DEF Receive
<1>4. ASSUME NEW k \in Handles, Cancelled(k)
      PROVE  ChannelType'
  BY <1>4, <1>0 DEF Cancelled, WorkerEnds, Resting
<1>5. ASSUME NEW k \in Handles, WatchEnds(k)
      PROVE  ChannelType'
  BY <1>5, <1>0 DEF WatchEnds, WorkerEnds, Resting, Spend
<1>6. ASSUME NEW k \in Handles, AgentChanges(k)
      PROVE  ChannelType'
  BY <1>6, <1>0 DEF AgentChanges, Spend
<1>7. CASE ServerStops
  BY <1>7, <1>0 DEF ServerStops, Spend, GoDown
<1>8. CASE ReadFails
  BY <1>8, <1>0 DEF ReadFails, Spend, GoDown
<1>9. CASE RegisterFails
  <2>1. CASE server = "syncing"
    BY <1>9, <2>1, <1>0 DEF RegisterFails, Spend, GoDown
  <2>2. CASE server # "syncing"
    BY <1>9, <2>2, <1>0 DEF RegisterFails, Spend, Ready
  <2> QED
    BY <2>1, <2>2
<1>10. ASSUME NEW k \in Handles, Panic(k)
      PROVE  ChannelType'
  BY <1>10, <1>0 DEF Panic, GoDown
<1> QED
  BY <1>1, <1>2, <1>3, <1>4, <1>5, <1>6, <1>7, <1>8, <1>9, <1>10
  DEF Next, Sync, Work, Call, Start, CreatePool, NewCluster, SaveMetadata,
      NewClusterFails, ClusterRemoved, ReadBegin, AlreadyGone, Dispose, Create,
      Update, DisposeEnds, ReadCertificates, Listed, UpdateClusterSettings,
      Synced, ClusterWatchEnds, LookUp, Check, Apply, ReadEnd

LEMMA WorkerStep ==
    ASSUME ChannelType, WorkerType, Next
    PROVE  WorkerType'
<1> USE DEF WorkerType
<1>1. CASE UNCHANGED <<worker>>
  BY <1>1 DEF Resting
<1>2. CASE DisposeEnds
  BY <1>2 DEF DisposeEnds, Ready, Resting, Resting
<1>3. CASE Listed
  BY <1>3 DEF Listed, Ready, Resting, Resting
<1>4. ASSUME NEW k \in Handles, Receive(k)
      PROVE  WorkerType'
  <2>1. Head(channel[k]) \in [key : Certs \cup {Agent}, value : Calls \cup {None}]
    BY <1>4, SeqType DEF Receive, ChannelType
  <2> QED
    BY <1>4, <2>1 DEF Receive
<1>5. ASSUME NEW k \in Handles, LookUp(k)
      PROVE  WorkerType'
  BY <1>5 DEF LookUp, Rest, Resting, WorkerAt, Resting
<1>6. ASSUME NEW k \in Handles, Check(k)
      PROVE  WorkerType'
  BY <1>6 DEF Check, Rest, Resting, WorkerAt, Resting
<1>7. ASSUME NEW k \in Handles, Apply(k)
      PROVE  WorkerType'
  BY <1>7 DEF Apply, Rest, Resting, Resting
<1>8. ASSUME NEW k \in Handles, Cancelled(k)
      PROVE  WorkerType'
  BY <1>8 DEF Cancelled, WorkerEnds, Resting, Resting
<1>9. ASSUME NEW k \in Handles, WatchEnds(k)
      PROVE  WorkerType'
  BY <1>9 DEF WatchEnds, WorkerEnds, Resting, Spend, Resting
<1>10. CASE ServerStops
  BY <1>10 DEF ServerStops, Spend, GoDown, Resting
<1>11. CASE ReadFails
  BY <1>11 DEF ReadFails, Spend, GoDown, Resting
<1>12. CASE RegisterFails
  <2>1. CASE server = "syncing"
    BY <1>12, <2>1 DEF RegisterFails, Spend, GoDown, Resting
  <2>2. CASE server # "syncing"
    BY <1>12, <2>2 DEF RegisterFails, Spend, Ready, Resting
  <2> QED
    BY <2>1, <2>2
<1>13. ASSUME NEW k \in Handles, Panic(k)
      PROVE  WorkerType'
  BY SMTT(60), <1>13 DEF Panic, GoDown, Resting
<1> QED
  BY <1>1, <1>2, <1>3, <1>4, <1>5, <1>6, <1>7, <1>8, <1>9, <1>10, <1>11, <1>12,
     <1>13
  DEF Next, Sync, Work, Call, Start, CreatePool, NewCluster, SaveCertificate,
      SaveMetadata, NewClusterFails, ClusterRemoved, ReadBegin, AlreadyGone,
      Dispose, Create, Update, ReadCertificates, UpdateClusterSettings, Synced,
      ClusterWatchEnds, AgentChanges, ReadEnd

LEMMA OtherStep ==
    ASSUME ManagerType, OtherType, Next
    PROVE  OtherType'
<1> USE DEF OtherType
<1>1. CASE UNCHANGED <<reading, missed, spent>>
  BY <1>1
<1>2. ASSUME NEW g \in Calls, SaveCertificate(g)
      PROVE  OtherType'
  BY <1>2 DEF SaveCertificate, Event
<1>3. ASSUME NEW c \in Clusters, NEW v \in Values, Create(c, v)
      PROVE  OtherType'
  BY <1>3 DEF Create, Taken, Event, NoCerts
<1>4. ASSUME NEW c \in Clusters, ReadBegin(c)
      PROVE  OtherType'
  BY <1>4 DEF ReadBegin, ManagerType
<1>5. CASE ReadEnd
  BY <1>5 DEF ReadEnd
<1>6. ASSUME NEW c \in Clusters, ClusterRemoved(c)
      PROVE  OtherType'
  BY SMTT(60), <1>6 DEF ClusterRemoved, Spend, PutMetadata, Event, NoCerts
<1>7. CASE ClusterWatchEnds
  BY SMTT(60), <1>7 DEF ClusterWatchEnds, Spend
<1>8. ASSUME NEW k \in Handles, WatchEnds(k)
      PROVE  OtherType'
  BY SMTT(60), <1>8 DEF WatchEnds, WorkerEnds, Resting, Spend
<1>9. ASSUME NEW k \in Handles, AgentChanges(k)
      PROVE  OtherType'
  BY SMTT(60), <1>9 DEF AgentChanges, Spend, Event
<1>10. CASE ServerStops
  BY SMTT(60), <1>10 DEF ServerStops, Spend, GoDown
<1>11. CASE ReadFails
  BY SMTT(60), <1>11 DEF ReadFails, Spend, GoDown
<1>12. CASE RegisterFails
  <2>1. spent' \in [Faults -> Nat]
    BY <1>12 DEF RegisterFails, Spend
  <2>2. CASE server = "syncing"
    BY <1>12, <2>1, <2>2 DEF RegisterFails, GoDown
  <2>3. CASE server # "syncing"
    BY <1>12, <2>1, <2>3 DEF RegisterFails
  <2> QED
    BY <2>2, <2>3
<1>13. ASSUME NEW k \in Handles, Panic(k)
      PROVE  OtherType'
  BY <1>13 DEF Panic, GoDown
<1> QED
  BY <1>1, <1>2, <1>3, <1>4, <1>5, <1>6, <1>7, <1>8, <1>9, <1>10, <1>11, <1>12,
     <1>13
  DEF Next, Sync, Work, Call, Start, CreatePool, NewCluster, SaveMetadata,
      NewClusterFails, AlreadyGone, Dispose, Update, DisposeEnds,
      ReadCertificates, Listed, UpdateClusterSettings, Synced, Receive, LookUp,
      Check, Apply, Cancelled

LEMMA LinkedStep ==
    ASSUME TypeOK, SyncOK, LifeCycle, Next
    PROVE  Linked'
<1>0. ManagerType /\ ControllerType /\ SyncType /\ Linked
  BY TypeParts
<1> USE DEF Linked
<1>1. CASE UNCHANGED <<listed, ctl>>
  BY <1>0, Lives, BlankType, <1>1 DEF ManagerType, ControllerType, Controller
<1>2. ASSUME NEW c \in Clusters, Dispose(c)
      PROVE  Linked'
  BY <1>2, <1>0, Lives, BlankType
  DEF Dispose, Taken, Event, ManagerType, ControllerType, Controller
<1>3. ASSUME NEW c \in Clusters, NEW v \in Values, Create(c, v)
      PROVE  Linked'
  BY <1>3, <1>0, Lives, BlankType
  DEF Create, Taken, Event, NoCerts, ManagerType, ControllerType, Controller
<1>4. CASE DisposeEnds
  BY <1>4, <1>0, Lives, BlankType
  DEF DisposeEnds, Ready, Resting, ManagerType, ControllerType, Controller,
      Findable, SyncOK, SyncType
<1>5. CASE ReadCertificates
  BY <1>5, <1>0, Lives, BlankType
  DEF ReadCertificates, ManagerType, ControllerType, Controller, SyncType
<1>6. CASE Listed
  BY <1>6, <1>0, Lives, BlankType
  DEF Listed, Ready, Resting, ManagerType, ControllerType, Controller,
      Creating, SyncOK, SyncType
<1>7. CASE UpdateClusterSettings
  BY <1>7, <1>0, Lives, BlankType
  DEF UpdateClusterSettings, Ready, ManagerType, ControllerType, Controller,
      SyncType
<1>8. ASSUME NEW k \in Handles, Apply(k)
      PROVE  Linked'
  BY <1>8, <1>0, Lives, BlankType
  DEF Apply, Rest, Resting, ManagerType, ControllerType, Controller
<1>9. ASSUME NEW k \in Handles, Cancelled(k)
      PROVE  Linked'
  BY <1>9, <1>0, Lives, BlankType
  DEF Cancelled, WorkerEnds, Resting, ManagerType, ControllerType, Controller,
      Findable, NotListed
<1>10. ASSUME NEW k \in Handles, WatchEnds(k)
      PROVE  Linked'
  BY <1>10, <1>0, Lives, BlankType
  DEF WatchEnds, WorkerEnds, Resting, Spend, ManagerType, ControllerType,
      Controller, Findable, NotListed
<1>11. CASE ServerStops
  BY <1>11, <1>0, Lives, BlankType
  DEF ServerStops, Spend, GoDown, ManagerType, ControllerType, Controller
<1>12. CASE ReadFails
  BY <1>12, <1>0, Lives, BlankType
  DEF ReadFails, Spend, GoDown, ManagerType, ControllerType, Controller
<1>13. CASE RegisterFails
  <2>1. CASE server = "syncing"
    BY <1>13, <2>1, <1>0, Lives, BlankType
    DEF RegisterFails, Spend, GoDown, ManagerType, ControllerType, Controller,
        SyncOK, Creating, SyncType
  <2>2. CASE server # "syncing"
    BY <1>13, <2>2, <1>0, Lives, BlankType
    DEF RegisterFails, Spend, Ready, ManagerType, ControllerType, Controller,
        SyncOK, Creating, SyncType
  <2> QED
    BY <2>1, <2>2
<1>14. ASSUME NEW k \in Handles, Panic(k)
      PROVE  Linked'
  BY <1>14, <1>0, Lives, BlankType
  DEF Panic, GoDown, ManagerType, ControllerType, Controller
<1> QED
  BY <1>1, <1>2, <1>3, <1>4, <1>5, <1>6, <1>7, <1>8, <1>9, <1>10, <1>11, <1>12,
     <1>13, <1>14
  DEF Next, Sync, Work, Call, Start, CreatePool, NewCluster, SaveCertificate,
      SaveMetadata, NewClusterFails, ClusterRemoved, ReadBegin, AlreadyGone,
      Update, Synced, ClusterWatchEnds, Receive, LookUp, Check, AgentChanges,
      ReadEnd

-----------------------------------------------------------------------------
(* The registry of the manager, the controllers and their goroutines *)

LEMMA TypeStep ==
    ASSUME TypeOK, SyncOK, LifeCycle, Certified, Next
    PROVE  TypeOK'
<1>1. TypeOK => /\ StoreType /\ CallType /\ NewsType /\ SyncType /\ ManagerType
                /\ ControllerType /\ ChannelType /\ WorkerType /\ OtherType
  BY TypeParts
<1>2. /\ StoreType' /\ CallType' /\ NewsType' /\ SyncType' /\ ManagerType'
      /\ ControllerType' /\ ChannelType' /\ WorkerType' /\ OtherType' /\ Linked'
  BY ZenonT(60), <1>1, StoreStep, CallStep, NewsStep, SyncStep, ManagerStep, ControllerStep,
     ChannelStep, WorkerStep, OtherStep, LinkedStep
<1> QED
  BY <1>2, TypeParts, PTL

LEMMA SyncOKStep ==
    ASSUME TypeOK, SyncOK, LifeCycle, ServerOK, Next
    PROVE  SyncOK'
<1>0. SyncType /\ ManagerType /\ Linked
  BY TypeParts
<1> USE DEF SyncOK, Ready
<1>1. CASE UNCHANGED <<sync, listed>>
  BY <1>0, <1>1
<1>2. ASSUME NEW c \in Clusters, Dispose(c)
      PROVE  SyncOK'
  BY <1>2, <1>0 DEF Dispose, Taken, Event, SyncType, ManagerType
<1>3. ASSUME NEW c \in Clusters, NEW v \in Values, Create(c, v)
      PROVE  SyncOK'
  BY <1>3, <1>0 DEF Create, Taken, Event, NoCerts, SyncType, ManagerType
<1>4. ASSUME NEW c \in Clusters, NEW v \in Values, Update(c, v)
      PROVE  SyncOK'
  BY <1>4, <1>0 DEF Update, Taken, Event, SyncType, ManagerType
<1>5. CASE DisposeEnds
  BY <1>5, <1>0 DEF DisposeEnds, Ready, Resting
<1>6. CASE ReadCertificates
  BY <1>6, <1>0 DEF ReadCertificates, SyncType, ManagerType
<1>7. CASE Listed
  BY <1>7, <1>0 DEF Listed, Ready, Resting
<1>8. CASE UpdateClusterSettings
  BY <1>8, <1>0 DEF UpdateClusterSettings, Ready
<1>9. CASE ServerStops
  BY <1>9, <1>0 DEF ServerStops, Spend, GoDown
<1>10. CASE ReadFails
  BY <1>10, <1>0 DEF ReadFails, Spend, GoDown
<1>11. CASE RegisterFails
  <2>1. CASE server = "syncing"
    BY <1>11, <2>1, <1>0 DEF RegisterFails, Spend, GoDown
  <2>2. CASE server # "syncing"
    BY <1>11, <2>2, <1>0 DEF RegisterFails, Spend, Ready
  <2> QED
    BY <2>1, <2>2
<1>12. ASSUME NEW k \in Handles, Panic(k)
      PROVE  SyncOK'
  BY ZenonT(60), <1>12, <1>0 DEF Panic, GoDown
<1> QED
  BY <1>1, <1>2, <1>3, <1>4, <1>5, <1>6, <1>7, <1>8, <1>9, <1>10, <1>11, <1>12
  DEF Next, Sync, Work, Call, Start, CreatePool, NewCluster, SaveCertificate,
      SaveMetadata, NewClusterFails, ClusterRemoved, ReadBegin, AlreadyGone,
      Synced, ClusterWatchEnds, Receive, LookUp, Check, Apply, Cancelled,
      WatchEnds, AgentChanges, ReadEnd

LEMMA ServerOKStep ==
    ASSUME TypeOK, SyncOK, ServerOK, Next
    PROVE  ServerOK'
<1>0. ManagerType
  BY TypeParts
<1> USE DEF ServerOK, Running
<1>1. CASE UNCHANGED <<server, watching, sync, listed, todo>>
  BY <1>0, <1>1 DEF SyncOK, Ready, ManagerType
<1>2. CASE Start
  BY <1>2, <1>0 DEF Start, SyncOK, Ready, ManagerType
<1>3. CASE CreatePool
  BY <1>3, <1>0 DEF CreatePool, PutMetadata, Event, SyncOK, Ready, ManagerType
<1>4. CASE Synced
  BY <1>4, <1>0 DEF Synced, SyncOK, Ready, ManagerType
<1>5. ASSUME NEW c \in Clusters, AlreadyGone(c)
      PROVE  ServerOK'
  BY <1>5, <1>0 DEF AlreadyGone, Taken, Event, SyncOK, Ready, ManagerType
<1>6. ASSUME NEW c \in Clusters, Dispose(c)
      PROVE  ServerOK'
  BY <1>6, <1>0 DEF Dispose, Taken, Event, SyncOK, Ready, ManagerType
<1>7. ASSUME NEW c \in Clusters, NEW v \in Values, Create(c, v)
      PROVE  ServerOK'
  BY <1>7, <1>0 DEF Create, Taken, Event, NoCerts, SyncOK, Ready, ManagerType
<1>8. ASSUME NEW c \in Clusters, NEW v \in Values, Update(c, v)
      PROVE  ServerOK'
  BY <1>8, <1>0 DEF Update, Taken, Event, SyncOK, Ready, ManagerType
<1>9. CASE DisposeEnds
  BY <1>9, <1>0 DEF DisposeEnds, Ready, Resting, SyncOK, Ready, ManagerType
<1>10. CASE ReadCertificates
  BY <1>10, <1>0 DEF ReadCertificates, SyncOK, Ready, ManagerType
<1>11. CASE Listed
  BY <1>11, <1>0 DEF Listed, Ready, Resting, SyncOK, Ready, ManagerType
<1>12. CASE UpdateClusterSettings
  BY <1>12, <1>0 DEF UpdateClusterSettings, Ready, SyncOK, Ready, ManagerType
<1>13. CASE ClusterWatchEnds
  BY <1>13, <1>0 DEF ClusterWatchEnds, Spend, SyncOK, Ready, ManagerType
<1>14. CASE ServerStops
  BY <1>14, <1>0 DEF ServerStops, Spend, GoDown, SyncOK, Ready, ManagerType
<1>15. CASE ReadFails
  BY <1>15, <1>0 DEF ReadFails, Spend, GoDown, SyncOK, Ready, ManagerType
<1>16. CASE RegisterFails
  <2>1. CASE server = "syncing"
    BY <1>16, <2>1, <1>0
    DEF RegisterFails, Spend, GoDown, SyncOK, Ready, ManagerType
  <2>2. CASE server # "syncing"
    BY <1>16, <2>2, <1>0
    DEF RegisterFails, Spend, Ready, SyncOK, Ready, ManagerType
  <2> QED
    BY <2>1, <2>2
<1>17. ASSUME NEW k \in Handles, Panic(k)
      PROVE  ServerOK'
  BY <1>17, <1>0 DEF Panic, GoDown, SyncOK, Ready, ManagerType
<1> QED
  BY <1>1, <1>2, <1>3, <1>4, <1>5, <1>6, <1>7, <1>8, <1>9, <1>10, <1>11, <1>12,
     <1>13, <1>14, <1>15, <1>16, <1>17
  DEF Next, Sync, Work, Call, NewCluster, SaveCertificate, SaveMetadata,
      NewClusterFails, ClusterRemoved, ReadBegin, Receive, LookUp, Check,
      Apply, Cancelled, WatchEnds, AgentChanges, ReadEnd

LEMMA AppendAt ==
    ASSUME NEW S, NEW s \in Seq(S), NEW e \in S
    PROVE  \A i \in DOMAIN Append(s, e) :
              Append(s, e)[i] = e \/ (i \in DOMAIN s /\ Append(s, e)[i] = s[i])
<1> DEFINE t == Append(s, e)
<1>1. /\ DOMAIN s = 1..Len(s) /\ DOMAIN t = 1..Len(s) + 1 /\ Len(s) \in Nat
      /\ t[Len(s) + 1] = e /\ \A j \in 1..Len(s) : t[j] = s[j]
  OBVIOUS
<1> HIDE DEF t
<1>2. \A i \in DOMAIN t : i = Len(s) + 1 \/ i \in 1..Len(s)
  BY <1>1
<1>3. \A i \in DOMAIN t : t[i] = e \/ (i \in DOMAIN s /\ t[i] = s[i])
  BY <1>1, <1>2
<1> QED
  BY <1>3 DEF t

LEMMA TailAt ==
    ASSUME NEW S, NEW s \in Seq(S), s # <<>>
    PROVE  /\ 1 \in DOMAIN s /\ Head(s) = s[1]
           /\ \A i \in DOMAIN Tail(s) : i + 1 \in DOMAIN s /\ Tail(s)[i] = s[i + 1]
  BY SMTT(60)

LEMMA EventsOKStep ==
    ASSUME TypeOK, SyncOK, LifeCycle, EventsOK, Next
    PROVE  EventsOK'
<1>0. CallType /\ ChannelType /\ WorkerType
  BY TypeParts
<1> USE DEF EventsOK
<1>1. CASE UNCHANGED <<channel, worker>>
  BY <1>0, <1>1 DEF WorkerType
<1>2. ASSUME NEW g \in Calls, SaveCertificate(g)
      PROVE  EventsOK'
  <2> SUFFICES ASSUME NEW k \in Handles
               PROVE  /\ \A i \in DOMAIN channel'[k] :
                            channel'[k][i].key \in Certs =>
                                channel'[k][i].value \in Calls
                      /\ worker[k].pc = "ended" => channel'[k] = <<>>
    BY SMTT(60), <1>2 DEF SaveCertificate
  <2>1. PICK n \in Certs :
           channel'[k] = IF Watched(k) /\ ctl[k].cluster = call[g].cluster
                         THEN Append(channel[k], Event(n, g)) ELSE channel[k]
    BY <1>2, <1>0 DEF SaveCertificate, CallType
  <2>2. CASE channel'[k] = Append(channel[k], Event(n, g)) /\ Watched(k)
    <3>1. Event(n, g) \in [key : Certs \cup {Agent}, value : Calls \cup {None}]
      BY DEF Event
    <3>2. \A i \in DOMAIN channel'[k] : \/ channel'[k][i] = Event(n, g)
                                       \/ /\ i \in DOMAIN channel[k]
                                          /\ channel'[k][i] = channel[k][i]
      BY <1>0, <2>2, <3>1, AppendAt DEF ChannelType
    <3> QED
      BY SMTT(60), <2>2, <3>2 DEF Watched, Event
  <2> QED
    BY <2>1, <2>2
<1>3. CASE DisposeEnds
  BY <1>3, <1>0 DEF DisposeEnds, Ready, Resting, WorkerType
<1>4. CASE Listed
  BY <1>4, <1>0 DEF Listed, Ready, Resting, WorkerType
<1>5. ASSUME NEW k \in Handles, Receive(k)
      PROVE  EventsOK'
  <2>1. /\ 1 \in DOMAIN channel[k] /\ Head(channel[k]) = channel[k][1]
        /\ \A i \in DOMAIN Tail(channel[k]) :
              /\ i + 1 \in DOMAIN channel[k]
              /\ Tail(channel[k])[i] = channel[k][i + 1]
    BY <1>5, <1>0, TailAt DEF Receive, ChannelType
  <2>2. channel'[k] = Tail(channel[k]) /\ \A h \in Handles \ {k} : channel'[h] = channel[h]
    BY <1>5, <1>0 DEF Receive, ChannelType
  <2>3. /\ worker'[k].key = channel[k][1].key /\ worker'[k].value = channel[k][1].value
        /\ worker'[k].pc \in {"lookup", "check"}
        /\ worker'[k].pc = "lookup" => worker'[k].key = Agent
        /\ \A h \in Handles \ {k} : worker'[h] = worker[h]
    BY <1>5, <1>0, <2>1 DEF Receive, WorkerType
  <2>4. ASSUME NEW h \in Handles \ {k}
        PROVE  /\ \A i \in DOMAIN channel'[h] :
                     channel'[h][i].key \in Certs => channel'[h][i].value \in Calls
               /\ worker'[h].key \in Certs =>
                     worker'[h].pc \in {"check", "apply"} /\ worker'[h].value \in Calls
               /\ worker'[h].pc = "ended" => channel'[h] = <<>>
    BY <2>2, <2>3, <2>4
  <2>5. \A i \in DOMAIN channel'[k] :
           channel'[k][i].key \in Certs => channel'[k][i].value \in Calls
    BY <2>1, <2>2
  <2>6. /\ worker'[k].key \in Certs =>
              worker'[k].pc \in {"check", "apply"} /\ worker'[k].value \in Calls
        /\ worker'[k].pc # "ended"
    BY <2>1, <2>3
  <2> QED
    BY <2>4, <2>5, <2>6
<1>6. ASSUME NEW k \in Handles, LookUp(k)
      PROVE  EventsOK'
  BY SMTT(60), <1>6, <1>0 DEF LookUp, Rest, Resting, WorkerAt, WorkerType
<1>7. ASSUME NEW k \in Handles, Check(k)
      PROVE  EventsOK'
  BY <1>7, <1>0 DEF Check, Rest, Resting, WorkerAt, WorkerType
<1>8. ASSUME NEW k \in Handles, Apply(k)
      PROVE  EventsOK'
  BY <1>8, <1>0 DEF Apply, Rest, Resting, WorkerType
<1>9. ASSUME NEW k \in Handles, Cancelled(k)
      PROVE  EventsOK'
  BY <1>9, <1>0 DEF Cancelled, WorkerEnds, Resting, WorkerType
<1>10. ASSUME NEW k \in Handles, WatchEnds(k)
      PROVE  EventsOK'
  <2>1. /\ channel'[k] = <<>> /\ \A h \in Handles \ {k} : channel'[h] = channel[h]
        /\ worker'[k] \in {Resting("none"), Resting("ended")}
        /\ \A h \in Handles \ {k} : worker'[h] = worker[h]
    BY <1>10, <1>0 DEF WatchEnds, WorkerEnds, ChannelType, WorkerType
  <2> QED
    BY <2>1 DEF Resting
<1>11. ASSUME NEW k \in Handles, AgentChanges(k)
      PROVE  EventsOK'
  <2> SUFFICES ASSUME NEW h \in Handles
               PROVE  /\ \A i \in DOMAIN channel'[h] :
                            channel'[h][i].key \in Certs =>
                                channel'[h][i].value \in Calls
                      /\ worker[h].pc = "ended" => channel'[h] = <<>>
    BY <1>11 DEF AgentChanges
  <2>1. CASE h # k
    BY <1>11, <1>0, <2>1 DEF AgentChanges, ChannelType
  <2>2. CASE h = k
    <3>1. /\ Event(Agent, None) \in [key : Certs \cup {Agent},
                                     value : Calls \cup {None}]
          /\ Event(Agent, None).key = Agent
      BY DEF Event
    <3>2. channel'[k] = Append(channel[k], Event(Agent, None)) /\ Watched(k)
      BY <1>11, <1>0 DEF AgentChanges, ChannelType
    <3>3. \A i \in DOMAIN channel'[k] : \/ channel'[k][i] = Event(Agent, None)
                                       \/ /\ i \in DOMAIN channel[k]
                                          /\ channel'[k][i] = channel[k][i]
      BY <1>0, <3>1, <3>2, AppendAt DEF ChannelType
    <3> QED
      BY SMTT(60), <2>2, <3>1, <3>2, <3>3 DEF Watched
  <2> QED
    BY <2>1, <2>2
<1>12. CASE ServerStops
  BY <1>12, <1>0 DEF ServerStops, Spend, GoDown, WorkerType, Resting
<1>13. CASE ReadFails
  BY <1>13, <1>0 DEF ReadFails, Spend, GoDown, WorkerType, Resting
<1>14. CASE RegisterFails
  <2>1. CASE server = "syncing"
    BY <1>14, <2>1, <1>0 DEF RegisterFails, Spend, GoDown, WorkerType, Resting
  <2>2. CASE server # "syncing"
    BY <1>14, <2>2, <1>0 DEF RegisterFails, Spend, Ready, WorkerType, Resting
  <2> QED
    BY <2>1, <2>2
<1>15. ASSUME NEW k \in Handles, Panic(k)
      PROVE  EventsOK'
  BY SMTT(60), <1>15, <1>0 DEF Panic, GoDown, WorkerType, Resting
<1> QED
  BY <1>1, <1>2, <1>3, <1>4, <1>5, <1>6, <1>7, <1>8, <1>9, <1>10, <1>11, <1>12,
     <1>13, <1>14, <1>15
  DEF Next, Sync, Work, Call, Start, CreatePool, NewCluster, SaveMetadata,
      NewClusterFails, ClusterRemoved, ReadBegin, AlreadyGone, Dispose, Create,
      Update, ReadCertificates, UpdateClusterSettings, Synced,
      ClusterWatchEnds, ReadEnd

LEMMA LifeCycleStep ==
    ASSUME TypeOK, SyncOK, LifeCycle, EventsOK, Next
    PROVE  LifeCycle'
<1> DEFINE Types == SyncType /\ ManagerType /\ ControllerType /\ ChannelType
                    /\ WorkerType /\ Linked
<1>0. Types /\ \A k \in Handles : Life(k)
  BY TypeParts DEF LifeCycle
<1> USE DEF LifeCycle, Life, Free, Creating, Findable, Left, NotListed, Watched
<1>1. CASE UNCHANGED <<ctl, worker, channel, sync, listed>>
  BY <1>0, BlankType, <1>1
  DEF SyncOK, SyncType, ManagerType, ControllerType, ChannelType, WorkerType,
      Linked, Ready, Resting
<1>2. ASSUME NEW g \in Calls, SaveCertificate(g)
      PROVE  LifeCycle'
  BY SMTT(150), <1>2, <1>0, BlankType
  DEF SaveCertificate, Event, SyncOK, SyncType, ManagerType, ControllerType,
      ChannelType, WorkerType, Linked, Ready, Resting
<1>3. ASSUME NEW c \in Clusters, Dispose(c)
      PROVE  LifeCycle'
  BY SMTT(150), <1>3, <1>0, BlankType
  DEF Dispose, Taken, Event, SyncOK, SyncType, ManagerType, ControllerType,
      ChannelType, WorkerType, Linked, Ready, Resting
<1>4. ASSUME NEW c \in Clusters, NEW v \in Values, Create(c, v)
      PROVE  LifeCycle'
  BY SMTT(150), <1>4, <1>0, BlankType
  DEF Create, Taken, Event, NoCerts, SyncOK, SyncType, ManagerType,
      ControllerType, ChannelType, WorkerType, Linked, Ready, Resting
<1>5. ASSUME NEW c \in Clusters, NEW v \in Values, Update(c, v)
      PROVE  LifeCycle'
  BY <1>5, <1>0, BlankType
  DEF Update, Taken, Event, SyncOK, SyncType, ManagerType, ControllerType,
      ChannelType, WorkerType, Linked, Ready, Resting
<1>6. CASE DisposeEnds
  <2> DEFINE k == sync.ctl
  <2> SUFFICES ASSUME NEW h \in Handles
               PROVE  Life(h)'
    OBVIOUS
  <2>1. Findable(k) /\ k \in Handles /\ listed[sync.cluster] = k
    BY SMTT(150), <1>6, Lives DEF DisposeEnds, SyncOK
  <2>2. CASE h # k
    BY <1>6, <1>0, <2>1, <2>2
    DEF DisposeEnds, SyncOK, SyncType, ManagerType, ControllerType,
       ChannelType, WorkerType, Linked, Ready, Resting
  <2>3. CASE h = k /\ worker[k].pc = "ended"
    BY <1>6, <1>0, <2>1, <2>3
    DEF DisposeEnds, EventsOK, SyncOK, SyncType, ManagerType, ControllerType,
       ChannelType, WorkerType, Linked, Ready, Resting
  <2>4. CASE h = k /\ worker[k].pc # "ended"
    BY SMTT(150), <1>6, <1>0, <2>1, <2>4
    DEF DisposeEnds, SyncOK, SyncType, ManagerType, ControllerType,
       ChannelType, WorkerType, Linked, Ready, Resting
  <2> QED
    BY <2>2, <2>3, <2>4
<1>7. CASE ReadCertificates
  BY SMTT(150), <1>7, <1>0, BlankType
  DEF ReadCertificates, SyncOK, SyncType, ManagerType, ControllerType,
      ChannelType, WorkerType, Linked, Ready, Resting
<1>8. CASE Listed
  BY <1>8, <1>0, BlankType
  DEF Listed, Ready, Resting, SyncOK, SyncType, ManagerType, ControllerType,
      ChannelType, WorkerType, Linked, Ready, Resting
<1>9. CASE UpdateClusterSettings
  BY <1>9, <1>0, BlankType
  DEF UpdateClusterSettings, Ready, SyncOK, SyncType, ManagerType,
      ControllerType, ChannelType, WorkerType, Linked, Ready, Resting
<1>10. ASSUME NEW k \in Handles, Receive(k)
      PROVE  LifeCycle'
  BY SMTT(150), <1>10, <1>0, BlankType
  DEF Receive, SyncOK, SyncType, ManagerType, ControllerType, ChannelType,
      WorkerType, Linked, Ready, Resting
<1>11. ASSUME NEW k \in Handles, LookUp(k)
      PROVE  LifeCycle'
  <2>1. /\ worker' \in [Handles -> [pc : {"none", "idle", "lookup", "check", "apply",
                                      "ended"},
                                key : Certs \cup {Agent, None},
                                value : Calls \cup {None}]]
        /\ \A h \in Handles : h # k => worker'[h] = worker[h]
        /\ worker[k].pc = "lookup" /\ worker'[k].pc \in {"idle", "check"}
    BY <1>11, <1>0 DEF LookUp, Rest, Resting, WorkerAt, WorkerType
  <2> QED
    BY <1>11, <1>0, <2>1, BlankType DEF LookUp, Resting
<1>12. ASSUME NEW k \in Handles, Check(k)
      PROVE  LifeCycle'
  BY <1>12, <1>0, BlankType
  DEF Check, Rest, Resting, WorkerAt, SyncOK, SyncType, ManagerType,
      ControllerType, ChannelType, WorkerType, Linked, Ready, Resting
<1>13. ASSUME NEW k \in Handles, Apply(k)
      PROVE  LifeCycle'
  <2>1. /\ worker' = [worker EXCEPT ![k] = Resting("idle")]
        /\ worker[k].pc = "apply"
        /\ UNCHANGED <<server, sync, listed, channel>>
        /\ \A h \in Handles :
              /\ ctl'[h].cluster = ctl[h].cluster
              /\ ctl'[h].settings = ctl[h].settings
              /\ ctl'[h].disposed = ctl[h].disposed
              /\ ctl'[h].cache = ctl[h].cache
              /\ h # k => ctl'[h] = ctl[h]
    <3>1. CASE ctl' = ctl
      BY <1>13, <1>0, <3>1 DEF Apply, Rest, ControllerType
    <3>2. CASE ctl' = [ctl EXCEPT ![k].certs[worker[k].key] = worker[k].value]
               /\ worker[k].key # Agent
      BY <1>13, <1>0, <3>2 DEF Apply, Rest, ControllerType, Controller
    <3> QED
      BY <1>13, <3>1, <3>2 DEF Apply
  <2>2. ASSUME NEW h \in Handles
        PROVE  Life(h)'
    <3>1. CASE h # k
      BY <1>0, <2>1, <3>1
    <3>2. CASE h = k
      BY <1>0, <2>1, <3>2 DEF WorkerType, Resting
    <3> QED
      BY <3>1, <3>2
  <2> QED
    BY <2>2
<1>14. ASSUME NEW k \in Handles, Cancelled(k)
      PROVE  LifeCycle'
  BY <1>14, <1>0, BlankType
  DEF Cancelled, WorkerEnds, Resting, SyncOK, SyncType, ManagerType,
      ControllerType, ChannelType, WorkerType, Linked, Ready, Resting
<1>15. ASSUME NEW k \in Handles, WatchEnds(k)
      PROVE  LifeCycle'
  BY SMTT(150), <1>15, <1>0, BlankType
  DEF WatchEnds, WorkerEnds, Resting, Spend, SyncOK, SyncType, ManagerType,
      ControllerType, ChannelType, WorkerType, Linked, Ready, Resting
<1>16. ASSUME NEW k \in Handles, AgentChanges(k)
      PROVE  LifeCycle'
  BY SMTT(150), <1>16, <1>0, BlankType
  DEF AgentChanges, Spend, Event, SyncOK, SyncType, ManagerType,
      ControllerType, ChannelType, WorkerType, Linked, Ready, Resting
<1>17. CASE ServerStops
  BY <1>17, <1>0, BlankType
  DEF ServerStops, Spend, GoDown, SyncOK, SyncType, ManagerType,
      ControllerType, ChannelType, WorkerType, Linked, Ready, Resting
<1>18. CASE ReadFails
  BY <1>18, <1>0, BlankType
  DEF ReadFails, Spend, GoDown, SyncOK, SyncType, ManagerType, ControllerType,
      ChannelType, WorkerType, Linked, Ready, Resting
<1>19. CASE RegisterFails
  <2>1. CASE server = "syncing"
    BY <1>19, <2>1, <1>0, BlankType
    DEF RegisterFails, Spend, GoDown, SyncOK, SyncType, ManagerType,
        ControllerType, ChannelType, WorkerType, Linked, Ready, Resting
  <2>2. CASE server # "syncing"
    BY SMTT(150), <1>19, <2>2, <1>0, BlankType
    DEF RegisterFails, Spend, Ready, SyncOK, SyncType, ManagerType,
        ControllerType, ChannelType, WorkerType, Linked, Ready, Resting
  <2> QED
    BY <2>1, <2>2
<1>20. ASSUME NEW k \in Handles, Panic(k)
      PROVE  LifeCycle'
  BY SMTT(60), <1>20, <1>0, BlankType
  DEF Panic, GoDown, SyncOK, SyncType, ManagerType, ControllerType,
      ChannelType, WorkerType, Linked, Ready, Resting
<1> QED
  BY <1>1, <1>2, <1>3, <1>4, <1>5, <1>6, <1>7, <1>8, <1>9, <1>10, <1>11, <1>12,
     <1>13, <1>14, <1>15, <1>16, <1>17, <1>18, <1>19, <1>20
  DEF Next, Sync, Work, Call, Start, CreatePool, NewCluster, SaveMetadata,
      NewClusterFails, ClusterRemoved, ReadBegin, AlreadyGone, Synced,
      ClusterWatchEnds, ReadEnd

-----------------------------------------------------------------------------
(* The last word on a cluster *)

LEMMA CertifiedStep ==
    ASSUME TypeOK, Certified, Next
    PROVE  Certified'
<1>0. StoreType /\ CallType
  BY TypeParts
<1> USE DEF Certified, StoreType, CallType
<1>1. CASE UNCHANGED <<meta, certs, call>>
  BY <1>0, <1>1 DEF NotCalled
<1>2. ASSUME NEW g \in Calls, NEW c \in Clusters \ {Pool}, NewCluster(g, c)
      PROVE  Certified'
  BY <1>2, <1>0 DEF NewCluster, NotCalled
<1>3. ASSUME NEW g \in Calls, SaveCertificate(g)
      PROVE  Certified'
  <2> DEFINE c == call[g].cluster
  <2>1. PICK n \in call[g].left :
           /\ certs' = [certs EXCEPT ![c][n] = g]
           /\ call' = [call EXCEPT ![g].left = @ \ {n}]
    BY <1>3 DEF SaveCertificate
  <2>2. meta' = meta /\ c \in Clusters \ {Pool} /\ n \in Certs
    BY <1>3, <1>0 DEF SaveCertificate
  <2>3. ASSUME NEW d \in Clusters, NEW m \in Certs
        PROVE  certs'[d][m] = IF d = c /\ m = n THEN g ELSE certs[d][m]
    BY <1>0, <2>1, <2>2
  <2>4. ASSUME NEW h \in Calls
        PROVE  /\ call'[h].pc = call[h].pc /\ call'[h].cluster = call[h].cluster
               /\ call'[h].left = IF h = g THEN call[h].left \ {n} ELSE call[h].left
    <3>1. CASE h = g
      BY <1>0, <2>1, <3>1
    <3>2. CASE h # g
      BY <1>0, <2>1, <3>2
    <3> QED
      BY <3>1, <3>2
  <2>5. ASSUME NEW d \in Clusters, NEW m \in Certs, certs[d][m] # None
        PROVE  certs'[d][m] # None
    <3>1. certs'[d][m] = g \/ certs'[d][m] = certs[d][m]
      BY <2>3
    <3> QED
      BY <2>5, <3>1 DEF Values
  <2>6. \A d \in Clusters \ {Pool} :
           meta'[d] # None => \A m \in Certs : certs'[d][m] # None
    BY <2>2, <2>5
  <2>7. ASSUME NEW h \in Calls, call'[h].pc = "saving"
        PROVE  /\ call'[h].cluster \in Clusters \ {Pool}
               /\ \A m \in Certs \ call'[h].left : certs'[call'[h].cluster][m] # None
    <3>1. CASE h = g
      <4>1. call[g].pc = "saving" /\ call'[h].cluster = c /\ call'[h].left = call[g].left \ {n}
        BY <1>3, <2>4, <3>1 DEF SaveCertificate
      <4>2. ASSUME NEW m \in Certs \ (call[g].left \ {n})
            PROVE  certs'[c][m] # None
        <5>1. CASE m = n
          BY <2>2, <2>3, <5>1 DEF Values
        <5>2. CASE m # n
          BY <2>2, <2>5, <4>1, <5>2
        <5> QED
          BY <5>1, <5>2
      <4> QED
        BY <2>2, <4>1, <4>2
    <3>2. CASE h # g
      <4>1. /\ call[h].pc = "saving" /\ call'[h].cluster = call[h].cluster
            /\ call'[h].left = call[h].left
        BY <2>4, <2>7, <3>2
      <4>2. /\ call[h].cluster \in Clusters \ {Pool}
            /\ \A m \in Certs \ call[h].left : certs[call[h].cluster][m] # None
        BY <4>1
      <4> QED
        BY <4>1, <4>2, <2>5
    <3> QED
      BY <3>1, <3>2
  <2> QED
    BY <2>6, <2>7
<1>4. ASSUME NEW g \in Calls, SaveMetadata(g)
      PROVE  Certified'
  BY <1>4, <1>0 DEF SaveMetadata, PutMetadata, Event, NotCalled, NotCalled
<1>5. ASSUME NEW g \in Calls, NewClusterFails(g)
      PROVE  Certified'
  BY <1>5, <1>0 DEF NewClusterFails, NotCalled, NotCalled
<1>6. CASE CreatePool
  BY <1>6, <1>0 DEF CreatePool, PutMetadata, Event, NotCalled
<1>7. ASSUME NEW c \in Clusters, ClusterRemoved(c)
      PROVE  Certified'
  BY <1>7, <1>0
  DEF ClusterRemoved, Spend, PutMetadata, Event, NoCerts, NotCalled
<1>8. CASE ServerStops
  BY <1>8, <1>0 DEF ServerStops, Spend, GoDown, NotCalled
<1>9. CASE ReadFails
  BY <1>9, <1>0 DEF ReadFails, Spend, GoDown, NotCalled
<1>10. CASE RegisterFails
  <2>1. CASE server = "syncing"
    BY SMTT(60), <1>10, <2>1, <1>0 DEF RegisterFails, Spend, GoDown, NotCalled
  <2>2. CASE server # "syncing"
    BY <1>10, <2>2, <1>0 DEF RegisterFails, Spend, Ready, NotCalled
  <2> QED
    BY <2>1, <2>2
<1>11. ASSUME NEW k \in Handles, Panic(k)
      PROVE  Certified'
  BY <1>11, <1>0 DEF Panic, GoDown, NotCalled
<1> QED
  BY <1>1, <1>2, <1>3, <1>4, <1>5, <1>6, <1>7, <1>8, <1>9, <1>10, <1>11
  DEF Next, Sync, Work, Call, Start, ReadBegin, AlreadyGone, Dispose, Create,
      Update, DisposeEnds, ReadCertificates, Listed, UpdateClusterSettings,
      Synced, ClusterWatchEnds, Receive, LookUp, Check, Apply, Cancelled,
      WatchEnds, AgentChanges, ReadEnd

\* A write is the last word.
LEMMA PutStep ==
    ASSUME TypeOK, LastWord, NEW c \in Clusters, NEW v \in Values \cup {None},
           PutMetadata(c, v),
           UNCHANGED <<todo, watching, sync, listed, lost, ctl>>
    PROVE  LastWord'
<1>0. StoreType /\ NewsType
  BY TypeParts
<1> SUFFICES ASSUME watching, NEW d \in Clusters
             PROVE  LastIs(news', d, Pending(d)', meta'[d])
  BY DEF LastWord
<1> DEFINE E == [key : Clusters, value : Values \cup {None}]
<1>1. /\ news \in Seq(E) /\ Event(c, v) \in E /\ Event(c, v).key = c
      /\ news' = Append(news, Event(c, v)) /\ meta' = [meta EXCEPT ![c] = v]
  BY <1>0 DEF PutMetadata, NewsType, Event
<1> HIDE DEF E
<1>2. CASE d = c
  <2>1. meta'[d] = v
    BY <1>0, <1>1, <1>2 DEF StoreType
  <2> QED
    BY <1>1, <1>2, <2>1, LastIsAppended
<1>3. CASE d # c
  <2>1. meta'[d] = meta[d] /\ Pending(d)' = Pending(d)
    BY <1>0, <1>1, <1>3 DEF StoreType, Pending, Known
  <2>2. LastIs(news, d, Pending(d), meta[d])
    BY DEF LastWord
  <2> QED
    BY <1>1, <1>3, <2>1, <2>2, LastIsOther
<1> QED
  BY <1>2, <1>3

\* A change that is taken is what the manager will make of the cluster.
LEMMA TakenStep ==
    ASSUME TypeOK, ServerOK, LastWord, NEW c \in Clusters,
           NEW v \in Values \cup {None}, Taken(c, v),
           UNCHANGED <<watching, meta>>, Pending(c)' = v,
           \A d \in Clusters \ {c} : Pending(d)' = Pending(d)
    PROVE  LastWord'
<1>0. NewsType
  BY TypeParts
<1> SUFFICES ASSUME watching, NEW d \in Clusters
             PROVE  LastIs(news', d, Pending(d)', meta[d])
  BY DEF LastWord
<1>1. LastIs(news, d, Pending(d), meta[d])
  BY DEF LastWord
<1>2. CASE server = "syncing" /\ todo[c] = v /\ v # None /\ news' = news
  <2>1. Pending(c) = v
    BY <1>2 DEF Pending
  <2> QED
    BY <1>1, <1>2, <2>1
<1>3. CASE news # <<>> /\ Head(news) = Event(c, v) /\ news' = Tail(news)
  <2> DEFINE E == [key : Clusters, value : Values \cup {None}]
  <2>1. news \in Seq(E) /\ Head(news).key = c
    BY <1>0, <1>3 DEF NewsType, Event
  <2> HIDE DEF E
  <2>2. CASE d = c
    BY <1>1, <1>3, <2>1, <2>2, LastIsTail
  <2>3. CASE d # c
    BY <1>1, <1>3, <2>1, <2>3, LastIsTail
  <2> QED
    BY <2>2, <2>3
<1> QED
  BY <1>2, <1>3 DEF Taken

\* Nothing arrives.
LEMMA QuietStep ==
    ASSUME LastWord, UNCHANGED <<watching, meta, news>>,
           \A d \in Clusters : Pending(d)' = Pending(d) \/ Pending(d)' = meta[d]
    PROVE  LastWord'
  BY DEF LastWord, LastIs

LEMMA LastWordStep ==
    ASSUME Structure, Certified, LastWord, Next
    PROVE  LastWord'
<1>0. /\ StoreType /\ SyncType /\ ManagerType /\ ControllerType /\ Linked
      /\ SyncOK /\ ServerOK /\ \A k \in Handles : Life(k)
  BY TypeParts DEF Structure, LifeCycle
<1>a. TypeOK /\ SyncOK /\ LifeCycle
  BY DEF Structure
<1>1. CASE UNCHANGED <<watching, news, todo, sync, lost, meta, listed, ctl>>
  BY <1>1 DEF LastWord, LastIs, Pending, Known
<1>2. CASE Start
  <2>1. ASSUME NEW d \in Clusters
        PROVE  Pending(d)' = meta[d]
    BY <1>2, <1>0 DEF Start, Pending, Known, SyncOK, ServerOK, Ready
  <2>2. CASE news' = <<>>
    BY <1>2, <2>1, <2>2 DEF Start, LastWord, LastIs
  <2>3. ASSUME NEW c \in Clusters, news' = <<Event(c, meta[c])>>
        PROVE  LastWord'
    <3>1. DOMAIN news' = {1} /\ news'[1] = Event(c, meta[c]) /\ news'[1].key = c
      BY <2>3 DEF Event
    <3> QED
      BY <1>2, <2>1, <3>1 DEF Start, LastWord, LastIs
  <2> QED
    BY <1>2, <2>2, <2>3 DEF Start
<1>3. CASE CreatePool
  BY <1>3, <1>a, PutStep DEF CreatePool, Values
<1>4. ASSUME NEW g \in Calls, SaveMetadata(g)
      PROVE  LastWord'
  <2>1. call[g].cluster \in Clusters
    BY <1>4 DEF SaveMetadata, Certified
  <2> QED
    BY <1>4, <1>a, <2>1, PutStep DEF SaveMetadata, Values
<1>5. ASSUME NEW c \in Clusters, ClusterRemoved(c)
      PROVE  LastWord'
  BY <1>5, <1>a, PutStep DEF ClusterRemoved
<1>6. ASSUME NEW c \in Clusters, AlreadyGone(c)
      PROVE  LastWord'
  <2>1. \A d \in Clusters : todo'[d] = None /\ todo[d] = None
    BY <1>6, <1>0 DEF AlreadyGone, Taken, ServerOK
  <2>2. Pending(c)' = None /\ \A d \in Clusters \ {c} : Pending(d)' = Pending(d)
    BY <1>6, <1>0, <2>1
    DEF AlreadyGone, Taken, Pending, Known, SyncOK, Ready, ManagerType
  <2> QED
    BY <1>6, <1>0, <1>a, <2>2, TakenStep DEF AlreadyGone
<1>7. ASSUME NEW c \in Clusters, Dispose(c)
      PROVE  LastWord'
  <2>1. Pending(c)' = None
    BY <1>7, <1>0 DEF Dispose, Taken, Pending, ServerOK
  <2>2. ASSUME NEW d \in Clusters \ {c}
        PROVE  Pending(d)' = Pending(d)
    BY <1>7, <1>0
    DEF Dispose, Taken, Pending, Known, SyncOK, Ready, ManagerType,
        ControllerType, Controller
  <2> QED
    BY <1>7, <1>0, <1>a, <2>1, <2>2, TakenStep DEF Dispose
<1>8. ASSUME NEW c \in Clusters, NEW v \in Values, Create(c, v)
      PROVE  LastWord'
  <2>1. Pending(c)' = v
    BY <1>8, <1>0 DEF Create, Taken, Pending, ServerOK, ManagerType
  <2>2. ASSUME NEW d \in Clusters \ {c}
        PROVE  Pending(d)' = Pending(d)
    BY <1>8, <1>0, BlankType
    DEF Create, Taken, Pending, Known, SyncOK, Ready, ManagerType,
        ControllerType, Linked
  <2> QED
    BY <1>8, <1>0, <1>a, <2>1, <2>2, TakenStep DEF Create
<1>9. ASSUME NEW c \in Clusters, NEW v \in Values, Update(c, v)
      PROVE  LastWord'
  <2>1. Pending(c)' = v
    BY <1>9, <1>0 DEF Update, Taken, Pending, ServerOK, ManagerType
  <2>2. ASSUME NEW d \in Clusters \ {c}
        PROVE  Pending(d)' = Pending(d)
    BY <1>9, <1>0 DEF Update, Taken, Pending, Known, SyncOK, Ready, ManagerType
  <2> QED
    BY <1>9, <1>0, <1>a, <2>1, <2>2, TakenStep DEF Update
<1>10. CASE DisposeEnds
  <2> DEFINE k == sync.ctl
  <2>1. /\ k \in Handles /\ listed[sync.cluster] = k /\ sync.value = None
        /\ sync.cluster \in Clusters /\ ctl[k].cluster = sync.cluster
    BY <1>10, <1>0 DEF DisposeEnds, SyncOK, Linked
  <2>2. ASSUME NEW d \in Clusters
        PROVE  Pending(d)' = Pending(d) \/ Pending(d)' = meta[d]
    <3>1. CASE d = sync.cluster
      BY <1>10, <1>0, <2>1, <3>1
      DEF DisposeEnds, Pending, Known, Ready, ManagerType, ServerOK
    <3>2. CASE d # sync.cluster
      <4>1. listed'[d] = listed[d] /\ listed[d] # k
        BY <1>10, <1>0, <2>1, <3>2 DEF DisposeEnds, ManagerType, Linked
      <4>2. Known(d)' = Known(d)
        BY <1>10, <1>0, <4>1 DEF DisposeEnds, Known, ManagerType, ControllerType
      <4> QED
        BY <1>10, <3>2, <4>2 DEF DisposeEnds, Pending, Ready
    <3> QED
      BY <3>1, <3>2
  <2> QED
    BY <1>10, <1>a, <2>2, QuietStep DEF DisposeEnds, Structure
<1>11. CASE ReadCertificates
  <2>1. ASSUME NEW d \in Clusters
        PROVE  Pending(d)' = Pending(d)
    BY <1>11, <1>0
    DEF ReadCertificates, Pending, Known, SyncType, ManagerType,
        ControllerType, Controller
  <2> QED
    BY <1>11, <2>1, QuietStep DEF ReadCertificates
<1>12. CASE Listed
  <2> DEFINE k == sync.ctl
  <2>1. Creating(k) /\ k \in Handles
    BY <1>12, <1>a, Lives DEF Listed, SyncOK
  <2>2. ASSUME NEW d \in Clusters
        PROVE  Pending(d)' = Pending(d)
    <3>1. CASE d = sync.cluster
      BY <1>12, <1>0, <2>1, <3>1
      DEF Listed, Creating, Pending, Known, Ready, ManagerType
    <3>2. CASE d # sync.cluster
      BY <1>12, <1>0, <3>2 DEF Listed, Pending, Known, Ready, ManagerType
    <3> QED
      BY <3>1, <3>2
  <2> QED
    BY <1>12, <2>2, QuietStep DEF Listed
<1>13. CASE UpdateClusterSettings
  <2> DEFINE k == sync.ctl
  <2>1. /\ k \in Handles /\ listed[sync.cluster] = k /\ sync.value \in Values
        /\ sync.cluster \in Clusters /\ ctl[k].cluster = sync.cluster
    BY <1>13, <1>0 DEF UpdateClusterSettings, SyncOK, Linked
  <2>2. ASSUME NEW d \in Clusters
        PROVE  Pending(d)' = Pending(d) \/ Pending(d)' = meta[d]
    <3>1. CASE d = sync.cluster
      BY <1>13, <1>0, <2>1, <3>1
      DEF UpdateClusterSettings, Pending, Known, Ready, ManagerType,
          ControllerType, Controller
    <3>2. CASE d # sync.cluster
      <4>1. listed[d] # k
        BY <1>0, <2>1, <3>2 DEF Linked
      <4>2. Known(d)' = Known(d)
        BY <1>13, <1>0, <4>1
        DEF UpdateClusterSettings, Known, ManagerType, ControllerType
      <4> QED
        BY <1>13, <3>2, <4>2 DEF UpdateClusterSettings, Pending, Ready
    <3> QED
      BY <3>1, <3>2
  <2> QED
    BY <1>13, <2>2, QuietStep DEF UpdateClusterSettings
<1>14. CASE ClusterWatchEnds
  BY <1>14 DEF ClusterWatchEnds, Spend, LastWord, LastIs, Pending, Known
<1>15. ASSUME NEW k \in Handles, Apply(k)
      PROVE  LastWord'
  <2>1. ASSUME NEW d \in Clusters
        PROVE  Pending(d)' = Pending(d)
    BY <1>15, <1>0
    DEF Apply, Pending, Known, ManagerType, ControllerType, Controller
  <2> QED
    BY <1>15, <2>1, QuietStep DEF Apply
<1>16. ASSUME NEW k \in Handles, Cancelled(k)
      PROVE  LastWord'
  <2>1. ASSUME NEW d \in Clusters
        PROVE  Pending(d)' = Pending(d)
    <3>1. listed[d] = k => ctl[k].cache
      BY <1>0, <1>a, Lives DEF Findable, NotListed
    <3>2. Known(d)' = Known(d)
      BY <1>16, <1>0, <3>1
      DEF Cancelled, WorkerEnds, Known, ManagerType, ControllerType
    <3> QED
      BY <1>16, <3>2 DEF Cancelled, Pending
  <2> QED
    BY <1>16, <2>1, QuietStep DEF Cancelled
<1>17. ASSUME NEW k \in Handles, WatchEnds(k)
      PROVE  LastWord'
  <2>1. ASSUME NEW d \in Clusters
        PROVE  Pending(d)' = Pending(d)
    <3>1. listed[d] = k => ctl[k].cache
      BY <1>0, <1>a, Lives DEF Findable, NotListed
    <3>2. Known(d)' = Known(d)
      BY <1>17, <1>0, <3>1
      DEF WatchEnds, WorkerEnds, Known, ManagerType, ControllerType
    <3> QED
      BY <1>17, <3>2 DEF WatchEnds, Pending
  <2> QED
    BY <1>17, <2>1, QuietStep DEF WatchEnds
<1>18. CASE ServerStops
  BY <1>18 DEF ServerStops, Spend, GoDown, LastWord, LastIs, Pending, Known
<1>19. CASE ReadFails
  BY <1>19 DEF ReadFails, Spend, GoDown, LastWord, LastIs, Pending, Known
<1>20. CASE RegisterFails
  <2>1. CASE server = "syncing"
    BY <1>20, <2>1 DEF RegisterFails, GoDown, LastWord
  <2>2. CASE server # "syncing"
    <3> DEFINE k == sync.ctl
    <3>1. Creating(k) /\ k \in Handles /\ \A d \in Clusters : todo[d] = None
      BY <1>20, <1>0, <1>a, <2>2, Lives DEF RegisterFails, SyncOK, ServerOK
    <3>2. ASSUME NEW d \in Clusters
          PROVE  Pending(d)' = Pending(d) \/ Pending(d)' = meta[d]
      <4>1. CASE d = sync.cluster
        BY <1>20, <1>0, <2>2, <3>1, <4>1
        DEF RegisterFails, Pending, Ready, ManagerType
      <4>2. CASE d # sync.cluster
        <5>1. Known(d)' = Known(d) /\ lost'[d] = lost[d]
          BY <1>20, <1>0, <2>2, <3>1, <4>2
          DEF RegisterFails, Known, Creating, NotListed, ManagerType,
              ControllerType
        <5> QED
          BY <1>20, <2>2, <4>2, <5>1 DEF RegisterFails, Pending, Ready
      <4> QED
        BY <4>1, <4>2
    <3> QED
      BY <1>20, <2>2, <3>2, QuietStep DEF RegisterFails
  <2> QED
    BY <2>1, <2>2
<1>21. ASSUME NEW k \in Handles, Panic(k)
      PROVE  LastWord'
  BY <1>21 DEF Panic, GoDown, LastWord, LastIs, Pending, Known
<1> QED
  BY <1>1, <1>2, <1>3, <1>4, <1>5, <1>6, <1>7, <1>8, <1>9, <1>10, <1>11, <1>12,
     <1>13, <1>14, <1>15, <1>16, <1>17, <1>18, <1>19, <1>20, <1>21
  DEF Next, Sync, Work, Call, NewCluster, SaveCertificate, NewClusterFails,
      ReadBegin, Synced, Receive, LookUp, Check, AgentChanges, ReadEnd

-----------------------------------------------------------------------------
(* The last word on a certificate *)

LEMMA SameMirror ==
    ASSUME NEW h \in Handles, NEW m \in Certs, Mirrors(h, m),
           Follows(h)' =>
             /\ Follows(h) /\ ctl'[h].cluster = ctl[h].cluster
             /\ channel'[h] = channel[h] /\ Held(h, m)' = Held(h, m)
             /\ certs'[ctl[h].cluster][m] \in {None, certs[ctl[h].cluster][m]}
    PROVE  Mirrors(h, m)'
<1> SUFFICES ASSUME Follows(h)', certs'[ctl'[h].cluster][m] # None
             PROVE  LastIs(channel'[h], m, Held(h, m)', certs'[ctl'[h].cluster][m])
  BY DEF Mirrors
<1>1. certs'[ctl'[h].cluster][m] = certs[ctl[h].cluster][m]
  OBVIOUS
<1>2. LastIs(channel[h], m, Held(h, m), certs[ctl[h].cluster][m])
  BY <1>1 DEF Mirrors
<1> QED
  BY <1>1, <1>2

LEMMA LastCertificateStep ==
    ASSUME Structure, LastCertificate, Next
    PROVE  LastCertificate'
<1>0. /\ StoreType /\ CallType /\ SyncType /\ ManagerType /\ ControllerType
      /\ ChannelType /\ WorkerType /\ OtherType /\ Linked
      /\ SyncOK /\ EventsOK /\ LifeCycle /\ \A k \in Handles : Life(k)
  BY TypeParts DEF Structure, LifeCycle
<1>1. CASE UNCHANGED <<channel, certs, ctl, worker, sync, missed>>
  BY <1>1 DEF LastCertificate, Mirrors, Follows, Held, LastIs
<1>2. ASSUME NEW g \in Calls, SaveCertificate(g)
      PROVE  LastCertificate'
  <2> SUFFICES ASSUME NEW h \in Handles, NEW m \in Certs
               PROVE  Mirrors(h, m)'
    BY DEF LastCertificate
  <2> DEFINE c == call[g].cluster
             E == [key : Certs \cup {Agent}, value : Calls \cup {None}]
  <2>1. PICK n \in Certs :
           /\ certs' = [certs EXCEPT ![c][n] = g]
           /\ channel'[h] = IF Watched(h) /\ ctl[h].cluster = c
                            THEN Append(channel[h], Event(n, g)) ELSE channel[h]
    BY <1>2, <1>0 DEF SaveCertificate, CallType
  <2>2. /\ UNCHANGED <<ctl, worker, sync>> /\ Held(h, m)' = Held(h, m)
        /\ Follows(h)' => Follows(h)
        /\ sync.pc = "keys" /\ sync.ctl = h /\ sync.cluster = c => ~Follows(h)'
    BY <1>2, <1>0 DEF SaveCertificate, Follows, Held, OtherType
  <2>3. channel[h] \in Seq(E) /\ Event(n, g) \in E /\ Event(n, g).key = n
    BY <1>0 DEF ChannelType, Event
  <2> HIDE DEF E
  <2>4. CASE ctl[h].cluster # c \/ ~Follows(h)'
    <3>1. Follows(h)' => certs'[ctl[h].cluster][m] = certs[ctl[h].cluster][m]
      BY <1>0, <2>1, <2>2, <2>4 DEF StoreType, Follows
    <3>2. Mirrors(h, m)
      BY DEF LastCertificate
    <3> QED
      BY <2>1, <2>2, <2>4, <3>1, <3>2, SameMirror
  <2>5. CASE ctl[h].cluster = c /\ Follows(h)'
    <3>1. worker[h].pc # "none"
      BY <1>0, <2>2, <2>5, BlankType
      DEF Life, Free, Creating, Findable, Left, Follows, Watched
    <3>2. /\ Watched(h) /\ channel'[h] = Append(channel[h], Event(n, g))
          /\ c \in Clusters
      BY <2>1, <2>2, <2>5, <3>1 DEF Watched, Follows
    <3>3. CASE m = n
      <4>1. certs'[c][m] = g
        BY <1>0, <2>1, <3>2, <3>3 DEF StoreType
      <4> QED
        BY <2>2, <2>3, <2>5, <3>2, <3>3, <4>1, LastIsAppended DEF Mirrors
    <3>4. CASE m # n
      <4>1. certs'[c][m] = certs[c][m]
        BY <1>0, <2>1, <3>2, <3>4 DEF StoreType
      <4>2. certs[c][m] # None => LastIs(channel[h], m, Held(h, m), certs[c][m])
        BY <2>2, <2>5 DEF LastCertificate, Mirrors
      <4>3. certs[c][m] # None => LastIs(channel'[h], m, Held(h, m), certs[c][m])
        BY <2>3, <3>2, <3>4, <4>2, LastIsOther
      <4> QED
        BY <2>2, <2>5, <4>1, <4>3 DEF Mirrors
    <3> QED
      BY <3>3, <3>4
  <2> QED
    BY <2>4, <2>5
<1>3. ASSUME NEW c \in Clusters, ClusterRemoved(c)
      PROVE  LastCertificate'
  <2> SUFFICES ASSUME NEW h \in Handles, NEW m \in Certs
               PROVE  Mirrors(h, m)'
    BY DEF LastCertificate
  <2>1. Mirrors(h, m)
    BY DEF LastCertificate
  <2>2. Follows(h)' =>
           /\ Follows(h) /\ ctl'[h].cluster = ctl[h].cluster
           /\ channel'[h] = channel[h] /\ Held(h, m)' = Held(h, m)
           /\ certs'[ctl[h].cluster][m] \in {None, certs[ctl[h].cluster][m]}
    BY <1>3, <1>0
    DEF ClusterRemoved, PutMetadata, NoCerts, Follows, Held, StoreType,
        SyncType, ManagerType, ControllerType, ChannelType, WorkerType,
        Controller
  <2> QED
    BY <2>1, <2>2, SameMirror
<1>4. ASSUME NEW c \in Clusters, Dispose(c)
      PROVE  LastCertificate'
  <2> SUFFICES ASSUME NEW h \in Handles, NEW m \in Certs
               PROVE  Mirrors(h, m)'
    BY DEF LastCertificate
  <2>1. Mirrors(h, m)
    BY DEF LastCertificate
  <2>2. Follows(h)' =>
           /\ Follows(h) /\ ctl'[h].cluster = ctl[h].cluster
           /\ channel'[h] = channel[h] /\ Held(h, m)' = Held(h, m)
           /\ certs'[ctl[h].cluster][m] \in {None, certs[ctl[h].cluster][m]}
    BY <1>4, <1>0
    DEF Dispose, Taken, SyncOK, Ready, Follows, Held, StoreType, SyncType,
        ManagerType, ControllerType, ChannelType, WorkerType, Controller
  <2> QED
    BY <2>1, <2>2, SameMirror
<1>5. ASSUME NEW c \in Clusters, NEW v \in Values, Create(c, v)
      PROVE  LastCertificate'
  <2> SUFFICES ASSUME NEW h \in Handles, NEW m \in Certs
               PROVE  Mirrors(h, m)'
    BY DEF LastCertificate
  <2>1. Mirrors(h, m)
    BY DEF LastCertificate
  <2>2. Follows(h)' =>
           /\ Follows(h) /\ ctl'[h].cluster = ctl[h].cluster
           /\ channel'[h] = channel[h] /\ Held(h, m)' = Held(h, m)
           /\ certs'[ctl[h].cluster][m] \in {None, certs[ctl[h].cluster][m]}
    BY <1>5, <1>0
    DEF Create, Taken, SyncOK, Ready, Follows, Held, StoreType, SyncType,
        ManagerType, ControllerType, ChannelType, WorkerType, Controller
  <2> QED
    BY <2>1, <2>2, SameMirror
<1>6. ASSUME NEW c \in Clusters, NEW v \in Values, Update(c, v)
      PROVE  LastCertificate'
  <2> SUFFICES ASSUME NEW h \in Handles, NEW m \in Certs
               PROVE  Mirrors(h, m)'
    BY DEF LastCertificate
  <2>1. Mirrors(h, m)
    BY DEF LastCertificate
  <2>2. Follows(h)' =>
           /\ Follows(h) /\ ctl'[h].cluster = ctl[h].cluster
           /\ channel'[h] = channel[h] /\ Held(h, m)' = Held(h, m)
           /\ certs'[ctl[h].cluster][m] \in {None, certs[ctl[h].cluster][m]}
    BY <1>6, <1>0
    DEF Update, Taken, SyncOK, Ready, Follows, Held, StoreType, SyncType,
        ManagerType, ControllerType, ChannelType, WorkerType, Controller
  <2> QED
    BY <2>1, <2>2, SameMirror
<1>7. CASE DisposeEnds
  <2> SUFFICES ASSUME NEW h \in Handles, NEW m \in Certs
               PROVE  Mirrors(h, m)'
    BY DEF LastCertificate
  <2>1. Mirrors(h, m)
    BY DEF LastCertificate
  <2>2. Findable(sync.ctl) /\ sync.ctl \in Handles
    BY <1>7, <1>0, Lives DEF DisposeEnds, SyncOK
  <2>3. CASE h = sync.ctl
    <3>1. ctl'[h].cluster = None \/ ctl'[h].disposed
      BY <1>7, <1>0, <2>2, <2>3, BlankType
      DEF DisposeEnds, Findable, ControllerType, Controller
    <3> QED
      BY <3>1 DEF Mirrors, Follows
  <2>4. CASE h # sync.ctl
    <3>1. Follows(h)' =>
           /\ Follows(h) /\ ctl'[h].cluster = ctl[h].cluster
           /\ channel'[h] = channel[h] /\ Held(h, m)' = Held(h, m)
           /\ certs'[ctl[h].cluster][m] \in {None, certs[ctl[h].cluster][m]}
      BY <1>7, <1>0, <2>4
      DEF DisposeEnds, Follows, Held, ControllerType, WorkerType
    <3> QED
      BY <2>1, <3>1, SameMirror
  <2> QED
    BY <2>3, <2>4
<1>8. CASE ReadCertificates
  <2> SUFFICES ASSUME NEW h \in Handles, NEW m \in Certs
               PROVE  Mirrors(h, m)'
    BY DEF LastCertificate
  <2>1. Mirrors(h, m)
    BY DEF LastCertificate
  <2>2. sync.ctl \in Handles /\ sync.cluster \in Clusters /\ Creating(sync.ctl)
    BY <1>8, <1>0, Lives DEF ReadCertificates, SyncOK
  <2>3. CASE h = sync.ctl
    <3>1. /\ channel'[h] = <<>> /\ worker'[h].key = None /\ certs' = certs
          /\ ctl'[h].cluster = sync.cluster /\ ctl'[h].certs = certs[sync.cluster]
      BY <1>8, <1>0, <2>2, <2>3
      DEF ReadCertificates, Creating, Resting, ControllerType, Controller
    <3>2. Held(h, m)' = certs'[ctl'[h].cluster][m]
      BY <3>1 DEF Held
    <3> QED
      BY <3>1, <3>2 DEF Mirrors, LastIs
  <2>4. CASE h # sync.ctl
    <3>1. Follows(h)' =>
           /\ Follows(h) /\ ctl'[h].cluster = ctl[h].cluster
           /\ channel'[h] = channel[h] /\ Held(h, m)' = Held(h, m)
           /\ certs'[ctl[h].cluster][m] \in {None, certs[ctl[h].cluster][m]}
      BY <1>8, <1>0, <2>4 DEF ReadCertificates, Follows, Held, ControllerType
    <3> QED
      BY <2>1, <3>1, SameMirror
  <2> QED
    BY <2>3, <2>4
<1>9. CASE Listed
  <2> SUFFICES ASSUME NEW h \in Handles, NEW m \in Certs
               PROVE  Mirrors(h, m)'
    BY DEF LastCertificate
  <2>1. Mirrors(h, m)
    BY DEF LastCertificate
  <2>2. sync.ctl \in Handles /\ Creating(sync.ctl)
    BY <1>9, <1>0, Lives DEF Listed, SyncOK
  <2>3. worker'[h].key = worker[h].key /\ worker'[h].value = worker[h].value
        /\ (worker'[h].pc = "ended" <=> worker[h].pc = "ended")
    BY <1>9, <1>0, <2>2 DEF Listed, Creating, Resting, WorkerType
  <2>4. Follows(h)' =>
           /\ Follows(h) /\ ctl'[h].cluster = ctl[h].cluster
           /\ channel'[h] = channel[h] /\ Held(h, m)' = Held(h, m)
           /\ certs'[ctl[h].cluster][m] \in {None, certs[ctl[h].cluster][m]}
    BY <1>9, <2>3 DEF Listed, Follows, Held
  <2> QED
    BY <2>1, <2>4, SameMirror
<1>10. CASE UpdateClusterSettings
  <2> SUFFICES ASSUME NEW h \in Handles, NEW m \in Certs
               PROVE  Mirrors(h, m)'
    BY DEF LastCertificate
  <2>1. Mirrors(h, m)
    BY DEF LastCertificate
  <2>2. Follows(h)' =>
           /\ Follows(h) /\ ctl'[h].cluster = ctl[h].cluster
           /\ channel'[h] = channel[h] /\ Held(h, m)' = Held(h, m)
           /\ certs'[ctl[h].cluster][m] \in {None, certs[ctl[h].cluster][m]}
    BY <1>10, <1>0
    DEF UpdateClusterSettings, Ready, Follows, Held, StoreType, SyncType,
        ManagerType, ControllerType, ChannelType, WorkerType, Controller
  <2> QED
    BY <2>1, <2>2, SameMirror
<1>11. ASSUME NEW k \in Handles, Receive(k)
      PROVE  LastCertificate'
  <2> SUFFICES ASSUME NEW h \in Handles, NEW m \in Certs
               PROVE  Mirrors(h, m)'
    BY DEF LastCertificate
  <2>1. Mirrors(h, m)
    BY DEF LastCertificate
  <2>2. CASE h # k
    <3>1. Follows(h)' =>
           /\ Follows(h) /\ ctl'[h].cluster = ctl[h].cluster
           /\ channel'[h] = channel[h] /\ Held(h, m)' = Held(h, m)
           /\ certs'[ctl[h].cluster][m] \in {None, certs[ctl[h].cluster][m]}
      BY <1>11, <1>0, <2>2 DEF Receive, Follows, Held, ChannelType, WorkerType
    <3> QED
      BY <2>1, <3>1, SameMirror
  <2>3. CASE h = k
    <3> DEFINE E == [key : Certs \cup {Agent}, value : Calls \cup {None}]
               e == Head(channel[k])
    <3>1. /\ channel[k] \in Seq(E) /\ channel[k] # <<>> /\ e \in E
          /\ channel'[k] = Tail(channel[k]) /\ UNCHANGED <<ctl, certs, missed, sync>>
          /\ worker[k].pc = "idle"
      BY <1>11, <1>0, SeqType DEF Receive, ChannelType
    <3>2. worker'[k].key = e.key /\ worker'[k].value = e.value /\ e = Event(e.key, e.value)
      BY <1>11, <1>0, <3>1 DEF Receive, WorkerType, Event
    <3>3. Held(k, m) = ctl[k].certs[m]
      BY <1>0, <3>1 DEF Held, EventsOK
    <3>4. /\ e.key = m => e = Event(m, Held(k, m)')
          /\ e.key # m => Held(k, m)' = Held(k, m)
      BY <3>1, <3>2, <3>3 DEF Held
    <3>5. Follows(k)' => Follows(k)
      BY <3>1 DEF Follows
    <3> HIDE DEF E
    <3>6. ASSUME LastIs(channel[k], m, Held(k, m), certs[ctl[k].cluster][m])
          PROVE  LastIs(Tail(channel[k]), m, Held(k, m)', certs[ctl[k].cluster][m])
      BY <3>1, <3>4, <3>6, LastIsTail
    <3> QED
      BY <2>1, <2>3, <3>1, <3>5, <3>6 DEF Mirrors
  <2> QED
    BY <2>2, <2>3
<1>12. ASSUME NEW k \in Handles, LookUp(k)
      PROVE  LastCertificate'
  <2> SUFFICES ASSUME NEW h \in Handles, NEW m \in Certs
               PROVE  Mirrors(h, m)'
    BY DEF LastCertificate
  <2>1. Mirrors(h, m)
    BY DEF LastCertificate
  <2>2. Follows(h)' =>
           /\ Follows(h) /\ ctl'[h].cluster = ctl[h].cluster
           /\ channel'[h] = channel[h] /\ Held(h, m)' = Held(h, m)
           /\ certs'[ctl[h].cluster][m] \in {None, certs[ctl[h].cluster][m]}
    <3>1. CASE h # k
      BY <1>12, <1>0, <3>1
      DEF LookUp, Rest, WorkerAt, Follows, Held, WorkerType
    <3>2. CASE h = k
      <4>1. /\ UNCHANGED <<ctl, certs, channel, sync, missed>>
            /\ worker[k].key \notin Certs /\ worker[k].pc # "ended"
        BY <1>12, <1>0 DEF LookUp, EventsOK
      <4>2. worker'[k].key \in {None, worker[k].key}
        BY <1>12, <1>0 DEF LookUp, Rest, Resting, WorkerAt, WorkerType
      <4> QED
        BY <3>2, <4>1, <4>2 DEF Follows, Held
    <3> QED
      BY <3>1, <3>2
  <2> QED
    BY <2>1, <2>2, SameMirror
<1>13. ASSUME NEW k \in Handles, Check(k)
      PROVE  LastCertificate'
  <2> SUFFICES ASSUME NEW h \in Handles, NEW m \in Certs
               PROVE  Mirrors(h, m)'
    BY DEF LastCertificate
  <2>1. Mirrors(h, m)
    BY DEF LastCertificate
  <2>2. Follows(h)' =>
           /\ Follows(h) /\ ctl'[h].cluster = ctl[h].cluster
           /\ channel'[h] = channel[h] /\ Held(h, m)' = Held(h, m)
           /\ certs'[ctl[h].cluster][m] \in {None, certs[ctl[h].cluster][m]}
    <3>1. CASE h # k
      BY <1>13, <1>0, <3>1
      DEF Check, Rest, WorkerAt, Follows, Held, WorkerType
    <3>2. CASE h = k
      <4>1. /\ UNCHANGED <<ctl, certs, channel, sync, missed>>
            /\ worker[k].pc # "ended"
        BY <1>13 DEF Check
      <4>2. CASE ctl[k].disposed
        BY <3>2, <4>1, <4>2 DEF Follows
      <4>3. CASE ~ctl[k].disposed
        <5>1. worker'[k].key = worker[k].key /\ worker'[k].value = worker[k].value
          BY <1>13, <1>0, <4>3 DEF Check, WorkerAt, WorkerType
        <5> QED
          BY <3>2, <4>1, <5>1 DEF Follows, Held
      <4> QED
        BY <4>2, <4>3
    <3> QED
      BY <3>1, <3>2
  <2> QED
    BY <2>1, <2>2, SameMirror
<1>14. ASSUME NEW k \in Handles, Apply(k)
      PROVE  LastCertificate'
  <2> SUFFICES ASSUME NEW h \in Handles, NEW m \in Certs
               PROVE  Mirrors(h, m)'
    BY DEF LastCertificate
  <2>1. Mirrors(h, m)
    BY DEF LastCertificate
  <2>2. Follows(h)' =>
           /\ Follows(h) /\ ctl'[h].cluster = ctl[h].cluster
           /\ channel'[h] = channel[h] /\ Held(h, m)' = Held(h, m)
           /\ certs'[ctl[h].cluster][m] \in {None, certs[ctl[h].cluster][m]}
    BY <1>14, <1>0
    DEF Apply, Rest, Resting, EventsOK, Follows, Held, StoreType, SyncType,
        ManagerType, ControllerType, ChannelType, WorkerType, Controller
  <2> QED
    BY <2>1, <2>2, SameMirror
<1>15. ASSUME NEW k \in Handles, Cancelled(k)
      PROVE  LastCertificate'
  <2> SUFFICES ASSUME NEW h \in Handles, NEW m \in Certs
               PROVE  Mirrors(h, m)'
    BY DEF LastCertificate
  <2>1. Mirrors(h, m)
    BY DEF LastCertificate
  <2>2. Follows(h)' =>
           /\ Follows(h) /\ ctl'[h].cluster = ctl[h].cluster
           /\ channel'[h] = channel[h] /\ Held(h, m)' = Held(h, m)
           /\ certs'[ctl[h].cluster][m] \in {None, certs[ctl[h].cluster][m]}
    <3>1. CASE h # k
      BY <1>15, <1>0, <3>1
      DEF Cancelled, WorkerEnds, Follows, Held, ControllerType, ChannelType,
          WorkerType
    <3>2. CASE h = k
      BY <1>15, <1>0, <3>2, BlankType
      DEF Cancelled, WorkerEnds, Resting, Follows, ControllerType, WorkerType
    <3> QED
      BY <3>1, <3>2
  <2> QED
    BY <2>1, <2>2, SameMirror
<1>16. ASSUME NEW k \in Handles, WatchEnds(k)
      PROVE  LastCertificate'
  <2> SUFFICES ASSUME NEW h \in Handles, NEW m \in Certs
               PROVE  Mirrors(h, m)'
    BY DEF LastCertificate
  <2>1. Mirrors(h, m)
    BY DEF LastCertificate
  <2>2. Follows(h)' =>
           /\ Follows(h) /\ ctl'[h].cluster = ctl[h].cluster
           /\ channel'[h] = channel[h] /\ Held(h, m)' = Held(h, m)
           /\ certs'[ctl[h].cluster][m] \in {None, certs[ctl[h].cluster][m]}
    <3>1. CASE h # k
      BY <1>16, <1>0, <3>1
      DEF WatchEnds, WorkerEnds, Follows, Held, ControllerType, ChannelType,
          WorkerType
    <3>2. CASE h = k
      BY <1>16, <1>0, <3>2, BlankType
      DEF WatchEnds, WorkerEnds, Resting, Follows, ControllerType, WorkerType
    <3> QED
      BY <3>1, <3>2
  <2> QED
    BY <2>1, <2>2, SameMirror
<1>17. ASSUME NEW k \in Handles, AgentChanges(k)
      PROVE  LastCertificate'
  <2> SUFFICES ASSUME NEW h \in Handles, NEW m \in Certs
               PROVE  Mirrors(h, m)'
    BY DEF LastCertificate
  <2>1. Mirrors(h, m)
    BY DEF LastCertificate
  <2>2. UNCHANGED <<ctl, certs, missed, sync, worker>> /\ (Follows(h)' => Follows(h))
        /\ Held(h, m)' = Held(h, m)
    BY <1>17 DEF AgentChanges, Follows, Held
  <2>3. CASE h # k
    <3>1. channel'[h] = channel[h]
      BY <1>17, <1>0, <2>3 DEF AgentChanges, ChannelType
    <3> QED
      BY <2>1, <2>2, <3>1 DEF Mirrors
  <2>4. CASE h = k
    <3> DEFINE E == [key : Certs \cup {Agent}, value : Calls \cup {None}]
    <3>1. /\ channel[h] \in Seq(E) /\ Event(Agent, None) \in E
          /\ Event(Agent, None).key # m
          /\ channel'[h] = Append(channel[h], Event(Agent, None))
      BY <1>17, <1>0, <2>4 DEF AgentChanges, ChannelType, Event
    <3> HIDE DEF E
    <3>2. ASSUME LastIs(channel[h], m, Held(h, m), certs[ctl[h].cluster][m])
          PROVE  LastIs(channel'[h], m, Held(h, m), certs[ctl[h].cluster][m])
      BY <3>1, <3>2, LastIsOther
    <3> QED
      BY <2>1, <2>2, <3>2 DEF Mirrors
  <2> QED
    BY <2>3, <2>4
<1>18. CASE ServerStops
  <2> SUFFICES ASSUME NEW h \in Handles, NEW m \in Certs
               PROVE  Mirrors(h, m)'
    BY DEF LastCertificate
  <2> QED
    BY <1>18, <1>0, BlankType DEF ServerStops, GoDown, Mirrors, Follows
<1>19. CASE ReadFails
  <2> SUFFICES ASSUME NEW h \in Handles, NEW m \in Certs
               PROVE  Mirrors(h, m)'
    BY DEF LastCertificate
  <2> QED
    BY <1>19, <1>0, BlankType DEF ReadFails, GoDown, Mirrors, Follows
<1>20. CASE RegisterFails
  <2> SUFFICES ASSUME NEW h \in Handles, NEW m \in Certs
               PROVE  Mirrors(h, m)'
    BY DEF LastCertificate
  <2>1. CASE server = "syncing"
    BY <1>20, <2>1, BlankType DEF RegisterFails, GoDown, Mirrors, Follows
  <2>2. CASE server # "syncing"
    <3>1. Mirrors(h, m)
      BY DEF LastCertificate
    <3>2. Follows(h)' =>
             /\ Follows(h) /\ ctl'[h].cluster = ctl[h].cluster
             /\ channel'[h] = channel[h] /\ Held(h, m)' = Held(h, m)
             /\ certs'[ctl[h].cluster][m] \in {None, certs[ctl[h].cluster][m]}
      BY <1>20, <1>0, <2>2, BlankType
      DEF RegisterFails, Follows, Held, ControllerType
    <3> QED
      BY <3>1, <3>2, SameMirror
  <2> QED
    BY <2>1, <2>2
<1>21. ASSUME NEW k \in Handles, Panic(k)
      PROVE  LastCertificate'
  <2> SUFFICES ASSUME NEW h \in Handles, NEW m \in Certs
               PROVE  Mirrors(h, m)'
    BY DEF LastCertificate
  <2> QED
    BY <1>21, <1>0, BlankType DEF Panic, GoDown, Mirrors, Follows
<1> QED
  BY <1>1, <1>2, <1>3, <1>4, <1>5, <1>6, <1>7, <1>8, <1>9, <1>10, <1>11, <1>12,
     <1>13, <1>14, <1>15, <1>16, <1>17, <1>18, <1>19, <1>20, <1>21
  DEF Next, Sync, Work, Call, Start, CreatePool, NewCluster, SaveMetadata,
      NewClusterFails, ReadBegin, AlreadyGone, Synced, ClusterWatchEnds,
      ReadEnd

-----------------------------------------------------------------------------
(* The certificates of a cluster that can be found *)

\* A deletion that is under way stays so ...
LEMMA LeavingPut ==
    ASSUME NewsType, NEW c \in Clusters, NEW v \in Values \cup {None}, NEW d,
           PutMetadata(c, v), UNCHANGED <<watching, sync>>, Leaving(d)
    PROVE  Leaving(d)'
<1> DEFINE E == [key : Clusters, value : Values \cup {None}]
<1>1. news \in Seq(E) /\ Event(c, v) \in E
  BY DEF NewsType, Event
<1> HIDE DEF E
<1>2. ASSUME NEW i \in DOMAIN news
      PROVE  /\ i \in DOMAIN Append(news, Event(c, v))
             /\ Append(news, Event(c, v))[i] = news[i]
  BY <1>1
<1> QED
  BY <1>2 DEF Leaving, PutMetadata

\* ... until it is taken.
LEMMA LeavingTaken ==
    ASSUME NewsType, NEW c \in Clusters, NEW v \in Values \cup {None}, NEW d,
           Taken(c, v), UNCHANGED watching, v # None \/ d # c, Leaving(d)
    PROVE  Leaving(d)'
<1>1. CASE ~watching
  BY <1>1 DEF Leaving
<1>2. ASSUME NEW i \in DOMAIN news, news[i] = Event(d, None)
      PROVE  \E j \in DOMAIN news' : news'[j] = Event(d, None)
  <2>1. CASE news' = news
    BY <1>2, <2>1
  <2>2. CASE news # <<>> /\ Head(news) = Event(c, v) /\ news' = Tail(news)
    <3> DEFINE E == [key : Clusters, value : Values \cup {None}]
    <3>1. news \in Seq(E)
      BY DEF NewsType
    <3> HIDE DEF E
    <3>2. Head(news) = news[1] /\ i \in Nat \ {0}
          /\ (i # 1 => i - 1 \in DOMAIN Tail(news) /\ Tail(news)[i - 1] = news[i])
      BY SMTT(60), <1>2, <2>2, <3>1
    <3>3. i # 1
      BY <1>2, <2>2, <3>2 DEF Event
    <3> QED
      BY <1>2, <2>2, <3>2, <3>3
  <2> QED
    BY <2>1, <2>2 DEF Taken
<1>3. sync.pc = "idle"
  BY DEF Taken
<1> QED
  BY <1>1, <1>2, <1>3 DEF Leaving

LEMMA CompleteStep ==
    ASSUME Structure, LastWord, Certified, Complete, Next
    PROVE  Complete'
<1>0. /\ StoreType /\ CallType /\ SyncType /\ ManagerType /\ ControllerType
      /\ NewsType /\ WorkerType /\ Linked
      /\ SyncOK /\ ServerOK /\ EventsOK /\ LifeCycle /\ \A k \in Handles : Life(k)
  BY TypeParts DEF Structure, LifeCycle
<1>1. CASE UNCHANGED <<ctl, sync, news, watching>>
  BY <1>1 DEF Complete, CompleteAt, Full, Leaving
<1>2. CASE Start
  <2> SUFFICES ASSUME NEW h \in Handles
               PROVE  CompleteAt(h)'
    BY DEF Complete
  <2>a. CompleteAt(h)
    BY DEF Complete
  <2>1. ctl' = ctl /\ (Free(h) \/ Left(h))
    BY <1>2, <1>0 DEF Start, ServerOK, Life, Creating, Findable
  <2> QED
    BY <2>1, BlankType DEF Free, Left, CompleteAt
<1>3. CASE CreatePool
  <2> SUFFICES ASSUME NEW h \in Handles
               PROVE  CompleteAt(h)'
    BY DEF Complete
  <2>a. CompleteAt(h)
    BY DEF Complete
  <2>1. UNCHANGED <<ctl, sync, watching>> /\ PutMetadata(Pool, Pool)
    BY <1>3 DEF CreatePool
  <2>2. Leaving(ctl[h].cluster) => Leaving(ctl[h].cluster)'
    BY <1>0, <2>1, LeavingPut DEF Values
  <2> QED
    BY <2>a, <2>1, <2>2 DEF CompleteAt, Full
<1>4. ASSUME NEW g \in Calls, SaveMetadata(g)
      PROVE  Complete'
  <2> SUFFICES ASSUME NEW h \in Handles
               PROVE  CompleteAt(h)'
    BY DEF Complete
  <2>a. CompleteAt(h)
    BY DEF Complete
  <2>0. call[g].cluster \in Clusters
    BY <1>4 DEF SaveMetadata, Certified
  <2>1. UNCHANGED <<ctl, sync, watching>> /\ PutMetadata(call[g].cluster, g)
    BY <1>4 DEF SaveMetadata
  <2>2. Leaving(ctl[h].cluster) => Leaving(ctl[h].cluster)'
    BY <1>0, <2>1, LeavingPut, <2>0 DEF Values
  <2> QED
    BY <2>a, <2>1, <2>2 DEF CompleteAt, Full
<1>5. ASSUME NEW c \in Clusters, ClusterRemoved(c)
      PROVE  Complete'
  <2> SUFFICES ASSUME NEW h \in Handles
               PROVE  CompleteAt(h)'
    BY DEF Complete
  <2>a. CompleteAt(h)
    BY DEF Complete
  <2>1. UNCHANGED <<ctl, sync, watching>> /\ PutMetadata(c, None)
    BY <1>5 DEF ClusterRemoved
  <2>2. Leaving(ctl[h].cluster) => Leaving(ctl[h].cluster)'
    BY <1>0, <2>1, LeavingPut
  <2> QED
    BY <2>a, <2>1, <2>2 DEF CompleteAt, Full
<1>6. ASSUME NEW c \in Clusters, AlreadyGone(c)
      PROVE  Complete'
  <2> SUFFICES ASSUME NEW h \in Handles
               PROVE  CompleteAt(h)'
    BY DEF Complete
  <2>a. CompleteAt(h)
    BY DEF Complete
  <2>1. UNCHANGED watching /\ Taken(c, None) /\ sync = Ready
    BY <1>6, <1>0 DEF AlreadyGone, Taken, SyncOK
  <2>2. CASE ctl[h].cluster = c
    <3>1. Free(h) \/ Left(h)
      BY <1>6, <1>0, <2>1, <2>2 DEF AlreadyGone, Ready, Life, Creating, Findable
    <3> QED
      BY <1>6, <3>1, BlankType DEF AlreadyGone, Free, Left, CompleteAt
  <2>3. CASE ctl[h].cluster # c
    <3>1. ASSUME NEW d, d # c, Leaving(d)
          PROVE  Leaving(d)'
      BY <1>0, <2>1, <3>1, LeavingTaken
    <3>2. ctl'[h] = ctl[h] \/ ctl'[h].cluster = c
      BY <1>6, <1>0, <2>3
      DEF AlreadyGone, ControllerType, Controller, ManagerType, Linked
    <3> QED
      BY <1>6, <1>0, <2>a, <2>1, <2>3, <3>1, <3>2, BlankType
      DEF AlreadyGone, Leaving, CompleteAt, Full, ControllerType, Controller,
          ManagerType, Ready
  <2> QED
    BY <2>2, <2>3
<1>7. ASSUME NEW c \in Clusters, Dispose(c)
      PROVE  Complete'
  <2> SUFFICES ASSUME NEW h \in Handles
               PROVE  CompleteAt(h)'
    BY DEF Complete
  <2>a. CompleteAt(h)
    BY DEF Complete
  <2>1. UNCHANGED watching /\ Taken(c, None) /\ sync = Ready
    BY <1>7, <1>0 DEF Dispose, Taken, SyncOK
  <2>2. CASE ctl[h].cluster = c
    <3>1. Free(h) \/ Left(h) \/ listed[c] = h
      BY <1>0, <2>1, <2>2 DEF Ready, Life, Creating, Findable
    <3>2. ctl'[h].disposed
      BY <1>7, <1>0, <2>2, <3>1, BlankType
      DEF Dispose, Free, Left, ControllerType, Controller
    <3> QED
      BY <3>2 DEF CompleteAt
  <2>3. CASE ctl[h].cluster # c
    <3>1. ASSUME NEW d, d # c, Leaving(d)
          PROVE  Leaving(d)'
      BY <1>0, <2>1, <3>1, LeavingTaken
    <3>2. ctl'[h] = ctl[h] \/ ctl'[h].cluster = c
      BY <1>7, <1>0, <2>3
      DEF Dispose, ControllerType, Controller, ManagerType, Linked
    <3> QED
      BY <1>7, <1>0, <2>a, <2>1, <2>3, <3>1, <3>2, BlankType
      DEF Dispose, Leaving, CompleteAt, Full, ControllerType, Controller,
          ManagerType, Ready
  <2> QED
    BY <2>2, <2>3
<1>8. ASSUME NEW c \in Clusters, NEW v \in Values, Create(c, v)
      PROVE  Complete'
  <2> SUFFICES ASSUME NEW h \in Handles
               PROVE  CompleteAt(h)'
    BY DEF Complete
  <2>a. CompleteAt(h)
    BY DEF Complete
  <2>1. UNCHANGED watching /\ Taken(c, v) /\ sync = Ready
    BY <1>8, <1>0 DEF Create, Taken, SyncOK
  <2>2. CASE ctl[h].cluster = c
    <3>1. Leaving(c) => Leaving(c)'
      BY <1>0, <2>1, LeavingTaken DEF Values
    <3> QED
      BY <1>8, <1>0, <2>a, <2>1, <2>2, <3>1, BlankType
      DEF Create, CompleteAt, Full, ControllerType, Controller, ManagerType,
          Ready
  <2>3. CASE ctl[h].cluster # c
    <3>1. ASSUME NEW d, d # c, Leaving(d)
          PROVE  Leaving(d)'
      BY <1>0, <2>1, <3>1, LeavingTaken
    <3>2. ctl'[h] = ctl[h] \/ ctl'[h].cluster = c
      BY <1>8, <1>0, <2>3
      DEF Create, ControllerType, Controller, ManagerType, Linked
    <3> QED
      BY <1>8, <1>0, <2>a, <2>1, <2>3, <3>1, <3>2, BlankType
      DEF Create, Leaving, CompleteAt, Full, ControllerType, Controller,
          ManagerType, Ready
  <2> QED
    BY <2>2, <2>3
<1>9. ASSUME NEW c \in Clusters, NEW v \in Values, Update(c, v)
      PROVE  Complete'
  <2> SUFFICES ASSUME NEW h \in Handles
               PROVE  CompleteAt(h)'
    BY DEF Complete
  <2>a. CompleteAt(h)
    BY DEF Complete
  <2>1. UNCHANGED watching /\ Taken(c, v) /\ sync = Ready
    BY <1>9, <1>0 DEF Update, Taken, SyncOK
  <2>2. CASE ctl[h].cluster = c
    <3>1. Leaving(c) => Leaving(c)'
      BY <1>0, <2>1, LeavingTaken DEF Values
    <3> QED
      BY <1>9, <1>0, <2>a, <2>1, <2>2, <3>1, BlankType
      DEF Update, CompleteAt, Full, ControllerType, Controller, ManagerType,
          Ready
  <2>3. CASE ctl[h].cluster # c
    <3>1. ASSUME NEW d, d # c, Leaving(d)
          PROVE  Leaving(d)'
      BY <1>0, <2>1, <3>1, LeavingTaken
    <3>2. ctl'[h] = ctl[h] \/ ctl'[h].cluster = c
      BY <1>9, <1>0, <2>3
      DEF Update, ControllerType, Controller, ManagerType, Linked
    <3> QED
      BY <1>9, <1>0, <2>a, <2>1, <2>3, <3>1, <3>2, BlankType
      DEF Update, Leaving, CompleteAt, Full, ControllerType, Controller,
          ManagerType, Ready
  <2> QED
    BY <2>2, <2>3
<1>10. CASE DisposeEnds
  <2> SUFFICES ASSUME NEW h \in Handles
               PROVE  CompleteAt(h)'
    BY DEF Complete
  <2>a. CompleteAt(h)
    BY DEF Complete
  <2>1. Findable(sync.ctl) /\ sync.ctl \in Handles /\ ctl[sync.ctl].cluster = sync.cluster
    BY <1>10, <1>0, Lives DEF DisposeEnds, SyncOK, Linked
  <2>2. CASE h = sync.ctl
    <3>1. ctl'[h].cluster = None \/ ctl'[h].disposed
      BY <1>10, <1>0, <2>1, <2>2, BlankType
      DEF DisposeEnds, Findable, ControllerType, Controller
    <3> QED
      BY <3>1 DEF CompleteAt
  <2>3. CASE h # sync.ctl
    <3>1. ctl'[h] = ctl[h] /\ UNCHANGED <<watching, news>>
      BY <1>10, <1>0, <2>3 DEF DisposeEnds, ControllerType
    <3>2. CASE ctl[h].cluster = sync.cluster
      <4>1. Free(h) \/ Left(h)
        BY <1>10, <1>0, <2>1, <2>3, <3>2
        DEF DisposeEnds, Life, Creating, Findable
      <4> QED
        BY <3>1, <4>1, BlankType DEF Free, Left, CompleteAt
    <3>3. CASE ctl[h].cluster # sync.cluster
      BY SMTT(60), <1>10, <2>a, <3>1, <3>3 DEF DisposeEnds, CompleteAt, Full, Leaving
    <3> QED
      BY <3>2, <3>3
  <2> QED
    BY <2>2, <2>3
<1>11. CASE ReadCertificates
  <2> SUFFICES ASSUME NEW h \in Handles
               PROVE  CompleteAt(h)'
    BY DEF Complete
  <2>a. CompleteAt(h)
    BY DEF Complete
  <2>1. /\ sync.ctl \in Handles /\ sync.cluster \in Clusters /\ sync.value # None
        /\ Creating(sync.ctl)
    BY <1>11, <1>0, Lives DEF ReadCertificates, SyncOK
  <2>2. CASE h = sync.ctl
    <3> DEFINE c == sync.cluster
    <3>1. /\ UNCHANGED <<watching, news>> /\ ctl'[h].cluster = c
          /\ ctl'[h].certs = certs[c] /\ ctl[h].cluster = c
      BY <1>11, <1>0, <2>1, <2>2
      DEF ReadCertificates, Creating, ControllerType, Controller
    <3>2. CASE meta[c] # None
      BY <2>1, <3>1, <3>2 DEF Certified, CompleteAt, Full
    <3>3. CASE ~watching
      BY <3>1, <3>3 DEF CompleteAt, Leaving
    <3>4. CASE meta[c] = None /\ watching
      <4>1. LastIs(news, c, Pending(c), None) /\ Pending(c) # None
        BY <2>1, <3>4 DEF LastWord, Pending
      <4>2. \E i \in DOMAIN news : news[i] = Event(c, None)
        BY <4>1 DEF LastIs
      <4> QED
        BY <3>1, <4>2 DEF CompleteAt, Leaving
    <3> QED
      BY <3>2, <3>3, <3>4
  <2>3. CASE h # sync.ctl
    <3>1. ctl'[h] = ctl[h] /\ UNCHANGED <<watching, news>>
      BY <1>11, <1>0, <2>3 DEF ReadCertificates, ControllerType
    <3> QED
      BY <1>11, <2>a, <2>3, <3>1 DEF ReadCertificates, CompleteAt, Full, Leaving
  <2> QED
    BY <2>2, <2>3
<1>12. CASE Listed
  <2> SUFFICES ASSUME NEW h \in Handles
               PROVE  CompleteAt(h)'
    BY DEF Complete
  <2>a. CompleteAt(h)
    BY DEF Complete
  <2>1. UNCHANGED <<watching, news>>
    BY <1>12 DEF Listed
  <2>2. ASSUME NEW d, Leaving(d)
        PROVE  Leaving(d)'
    BY <1>12, <1>0, <2>1, <2>2 DEF Listed, Leaving, SyncOK
  <2> QED
    BY <1>12, <1>0, <2>a, <2>2, BlankType
    DEF Listed, Leaving, CompleteAt, Full, ControllerType, Controller, Ready
<1>13. CASE UpdateClusterSettings
  <2> SUFFICES ASSUME NEW h \in Handles
               PROVE  CompleteAt(h)'
    BY DEF Complete
  <2>a. CompleteAt(h)
    BY DEF Complete
  <2>1. UNCHANGED <<watching, news>>
    BY <1>13 DEF UpdateClusterSettings
  <2>2. ASSUME NEW d, Leaving(d)
        PROVE  Leaving(d)'
    BY <1>13, <1>0, <2>1, <2>2 DEF UpdateClusterSettings, Leaving, SyncOK
  <2> QED
    BY <1>13, <1>0, <2>a, <2>2, BlankType
    DEF UpdateClusterSettings, Leaving, CompleteAt, Full, ControllerType,
        Controller, Ready
<1>14. ASSUME NEW k \in Handles, Apply(k)
      PROVE  Complete'
  <2> SUFFICES ASSUME NEW h \in Handles
               PROVE  CompleteAt(h)'
    BY DEF Complete
  <2>a. CompleteAt(h)
    BY DEF Complete
  <2>1. /\ UNCHANGED <<watching, news, sync>> /\ ctl'[h].cluster = ctl[h].cluster
        /\ ctl'[h].disposed = ctl[h].disposed
    BY <1>14, <1>0 DEF Apply, ControllerType, Controller
  <2>2. Full(h) => Full(h)'
    <3> SUFFICES ASSUME NEW n \in Certs, ctl[h].certs[n] # None
                 PROVE  ctl'[h].certs[n] # None
      BY DEF Full
    <3>1. CASE h = k /\ worker[k].key = n
      <4>1. worker[k].value \in Calls
        BY <1>0, <3>1 DEF EventsOK
      <4>2. ctl'[h].certs[n] = worker[k].value
        BY <1>14, <1>0, <3>1 DEF Apply, ControllerType, Controller
      <4> QED
        BY <4>1, <4>2 DEF Values
    <3>2. CASE ~(h = k /\ worker[k].key = n)
      BY <1>14, <1>0, <3>2 DEF Apply, ControllerType, Controller
    <3> QED
      BY <3>1, <3>2
  <2> QED
    BY <2>a, <2>1, <2>2 DEF CompleteAt, Leaving
<1>15. ASSUME NEW k \in Handles, Cancelled(k)
      PROVE  Complete'
  <2> SUFFICES ASSUME NEW h \in Handles
               PROVE  CompleteAt(h)'
    BY DEF Complete
  <2>a. CompleteAt(h)
    BY DEF Complete
  <2>1. UNCHANGED <<watching, news>>
    BY <1>15 DEF Cancelled
  <2>2. ASSUME NEW d, Leaving(d)
        PROVE  Leaving(d)'
    BY <1>15, <1>0, <2>1, <2>2 DEF Cancelled, Leaving, SyncOK
  <2> QED
    BY ZenonT(60), <1>15, <1>0, <2>a, <2>2, BlankType
    DEF Cancelled, Leaving, CompleteAt, Full, ControllerType, Controller,
        WorkerEnds
<1>16. ASSUME NEW k \in Handles, WatchEnds(k)
      PROVE  Complete'
  <2> SUFFICES ASSUME NEW h \in Handles
               PROVE  CompleteAt(h)'
    BY DEF Complete
  <2>a. CompleteAt(h)
    BY DEF Complete
  <2>1. UNCHANGED <<watching, news>>
    BY <1>16 DEF WatchEnds
  <2>2. ASSUME NEW d, Leaving(d)
        PROVE  Leaving(d)'
    BY <1>16, <1>0, <2>1, <2>2 DEF WatchEnds, Leaving, SyncOK
  <2> QED
    BY SMTT(60), <1>16, <1>0, <2>a, <2>2, BlankType
    DEF WatchEnds, Leaving, CompleteAt, Full, ControllerType, Controller,
        WorkerEnds
<1>17. CASE ClusterWatchEnds
  BY <1>17 DEF ClusterWatchEnds, Spend, Complete, CompleteAt, Full, Leaving
<1>18. CASE ServerStops
  <2> SUFFICES ASSUME NEW h \in Handles
               PROVE  CompleteAt(h)'
    BY DEF Complete
  <2>a. CompleteAt(h)
    BY DEF Complete
  <2> QED
    BY <1>18, <1>0, BlankType DEF ServerStops, GoDown, CompleteAt
<1>19. CASE ReadFails
  <2> SUFFICES ASSUME NEW h \in Handles
               PROVE  CompleteAt(h)'
    BY DEF Complete
  <2>a. CompleteAt(h)
    BY DEF Complete
  <2> QED
    BY <1>19, <1>0, BlankType DEF ReadFails, GoDown, CompleteAt
<1>20. CASE RegisterFails
  <2> SUFFICES ASSUME NEW h \in Handles
               PROVE  CompleteAt(h)'
    BY DEF Complete
  <2>a. CompleteAt(h)
    BY DEF Complete
  <2>1. CASE server = "syncing"
    BY <1>20, <2>1, BlankType DEF RegisterFails, GoDown, CompleteAt
  <2>2. CASE server # "syncing"
    <3>1. /\ UNCHANGED <<watching, news>> /\ sync.pc = "keys" /\ sync'.pc = "idle"
          /\ ctl'[h] = ctl[h] \/ ctl'[h].cluster = None
      BY <1>20, <1>0, <2>2, BlankType DEF RegisterFails, Ready, ControllerType
    <3> QED
      BY <2>a, <3>1 DEF CompleteAt, Full, Leaving
  <2> QED
    BY <2>1, <2>2
<1>21. ASSUME NEW k \in Handles, Panic(k)
      PROVE  Complete'
  <2> SUFFICES ASSUME NEW h \in Handles
               PROVE  CompleteAt(h)'
    BY DEF Complete
  <2>a. CompleteAt(h)
    BY DEF Complete
  <2> QED
    BY <1>21, <1>0, BlankType DEF Panic, GoDown, CompleteAt
<1> QED
  BY <1>1, <1>2, <1>3, <1>4, <1>5, <1>6, <1>7, <1>8, <1>9, <1>10, <1>11, <1>12,
     <1>13, <1>14, <1>15, <1>16, <1>17, <1>18, <1>19, <1>20, <1>21
  DEF Next, Sync, Work, Call, NewCluster, SaveCertificate, NewClusterFails,
      ReadBegin, Synced, Receive, LookUp, Check, AgentChanges, ReadEnd

-----------------------------------------------------------------------------
(* The theorems *)

LEMMA InitOK == Init => ClusterInvariant
<1> SUFFICES ASSUME Init PROVE ClusterInvariant
  OBVIOUS
<1>1. TypeOK
  <2>1. StoreType /\ CallType /\ SyncType /\ ManagerType
    BY BlankType
    DEF Init, StoreType, CallType, SyncType, ManagerType, NotCalled, Ready
  <2>2. ControllerType /\ WorkerType /\ OtherType /\ Linked
    BY BlankType
    DEF Init, ControllerType, WorkerType, OtherType, Linked, Resting
  <2>3. NewsType /\ ChannelType
    BY DEF Init, NewsType, ChannelType
  <2> QED
    BY <2>1, <2>2, <2>3, TypeParts
<1>2. SyncOK /\ ServerOK /\ EventsOK
  BY DEF Init, SyncOK, ServerOK, EventsOK, Running, Resting, Ready
<1>3. LifeCycle
  BY DEF Init, LifeCycle, Life, Free, NotListed, Ready
<1>4. LastWord /\ Certified
  BY DEF Init, LastWord, Certified, NotCalled
<1>5. LastCertificate /\ Complete
  BY BlankType DEF Init, LastCertificate, Mirrors, Follows, Complete, CompleteAt
<1> QED
  BY <1>1, <1>2, <1>3, <1>4, <1>5 DEF ClusterInvariant, Structure

LEMMA InvariantStep == ClusterInvariant /\ [Next]_vars => ClusterInvariant'
<1> SUFFICES ASSUME ClusterInvariant, [Next]_vars
             PROVE  ClusterInvariant'
  OBVIOUS
<1>1. CASE Next
  <2>1. /\ Structure /\ LastWord /\ LastCertificate /\ Certified /\ Complete
        /\ TypeOK /\ SyncOK /\ LifeCycle /\ ServerOK /\ EventsOK
    BY DEF ClusterInvariant, Structure
  <2>2. TypeOK' /\ SyncOK' /\ ServerOK' /\ EventsOK' /\ LifeCycle'
    BY <1>1, <2>1, TypeStep, SyncOKStep, ServerOKStep, EventsOKStep,
       LifeCycleStep
  <2>3. LastWord' /\ Certified' /\ LastCertificate' /\ Complete'
    BY <1>1, <2>1, LastWordStep, CertifiedStep, LastCertificateStep,
       CompleteStep
  <2> QED
    BY <2>2, <2>3 DEF ClusterInvariant, Structure
<1>2. CASE UNCHANGED vars
  <2>1. TypeOK' /\ SyncOK' /\ ServerOK' /\ EventsOK'
    BY ZenonT(60), <1>2
    DEF vars, ClusterInvariant, Structure, TypeOK, SyncOK, ServerOK, EventsOK,
                Running
  <2>2. LifeCycle'
    BY <1>2
    DEF vars, ClusterInvariant, Structure, LifeCycle, Life, Free, Creating,
                Findable, Left, NotListed, Watched
  <2>3. LastWord' /\ Certified'
    BY <1>2
    DEF vars, ClusterInvariant, LastWord, LastIs, Pending, Known, Certified
  <2>4. LastCertificate'
    BY <1>2
    DEF vars, ClusterInvariant, LastCertificate, Mirrors, LastIs, Follows, Held
  <2>5. Complete'
    BY <1>2 DEF vars, ClusterInvariant, Complete, CompleteAt, Full, Leaving
  <2> QED
    BY <2>1, <2>2, <2>3, <2>4, <2>5 DEF ClusterInvariant, Structure
<1> QED
  BY <1>1, <1>2

\* What the parts say together holds in every reachable state: the manager's
\* goroutine, the goroutines of the controllers, the handlers and the stops of
\* the server leave no state outside it.
THEOREM Invariance == Spec => []ClusterInvariant
  BY InitOK, InvariantStep, PTL DEF Spec

\* State keeps its form; a listed controller is that of its cluster
\* (doClusterChange, watchChanges).
THEOREM TypeCorrect == Spec => []TypeOK
<1>1. ClusterInvariant => TypeOK
  BY DEF ClusterInvariant, Structure
<1> QED
  BY <1>1, Invariance, PTL

\* A controller that follows its cluster is the one that clients find, and
\* after Dispose nobody finds it (doClusterChange).
THEOREM NoStray == Spec => []NoStrayController
<1>1. ClusterInvariant => NoStrayController
  <2> SUFFICES ASSUME ClusterInvariant, NEW k \in Handles, ctl[k].cluster # None
               PROVE  LET c == ctl[k].cluster
                      IN  \/ listed[c] = k /\ ~ctl[k].disposed
                          \/ /\ listed[c] # k
                             /\ ctl[k].disposed \/ sync.pc \in {"certs", "keys"}
                          \/ sync.pc = "dispose" /\ sync.ctl = k
    BY DEF NoStrayController
  <2>1. Life(k) /\ SyncOK /\ SyncType
    BY TypeParts DEF ClusterInvariant, Structure, LifeCycle
  <2> QED
    BY <2>1, BlankType
    DEF Life, Free, Creating, Findable, Left, NotListed, SyncOK
<1> QED
  BY <1>1, Invariance, PTL

\* When nothing about a cluster is under way, the manager has it exactly if it
\* is in ETCD, with its last settings (fullSync, watchClusterChanges).
THEOREM Registry == Spec => []RegistryMirrorsEtcd
<1>1. ClusterInvariant => RegistryMirrorsEtcd
  <2> SUFFICES ASSUME ClusterInvariant, NEW c \in Clusters, ~lost[c], watching,
                      server # "syncing", sync.cluster # c,
                      ~\E i \in DOMAIN news : news[i].key = c
               PROVE  Settled(c)
    BY DEF RegistryMirrorsEtcd
  <2>1. /\ ServerOK /\ LastIs(news, c, Pending(c), meta[c]) /\ ManagerType
        /\ SyncOK /\ LifeCycle
    BY TypeParts DEF ClusterInvariant, Structure, LastWord
  <2>2. Pending(c) = Known(c)
    BY <2>1 DEF ServerOK, Pending
  <2>3. Known(c) = meta[c]
    BY <2>1, <2>2 DEF LastIs, Event
  <2>4. listed[c] # None => ctl[listed[c]].settings # None
    BY <2>1, Lives DEF ManagerType, NotListed, Findable
  <2> QED
    BY <2>3, <2>4 DEF Known, Settled
<1> QED
  BY <1>1, Invariance, PTL

\* A client that finds a cluster finds all of its certificates (NewCluster,
\* Initialize).
THEOREM Certificates == Spec => []ListedHasCertificates
<1>1. ClusterInvariant => ListedHasCertificates
  <2> SUFFICES ASSUME ClusterInvariant, NEW c \in Clusters \ {Pool}, NEW n \in Certs,
                      listed[c] # None, ~Leaving(c)
               PROVE  ctl[listed[c]].certs[n] # None
    BY DEF ListedHasCertificates
  <2>1. /\ ManagerType /\ SyncOK /\ LifeCycle /\ Linked /\ \A k \in Handles : CompleteAt(k)
    BY TypeParts DEF ClusterInvariant, Structure, Complete
  <2>2. /\ listed[c] \in Handles /\ Findable(listed[c]) /\ ctl[listed[c]].cluster = c
    BY <2>1, Lives DEF ManagerType, NotListed, Linked
  <2>3. ~ctl[listed[c]].disposed
    BY <2>1, <2>2 DEF Findable, SyncOK, Linked, Leaving
  <2> QED
    BY <2>1, <2>2, <2>3 DEF CompleteAt, Full, Findable
<1> QED
  BY <1>1, Invariance, PTL

\* A controller that has handled its events has the certificates as they are in
\* ETCD, unless one changed between its read and its watch (watchChanges,
\* OnCertificateChanged).
THEOREM CertificatesFollowed == Spec => []CertificatesMirrorEtcd
<1>1. ClusterInvariant => CertificatesMirrorEtcd
  <2> SUFFICES ASSUME ClusterInvariant, NEW k \in Handles, NEW n \in Certs,
                      worker[k].pc = "idle", channel[k] = <<>>, ~missed[k],
                      ~ctl[k].disposed, certs[ctl[k].cluster][n] # None
               PROVE  ctl[k].certs[n] = certs[ctl[k].cluster][n]
    BY DEF CertificatesMirrorEtcd
  <2>1. SyncOK /\ Life(k) /\ EventsOK /\ Mirrors(k, n)
    BY DEF ClusterInvariant, Structure, LifeCycle, LastCertificate
  <2>2. Follows(k)
    BY <2>1, BlankType
    DEF Life, Free, Creating, Findable, Left, Follows, Resting
  <2>3. LastIs(channel[k], n, Held(k, n), certs[ctl[k].cluster][n])
    BY <2>1, <2>2 DEF Mirrors
  <2>4. Held(k, n) = certs[ctl[k].cluster][n]
    BY <2>3 DEF LastIs
  <2> QED
    BY <2>1, <2>4 DEF Held, EventsOK
<1> QED
  BY <1>1, Invariance, PTL

=============================================================================
