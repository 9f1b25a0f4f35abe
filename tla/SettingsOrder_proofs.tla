------------------------ MODULE SettingsOrder_proofs ------------------------
(***************************************************************************)
(* The settings of a cluster change in the order in which they were        *)
(* written: fullSync, the watch and the changes that come in meanwhile.    *)
(* Builds on the invariant of ClusterSync_proofs.                          *)
(***************************************************************************)
EXTENDS ClusterSync_proofs

USE PoolAssumption, AgentAssumption, NoneAssumption, BudgetAssumption
USE DEF etcd, manager, workers, Faults

-----------------------------------------------------------------------------
(* The inductive invariant *)

\* The server has the settings v of c: read, in hand, or found by clients.
Holds(c, v) ==
    \/ todo[c] = v
    \/ sync.cluster = c /\ sync.value = v
    \/ Known(c) = v

\* Every call writes metadata once: until it has, they are nowhere.
Unwritten ==
    \A g \in Calls : call[g].pc # "ended" =>
        \A c \in Clusters : Known(c) # g /\ ~Ahead(c, g)

Distinct ==
    \A i, j \in DOMAIN news :
        i # j /\ news[i] = news[j] => news[i].value \notin Calls

\* A change of c is in hand that replaces or withdraws what clients find.
Replacing(c) == sync.cluster = c /\ sync.pc \in {"update", "dispose"}

\* Event i is not the next change of its cluster.
Later(i) ==
    \/ \E j \in DOMAIN news : j < i /\ news[j].key = news[i].key
    \/ Replacing(news[i].key)

\* Only the next change of a cluster may be one that the server has already.
LaterIsNew ==
    \A i \in DOMAIN news :
        Later(i) /\ news[i].value \in Calls => ~Holds(news[i].key, news[i].value)

\* What is being replaced is not in ETCD any more.
OldIsGone ==
    \A c \in Clusters, g \in Calls :
        Replacing(c) /\ Known(c) = g /\ sync.value # g => meta[c] # g

\* fullSync comes to a cluster once.
ReadOnce ==
    \A c \in Clusters : todo[c] # None => Known(c) = None /\ sync.cluster # c

NewsWatched == news # <<>> => watching

Order == Unwritten /\ Distinct /\ LaterIsNew /\ OldIsGone /\ ReadOnce /\ NewsWatched

-----------------------------------------------------------------------------
(* What clients find *)

LEMMA CallsAreValues == \A g \in Calls : g \in Values /\ g # None
  BY DEF Values

LEMMA NewsParts ==
    ASSUME Structure
    PROVE  /\ DOMAIN news \subseteq Nat \ {0}
           /\ \A i \in DOMAIN news :
                 /\ news[i].key \in Clusters
                 /\ news[i] = Event(news[i].key, news[i].value)
<1> DEFINE E == [key : Clusters, value : Values \cup {None}]
<1>1. news \in Seq(E)
  BY TypeParts DEF Structure, NewsType
<1>2. \A e \in E : e.key \in Clusters /\ e = Event(e.key, e.value)
  BY DEF Event
<1> HIDE DEF E
<1>3. DOMAIN news = 1..Len(news) /\ \A i \in DOMAIN news : news[i] \in E
  BY <1>1
<1> QED
  BY <1>2, <1>3

LEMMA Found ==
    ASSUME Structure, NEW c \in Clusters, listed[c] # None
    PROVE  Known(c) \in Values
<1>1. SyncOK /\ LifeCycle /\ ManagerType
  BY TypeParts DEF Structure
<1>2. Findable(listed[c])
  BY <1>1, Lives DEF ManagerType, NotListed
<1> QED
  BY <1>2 DEF Findable, Known

\* It changes at the end of a change in hand, or when the server goes down.
LEMMA KnownStep ==
    ASSUME Structure, Next, NEW c \in Clusters
    PROVE  \/ Known(c)' = Known(c)
           \/ Known(c)' = None /\ ~Running'
           \/ /\ sync.cluster = c /\ sync.pc \in {"keys", "update", "dispose"}
              /\ sync' = Ready /\ Known(c)' = sync.value
              /\ UNCHANGED <<meta, todo, news>>
<1> DEFINE Goal == \/ Known(c)' = Known(c)
                   \/ Known(c)' = None /\ ~Running'
                   \/ /\ sync.cluster = c
                      /\ sync.pc \in {"keys", "update", "dispose"}
                      /\ sync' = Ready /\ Known(c)' = sync.value
                      /\ UNCHANGED <<meta, todo, news>>
<1>0. /\ SyncType /\ ManagerType /\ ControllerType /\ Linked
      /\ SyncOK /\ LifeCycle /\ \A k \in Handles : Life(k)
  BY TypeParts DEF Structure, LifeCycle
<1>1. CASE UNCHANGED <<listed, ctl>>
  BY <1>1 DEF Known
<1>2. ASSUME NEW how \in {"down", "dead"}, GoDown(how)
      PROVE  Goal
  BY <1>2 DEF GoDown, Known, Running
<1>3. ASSUME NEW d \in Clusters, Dispose(d)
      PROVE  Goal
  BY <1>3, <1>0 DEF Dispose, Known, ManagerType, ControllerType, Controller
<1>4. ASSUME NEW d \in Clusters, NEW v \in Values, Create(d, v)
      PROVE  Goal
  <2>1. PICK k \in Handles :
           /\ ctl[k] = Blank
           /\ ctl' = [ctl EXCEPT ![k] =
                 [cluster |-> d, settings |-> v, certs |-> NoCerts,
                  disposed |-> FALSE, cache |-> TRUE]]
           /\ listed' = listed
    BY <1>4 DEF Create
  <2>2. listed[c] # k
    BY <1>0, <2>1, BlankType DEF Linked
  <2> QED
    BY <1>0, <2>1, <2>2 DEF Known, ManagerType, ControllerType
<1>5. CASE DisposeEnds
  <2> DEFINE k == sync.ctl
  <2>1. /\ k \in Handles /\ listed[sync.cluster] = k /\ sync.value = None
        /\ sync.cluster \in Clusters /\ ctl[k].cluster = sync.cluster
        /\ sync.pc = "dispose" /\ sync' = Ready
    BY <1>5, <1>0 DEF DisposeEnds, SyncOK, Linked
  <2>2. CASE c = sync.cluster
    BY <1>5, <1>0, <2>1, <2>2 DEF DisposeEnds, Known, ManagerType
  <2>3. CASE c # sync.cluster
    <3>1. listed'[c] = listed[c] /\ listed[c] # k
      BY <1>5, <1>0, <2>1, <2>3 DEF DisposeEnds, ManagerType, Linked
    <3> QED
      BY <1>5, <1>0, <3>1 DEF DisposeEnds, Known, ManagerType, ControllerType
  <2> QED
    BY <2>2, <2>3
<1>6. CASE ReadCertificates
  BY <1>6, <1>0
  DEF ReadCertificates, Known, SyncType, ManagerType, ControllerType, Controller
<1>7. CASE Listed
  <2>1. /\ Creating(sync.ctl) /\ sync.pc = "keys" /\ sync' = Ready
        /\ sync.ctl \in Handles
    BY <1>7, <1>0, Lives DEF Listed, SyncOK
  <2>2. CASE c = sync.cluster
    BY <1>7, <1>0, <2>1, <2>2 DEF Listed, Creating, Known, ManagerType, SyncType
  <2>3. CASE c # sync.cluster
    BY <1>7, <1>0, <2>3 DEF Listed, Known, ManagerType
  <2> QED
    BY <2>2, <2>3
<1>8. CASE UpdateClusterSettings
  <2> DEFINE k == sync.ctl
  <2>1. /\ k \in Handles /\ listed[sync.cluster] = k
        /\ sync.cluster \in Clusters /\ ctl[k].cluster = sync.cluster
        /\ sync.pc = "update" /\ sync' = Ready
    BY <1>8, <1>0 DEF UpdateClusterSettings, SyncOK, Linked
  <2>2. CASE c = sync.cluster
    BY <1>8, <1>0, <2>1, <2>2
    DEF UpdateClusterSettings, Known, ManagerType, ControllerType, Controller
  <2>3. CASE c # sync.cluster
    <3>1. listed[c] # k
      BY <1>0, <2>1, <2>3 DEF Linked
    <3> QED
      BY <1>8, <1>0, <3>1
      DEF UpdateClusterSettings, Known, ManagerType, ControllerType
  <2> QED
    BY <2>2, <2>3
<1>9. CASE RegisterFails
  <2>1. CASE server = "syncing"
    BY <1>9, <1>2, <2>1 DEF RegisterFails
  <2>2. CASE server # "syncing"
    <3>1. Creating(sync.ctl) /\ sync.ctl \in Handles
      BY <1>9, <1>0, Lives DEF RegisterFails, SyncOK
    <3> QED
      BY <1>9, <1>0, <2>2, <3>1
      DEF RegisterFails, Known, Creating, NotListed, ManagerType, ControllerType
  <2> QED
    BY <2>1, <2>2
<1>10. ASSUME NEW k \in Handles, Apply(k)
       PROVE  Goal
  BY <1>10, <1>0 DEF Apply, Known, ManagerType, ControllerType, Controller
<1>11. ASSUME NEW k \in Handles, WorkerEnds(k), listed' = listed
       PROVE  Goal
  <2>1. listed[c] = k => ctl[k].cache
    BY <1>0, Lives DEF Findable, NotListed
  <2> QED
    BY <1>11, <1>0, <2>1 DEF WorkerEnds, Known, ManagerType, ControllerType
<1>12. CASE ServerStops \/ ReadFails \/ \E k \in Handles : Panic(k)
  BY <1>12, <1>2 DEF ServerStops, ReadFails, Panic
<1>13. ASSUME NEW k \in Handles, Cancelled(k) \/ WatchEnds(k)
       PROVE  Goal
  BY <1>13, <1>11 DEF Cancelled, WatchEnds
<1> QED
  BY <1>1, <1>3, <1>4, <1>5, <1>6, <1>7, <1>8, <1>9, <1>10, <1>12, <1>13
  DEF Next, Sync, Work, Call, Start, CreatePool, NewCluster, SaveCertificate,
      SaveMetadata, NewClusterFails, ClusterRemoved, ReadBegin, AlreadyGone,
      Update, Synced, ClusterWatchEnds, Receive, LookUp, Check, AgentChanges,
      ReadEnd

-----------------------------------------------------------------------------
(* The order of settings *)

\* No event comes or goes, and no change is begun.
LEMMA OrderQuiet ==
    ASSUME Order, Structure, Next, UNCHANGED <<meta, todo, news, watching>>,
           \A g \in Calls : call'[g].pc # "ended" => call[g].pc # "ended",
           \/ sync' = sync \/ sync' = Ready
           \/ /\ sync'.pc = "keys" /\ sync'.cluster = sync.cluster
              /\ sync'.value = sync.value
    PROVE  Order'
<1>0. SyncOK /\ Ready.cluster = None /\ Ready.pc = "idle"
  BY DEF Structure, Ready
<1>1. ASSUME NEW c \in Clusters
      PROVE  /\ sync'.cluster = c => sync.cluster = c /\ sync'.value = sync.value
             /\ Replacing(c)' => sync' = sync /\ Replacing(c)
  BY <1>0, <1>1 DEF Replacing
<1>2. ASSUME NEW c \in Clusters, NEW v \in Calls, Holds(c, v)'
      PROVE  Holds(c, v)
  BY <1>1, <1>2, KnownStep, CallsAreValues DEF Holds
<1>3. Unwritten'
  <2> SUFFICES ASSUME NEW g \in Calls, call'[g].pc # "ended", NEW c \in Clusters,
                      Known(c)' = g \/ Ahead(c, g)'
               PROVE  FALSE
    BY DEF Unwritten
  <2>1. ~Holds(c, g) /\ ~Ahead(c, g)
    BY DEF Order, Unwritten, Holds, Ahead
  <2> QED
    BY <1>2, <2>1 DEF Holds, Ahead
<1>4. LaterIsNew'
  <2> SUFFICES ASSUME NEW i \in DOMAIN news, Later(i)', news[i].value \in Calls,
                      Holds(news[i].key, news[i].value)'
               PROVE  FALSE
    BY DEF LaterIsNew
  <2>1. news[i].key \in Clusters
    BY NewsParts
  <2>2. Later(i)
    BY <1>1, <2>1 DEF Later
  <2> QED
    BY <1>2, <2>1, <2>2 DEF Order, LaterIsNew
<1>5. OldIsGone'
  <2> SUFFICES ASSUME NEW c \in Clusters, NEW g \in Calls, Replacing(c)',
                      Known(c)' = g, sync'.value # g
               PROVE  meta[c] # g
    BY DEF OldIsGone
  <2>1. sync' = sync /\ Replacing(c) /\ sync # Ready
    BY <1>0, <1>1 DEF Replacing
  <2>2. Known(c) = g
    BY <2>1, KnownStep, CallsAreValues
  <2> QED
    BY <2>1, <2>2 DEF Order, OldIsGone
<1>6. ReadOnce'
  <2> SUFFICES ASSUME NEW c \in Clusters, todo[c] # None
               PROVE  Known(c)' = None /\ sync'.cluster # c
    BY DEF ReadOnce
  <2> QED
    BY <1>1, KnownStep DEF Order, ReadOnce
<1> QED
  BY <1>3, <1>4, <1>5, <1>6 DEF Order, Distinct, NewsWatched

\* The next change is taken.
LEMMA OrderTaken ==
    ASSUME Order, Structure, LastWord, NEW c \in Clusters,
           NEW v \in Values \cup {None}, Taken(c, v),
           UNCHANGED <<meta, watching, call>>,
           \A d \in Clusters : Known(d)' = Known(d),
           \/ sync' = sync /\ v = None
           \/ sync'.cluster = c /\ sync'.value = v,
           Replacing(c)' => Known(c) # None
    PROVE  Order'
<1> DEFINE E == [key : Clusters, value : Values \cup {None}]
<1>0. /\ sync.cluster = None /\ sync.pc = "idle"
      /\ news \in Seq(E) /\ todo \in [Clusters -> Values \cup {None}] /\ ServerOK
      /\ \A e \in E : e = Event(e.key, e.value)
  BY TypeParts DEF Structure, SyncOK, Taken, Ready, NewsType, ManagerType, Event
<1>1. ASSUME NEW d \in Clusters
      PROVE  /\ sync'.cluster = d => d = c /\ sync'.value = v
             /\ Replacing(d)' => d = c
  BY <1>0, <1>1 DEF Replacing
<1>2. CASE server = "syncing" /\ todo[c] = v /\ v # None
           /\ todo' = [todo EXCEPT ![c] = None] /\ news' = news
  <2>1. ASSUME NEW d \in Clusters
        PROVE  /\ todo'[d] = IF d = c THEN None ELSE todo[d]
               /\ ~Replacing(d)'
               /\ \A g \in Calls : Holds(d, g)' => Holds(d, g)
    BY <1>0, <1>1, <1>2 DEF Order, ReadOnce, Holds
  <2>2. Unwritten'
    <3> SUFFICES ASSUME NEW g \in Calls, call[g].pc # "ended", NEW d \in Clusters,
                        Known(d)' = g \/ Ahead(d, g)'
                 PROVE  FALSE
      BY DEF Unwritten
    <3>1. ~Holds(d, g) /\ ~Ahead(d, g)
      BY DEF Order, Unwritten, Holds, Ahead
    <3> QED
      BY <1>2, <2>1, <3>1 DEF Holds, Ahead
  <2>3. LaterIsNew'
    <3> SUFFICES ASSUME NEW i \in DOMAIN news, Later(i)', news[i].value \in Calls,
                        Holds(news[i].key, news[i].value)'
                 PROVE  FALSE
      BY <1>2 DEF LaterIsNew
    <3>1. news[i].key \in Clusters
      BY NewsParts
    <3>2. Later(i)
      BY <1>2, <2>1, <3>1 DEF Later
    <3> QED
      BY <1>2, <2>1, <3>1, <3>2 DEF Order, LaterIsNew
  <2>4. OldIsGone' /\ ReadOnce'
    BY <1>1, <2>1 DEF Order, OldIsGone, ReadOnce
  <2> QED
    BY <1>2, <2>2, <2>3, <2>4 DEF Order, Distinct, NewsWatched
<1>3. CASE server \in {"pool", "up"} /\ news # <<>> /\ Head(news) = Event(c, v)
           /\ news' = Tail(news) /\ todo' = todo
  <2> HIDE DEF E
  <2>1. /\ \A d \in Clusters : todo[d] = None
        /\ watching
    BY <1>0, <1>3 DEF ServerOK, Order, NewsWatched
  <2>2. /\ 1 \in DOMAIN news /\ news[1] = Event(c, v)
        /\ news[1].key = c /\ news[1].value = v
        /\ \A i \in DOMAIN news' : i + 1 \in DOMAIN news /\ news'[i] = news[i + 1]
        /\ DOMAIN news \subseteq Nat /\ DOMAIN news' \subseteq Nat \ {0}
    <3>1. 1 \in DOMAIN news /\ Head(news) = news[1]
      BY <1>0, <1>3, TailAt
    <3>2. \A i \in DOMAIN news' : i + 1 \in DOMAIN news /\ news'[i] = news[i + 1]
      BY <1>0, <1>3, TailAt
    <3>3. Tail(news) \in Seq(E)
      BY <1>0, <1>3, SeqType
    <3> QED
      BY <1>0, <1>3, <3>1, <3>2, <3>3 DEF Event
  <2>3. ASSUME NEW d \in Clusters, NEW g \in Calls, Holds(d, g)'
        PROVE  Holds(d, g) \/ (d = c /\ g = v)
    BY <1>1, <1>3, <2>3 DEF Holds
  <2>4. ASSUME NEW d \in Clusters, NEW g \in Calls, Ahead(d, g)'
        PROVE  Ahead(d, g)
    <3>1. CASE \E i \in DOMAIN news' : news'[i] = Event(d, g)
      BY <2>2, <3>1 DEF Ahead
    <3>2. CASE sync'.cluster = d /\ sync'.value = g
      BY <1>1, <2>2, <3>2 DEF Ahead
    <3> QED
      BY <1>3, <2>4, <3>1, <3>2 DEF Ahead
  <2>5. Unwritten'
    BY <2>4 DEF Order, Unwritten
  <2>6. Distinct'
    <3> SUFFICES ASSUME NEW i \in DOMAIN news', NEW j \in DOMAIN news', i # j,
                        news'[i] = news'[j]
                 PROVE  news'[i].value \notin Calls
      BY DEF Distinct
    <3>1. i + 1 # j + 1
      BY <2>2
    <3> QED
      BY <2>2, <3>1 DEF Order, Distinct
  <2>7. LaterIsNew'
    <3> SUFFICES ASSUME NEW i \in DOMAIN news', Later(i)', NEW d, NEW g \in Calls,
                        news'[i].key = d, news'[i].value = g, Holds(d, g)'
                 PROVE  FALSE
      BY DEF LaterIsNew
    <3>1. /\ i + 1 \in DOMAIN news /\ news[i + 1] \in E /\ 1 < i + 1
          /\ news[i + 1].key = d /\ news[i + 1].value = g
      BY <1>0, <2>2
    <3>2. d \in Clusters /\ news[i + 1] = Event(d, g)
      BY <1>0, <3>1 DEF E
    <3>3. CASE d = c
      <4>1. Later(i + 1)
        BY <2>2, <3>1, <3>3 DEF Later
      <4>2. g # v
        BY <2>2, <3>1, <3>2, <3>3 DEF Order, Distinct
      <4> QED
        BY <2>3, <3>1, <3>2, <4>1, <4>2 DEF Order, LaterIsNew
    <3>4. CASE d # c
      <4>1. PICK j \in DOMAIN news' : j < i /\ news'[j].key = d
        BY <1>1, <3>2, <3>4 DEF Later
      <4>2. j + 1 \in DOMAIN news /\ j + 1 < i + 1 /\ news[j + 1].key = d
        BY <2>2, <4>1
      <4>3. Later(i + 1)
        BY <3>1, <4>2 DEF Later
      <4> QED
        BY <2>3, <3>1, <3>2, <3>4, <4>3 DEF Order, LaterIsNew
    <3> QED
      BY <3>3, <3>4
  <2>8. OldIsGone'
    <3> SUFFICES ASSUME NEW d \in Clusters, NEW g \in Calls, Replacing(d)',
                        Known(d) = g, sync'.value # g, meta[d] = g
                 PROVE  FALSE
      BY DEF OldIsGone
    <3>1. d = c /\ v # g
      BY <1>1 DEF Replacing
    <3>2. PICK j \in DOMAIN news : j >= 1 /\ news[j] = Event(c, g)
      BY <2>1, <2>2, <3>1 DEF LastWord, LastIs
    <3>3. j # 1 /\ news[j].key = c /\ news[j].value = g
      BY <2>2, <3>1, <3>2 DEF Event
    <3>4. Later(j)
      BY <2>2, <3>2, <3>3 DEF Later
    <3> QED
      BY <3>1, <3>3, <3>4 DEF Order, LaterIsNew, Holds
  <2>9. ReadOnce' /\ NewsWatched'
    BY <1>3, <2>1 DEF ReadOnce, NewsWatched
  <2> QED
    BY <2>5, <2>6, <2>7, <2>8, <2>9 DEF Order
<1> QED
  BY <1>2, <1>3 DEF Taken

\* A write: of a call that has not written yet, or of no call.
LEMMA OrderPut ==
    ASSUME Order, Structure, NEW c \in Clusters, NEW v \in Values \cup {None},
           PutMetadata(c, v),
           UNCHANGED <<todo, watching, sync, listed, ctl>>,
           v \in Calls => call[v].pc # "ended" /\ call'[v].pc = "ended",
           \A g \in Calls : call'[g].pc # "ended" => call[g].pc # "ended"
    PROVE  Order'
<1> DEFINE E == [key : Clusters, value : Values \cup {None}]
           e == Event(c, v)
           n == Len(news) + 1
<1>0. /\ meta' = [meta EXCEPT ![c] = v]
      /\ news \in Seq(E) /\ e \in E /\ e.key = c /\ e.value = v
      /\ meta \in [Clusters -> Values \cup {None}]
  BY TypeParts DEF Structure, NewsType, StoreType, PutMetadata, Event
<1> HIDE DEF E, e
<1>1. ASSUME NEW d \in Clusters
      PROVE  /\ Known(d)' = Known(d) /\ Replacing(d)' = Replacing(d)
             /\ \A g \in Calls : Holds(d, g)' = Holds(d, g)
             /\ meta'[d] = IF d = c THEN v ELSE meta[d]
  BY <1>0 DEF Known, Replacing, Holds
<1>2. v \in Calls => \A d \in Clusters : ~Holds(d, v) /\ ~Ahead(d, v)
  BY DEF Order, Unwritten, Holds, Ahead
<1>3. OldIsGone' /\ ReadOnce'
  BY <1>1, <1>2 DEF Order, OldIsGone, ReadOnce, Holds
<1>4. CASE ~watching
  <2>1. news' = news
    BY <1>4 DEF PutMetadata
  <2>2. Unwritten'
    BY <1>1, <2>1 DEF Order, Unwritten, Ahead
  <2>3. ASSUME NEW i \in DOMAIN news
        PROVE  news[i].key \in Clusters
    BY NewsParts
  <2>4. LaterIsNew'
    BY <1>1, <2>1, <2>3 DEF Order, LaterIsNew, Later
  <2> QED
    BY <1>3, <2>1, <2>2, <2>4 DEF Order, Distinct, NewsWatched
<1>5. CASE watching
  <2>1. news' = Append(news, e)
    BY <1>5 DEF PutMetadata, e
  <2>2. /\ n \in Nat /\ DOMAIN news = 1..(n - 1) /\ DOMAIN news' = 1..n
        /\ news'[n] = e /\ \A i \in DOMAIN news : news'[i] = news[i]
    BY <1>0, <2>1
  <2>3. \A i \in DOMAIN news' : i = n \/ i \in DOMAIN news
    BY <2>2
  <2>4. ASSUME NEW i \in DOMAIN news
        PROVE  news[i].key \in Clusters /\ news[i] = Event(news[i].key, news[i].value)
    BY NewsParts
  <2>5. Unwritten'
    <3> SUFFICES ASSUME NEW g \in Calls, call'[g].pc # "ended", NEW d \in Clusters,
                        Known(d)' = g \/ Ahead(d, g)'
                 PROVE  FALSE
      BY DEF Unwritten
    <3>1. g # v /\ Known(d) # g /\ ~Ahead(d, g)
      BY DEF Order, Unwritten
    <3>2. \A i \in DOMAIN news' : news'[i] # Event(d, g)
      BY <1>0, <2>2, <2>3, <3>1 DEF Ahead, Event
    <3> QED
      BY <1>1, <3>1, <3>2 DEF Ahead
  <2>6. v \in Calls => \A i \in DOMAIN news : news[i] # e
    BY <1>2 DEF Ahead, e
  <2>7. Distinct'
    <3> SUFFICES ASSUME NEW i \in DOMAIN news', NEW j \in DOMAIN news', i # j,
                        news'[i] = news'[j], news'[i].value \in Calls
                 PROVE  FALSE
      BY DEF Distinct
    <3>1. CASE i = n \/ j = n
      BY <1>0, <2>2, <2>3, <2>6, <3>1
    <3>2. CASE i \in DOMAIN news /\ j \in DOMAIN news
      BY <2>2, <3>2 DEF Order, Distinct
    <3> QED
      BY <2>3, <3>1, <3>2
  <2>8. LaterIsNew'
    <3> SUFFICES ASSUME NEW i \in DOMAIN news', Later(i)', NEW d, NEW g \in Calls,
                        news'[i].key = d, news'[i].value = g, Holds(d, g)'
                 PROVE  FALSE
      BY DEF LaterIsNew
    <3>1. CASE i = n
      BY <1>0, <1>1, <1>2, <2>2, <3>1
    <3>2. CASE i \in DOMAIN news
      <4>1. /\ news'[i] = news[i] /\ news[i].key \in Clusters
            /\ news[i].key = d /\ news[i].value = g /\ Holds(d, g)
        BY <1>1, <2>2, <2>4, <3>2
      <4>2. Later(i)
        <5>1. ASSUME NEW j \in DOMAIN news', j < i
              PROVE  j \in DOMAIN news /\ news'[j] = news[j]
          BY <2>2, <2>3, <3>2, <5>1
        <5> QED
          BY <1>1, <4>1, <5>1 DEF Later
      <4> QED
        BY <2>2, <3>2, <4>1, <4>2 DEF Order, LaterIsNew
    <3> QED
      BY <2>3, <3>1, <3>2
  <2> QED
    BY <1>3, <1>5, <2>5, <2>7, <2>8 DEF Order, NewsWatched
<1> QED
  BY <1>4, <1>5

\* The process ends: only what is in ETCD remains.
LEMMA OrderDown ==
    ASSUME Order, NEW how, GoDown(how), UNCHANGED meta
    PROVE  Order'
<1>1. \A c \in Clusters : Known(c)' = None /\ todo'[c] = None
  BY DEF GoDown, Known
<1>2. news' = <<>> /\ sync'.cluster = None /\ sync'.pc = "idle" /\ sync'.value = None
  BY DEF GoDown, Ready
<1>3. \A g \in Calls : call'[g].pc # "ended" => call[g].pc # "ended"
  BY DEF GoDown, NotCalled
<1>4. Unwritten'
  <2> SUFFICES ASSUME NEW g \in Calls, call'[g].pc # "ended", NEW c \in Clusters,
                      Known(c)' = g \/ Ahead(c, g)'
               PROVE  FALSE
    BY DEF Unwritten
  <2>1. meta[c] # g
    BY <1>3 DEF Order, Unwritten, Ahead
  <2> QED
    BY <1>1, <1>2, <2>1, CallsAreValues DEF Ahead
<1>5. Distinct' /\ LaterIsNew' /\ OldIsGone' /\ NewsWatched'
  BY <1>2 DEF Distinct, LaterIsNew, OldIsGone, Replacing, NewsWatched
<1>6. ReadOnce'
  BY <1>1 DEF ReadOnce
<1> QED
  BY <1>4, <1>5, <1>6 DEF Order

\* The watch begins with the revision of the read.
LEMMA OrderStart ==
    ASSUME Order, Structure, Start
    PROVE  Order'
<1>1. /\ sync.cluster = None /\ sync.pc = "idle" /\ sync.value = None
      /\ \A c \in Clusters : Known(c) = None
  BY DEF Structure, ServerOK, SyncOK, Start, Ready, Known
<1>2. /\ UNCHANGED <<meta, call, sync, listed, ctl>>
      /\ todo' = meta /\ watching'
      /\ \A c \in Clusters : Known(c)' = None
  BY <1>1 DEF Start, Known
<1>3. PICK c \in Clusters : news' = <<>> \/ news' = <<Event(c, meta[c])>>
  BY DEF Start
<1>4. \A i \in DOMAIN news' : i = 1 /\ news'[i] = Event(c, meta[c])
  BY <1>3
<1>5. Unwritten'
  <2> SUFFICES ASSUME NEW g \in Calls, call[g].pc # "ended", NEW d \in Clusters,
                      Known(d)' = g \/ Ahead(d, g)'
               PROVE  FALSE
    BY <1>2 DEF Unwritten
  <2>1. meta[d] # g /\ meta[c] # g
    BY DEF Order, Unwritten, Ahead
  <2> QED
    BY <1>1, <1>2, <1>4, <2>1, CallsAreValues DEF Ahead, Event
<1>6. Distinct'
  BY <1>4 DEF Distinct
<1>7. LaterIsNew' /\ OldIsGone'
  BY <1>1, <1>2, <1>4 DEF LaterIsNew, Later, OldIsGone, Replacing
<1>8. ReadOnce' /\ NewsWatched'
  BY <1>1, <1>2 DEF ReadOnce, NewsWatched
<1> QED
  BY <1>5, <1>6, <1>7, <1>8 DEF Order

\* Every step is one of these.
LEMMA OrderStep ==
    ASSUME ClusterInvariant, Order, Next
    PROVE  Order'
<1>0. /\ Structure /\ LastWord /\ Certified /\ SyncOK /\ SyncType /\ CallType
  BY TypeParts DEF ClusterInvariant, Structure
<1>1. CASE /\ UNCHANGED <<meta, todo, news, watching, sync>>
           /\ \A g \in Calls : call'[g].pc # "ended" => call[g].pc # "ended"
  BY <1>0, <1>1, OrderQuiet
<1>2. CASE DisposeEnds \/ ReadCertificates \/ Listed \/ UpdateClusterSettings
  <2>1. /\ UNCHANGED <<meta, todo, news, watching, call>>
        /\ \/ sync' = Ready
           \/ /\ sync'.pc = "keys" /\ sync'.cluster = sync.cluster
              /\ sync'.value = sync.value
    BY <1>0, <1>2
    DEF DisposeEnds, ReadCertificates, Listed, UpdateClusterSettings, SyncType
  <2> QED
    BY <1>0, <2>1, OrderQuiet
<1>3. CASE RegisterFails
  <2>1. CASE server = "syncing"
    BY <1>3, <2>1, OrderDown DEF RegisterFails
  <2>2. CASE server # "syncing"
    BY <1>0, <1>3, <2>2, OrderQuiet DEF RegisterFails
  <2> QED
    BY <2>1, <2>2
<1>4. CASE ServerStops \/ ReadFails \/ \E k \in Handles : Panic(k)
  BY <1>4, OrderDown DEF ServerStops, ReadFails, Panic
<1>5. CASE Start
  BY <1>0, <1>5, OrderStart
<1>6. CASE CreatePool
  BY <1>0, <1>6, OrderPut DEF CreatePool, Values
<1>7. ASSUME NEW g \in Calls, SaveMetadata(g)
      PROVE  Order'
  <2>1. call[g].cluster \in Clusters
    BY <1>0, <1>7 DEF SaveMetadata, Certified
  <2>2. /\ call'[g].pc = "ended" /\ call[g].pc # "ended"
        /\ \A h \in Calls : call'[h].pc # "ended" => call[h].pc # "ended"
    BY <1>0, <1>7 DEF SaveMetadata, CallType, NotCalled
  <2> QED
    BY <1>0, <1>7, <2>1, <2>2, OrderPut DEF SaveMetadata, Values
<1>8. ASSUME NEW c \in Clusters, ClusterRemoved(c)
      PROVE  Order'
  BY <1>0, <1>8, OrderPut DEF ClusterRemoved, Values
<1>9. ASSUME NEW c \in Clusters,
             \/ AlreadyGone(c) \/ Dispose(c)
             \/ \E v \in Values : Create(c, v) \/ Update(c, v)
      PROVE  Order'
  <2>1. sync.pc = "idle"
    BY <1>9 DEF AlreadyGone, Dispose, Create, Update, Taken
  <2>2. \A d \in Clusters : Known(d)' = Known(d)
    <3>1. /\ sync.pc \notin {"keys", "update", "dispose"}
          /\ server' = server /\ Running
      BY <1>0, <1>9, <2>1
      DEF AlreadyGone, Dispose, Create, Update, Taken, Running
    <3> QED
      BY <1>0, <3>1, KnownStep DEF Running
  <2>3. \A d \in Clusters : listed[d] # None => Known(d) # None
    BY <1>0, Found DEF Values
  <2>4. CASE AlreadyGone(c)
    <3>1. ~Replacing(c)'
      BY <2>1, <2>4 DEF AlreadyGone, Replacing
    <3> QED
      BY <1>0, <2>2, <2>4, <3>1, OrderTaken DEF AlreadyGone
  <2>5. CASE Dispose(c)
    BY <1>0, <2>2, <2>3, <2>5, OrderTaken DEF Dispose
  <2>6. ASSUME NEW v \in Values, Create(c, v)
        PROVE  Order'
    <3>1. /\ sync'.cluster = c /\ sync'.value = v /\ sync'.pc = "certs"
          /\ UNCHANGED <<meta, watching, call>> /\ Taken(c, v)
      BY <2>6 DEF Create
    <3> QED
      BY <1>0, <2>2, <3>1, OrderTaken DEF Replacing
  <2>7. ASSUME NEW v \in Values, Update(c, v)
        PROVE  Order'
    BY <1>0, <2>2, <2>3, <2>7, OrderTaken DEF Update
  <2> QED
    BY <1>9, <2>4, <2>5, <2>6, <2>7
<1>10. CASE ClusterWatchEnds
  <2>1. /\ news' = <<>> /\ sync.pc = "idle"
        /\ UNCHANGED <<meta, call, todo, sync, listed, ctl>>
    BY <1>10 DEF ClusterWatchEnds
  <2>2. Unwritten'
    BY <2>1 DEF Order, Unwritten, Ahead, Known
  <2>3. OldIsGone' /\ ReadOnce'
    BY <2>1 DEF Order, OldIsGone, ReadOnce, Replacing, Known
  <2> QED
    BY <2>1, <2>2, <2>3 DEF Order, Distinct, LaterIsNew, NewsWatched
<1>11. ASSUME NEW g \in Calls, NEW c \in Clusters, NewCluster(g, c)
       PROVE  /\ UNCHANGED <<meta, todo, news, watching, sync>>
              /\ \A h \in Calls : call'[h].pc # "ended" => call[h].pc # "ended"
  BY <1>0, <1>11 DEF NewCluster, CallType
<1>12. ASSUME NEW g \in Calls, SaveCertificate(g) \/ NewClusterFails(g)
       PROVE  /\ UNCHANGED <<meta, todo, news, watching, sync>>
              /\ \A h \in Calls : call'[h].pc # "ended" => call[h].pc # "ended"
  BY <1>0, <1>12 DEF SaveCertificate, NewClusterFails, CallType, NotCalled
<1>13. CASE UNCHANGED <<meta, todo, news, watching, sync, call>>
  BY <1>1, <1>13
<1> QED
  BY <1>1, <1>2, <1>3, <1>4, <1>5, <1>6, <1>7, <1>8, <1>9, <1>10, <1>11, <1>12,
     <1>13
  DEF Next, Sync, Work, Call, ReadBegin, Synced, Receive, LookUp, Check, Apply,
      Cancelled, WatchEnds, AgentChanges, ReadEnd

LEMMA OrderInvariance == Spec => [](ClusterInvariant /\ Order)
<1>1. Init => Order
  BY DEF Init, Order, Unwritten, Ahead, Known, Distinct, LaterIsNew, OldIsGone,
         Replacing, ReadOnce, NewsWatched, Ready, NotCalled, Values
<1>2. ClusterInvariant /\ Order /\ [Next]_vars => Order'
  <2>1. CASE Next
    BY <2>1, OrderStep
  <2>2. CASE UNCHANGED vars
    BY <2>2
    DEF vars, Order, Unwritten, Ahead, Known, Distinct, LaterIsNew, Later,
        OldIsGone, Replacing, ReadOnce, NewsWatched, Holds
  <2> QED
    BY <2>1, <2>2
<1> QED
  BY <1>1, <1>2, Invariance, PTL DEF Spec

\* Settings that a running server has replaced or withdrawn never come back:
\* fullSync, watchClusterChanges and doClusterChange apply the changes of a
\* cluster in the order in which they were written.
THEOREM SettingsInOrder == Spec => ReplacedForGood
<1>1. ClusterInvariant /\ Order /\ [Next]_vars =>
        [\A c \in Clusters \ {Pool}, v \in Calls :
            Known(c) = v /\ Known(c)' # v /\ Running' => ~Ahead(c, v)']_vars
  <2> SUFFICES ASSUME ClusterInvariant, Order, Next, NEW c \in Clusters \ {Pool},
                      NEW v \in Calls, Known(c) = v, Known(c)' # v, Running'
               PROVE  ~Ahead(c, v)'
    OBVIOUS
  <2>1. Structure /\ SyncOK /\ SyncType
    BY TypeParts DEF ClusterInvariant, Structure
  <2>2. /\ sync.cluster = c /\ sync.pc \in {"keys", "update", "dispose"}
        /\ sync' = Ready /\ sync.value # v
        /\ UNCHANGED <<meta, todo, news>>
    BY <2>1, KnownStep
  <2>3. sync.pc # "keys"
    BY <2>1, <2>2, CallsAreValues DEF SyncOK, Known
  <2>4. Replacing(c)
    BY <2>2, <2>3 DEF Replacing
  <2>5. /\ meta[c] # v /\ todo[c] = None
        /\ \A i \in DOMAIN news : news[i] # Event(c, v)
    <3>1. todo[c] = None /\ meta[c] # v
      BY <2>2, <2>4 DEF Order, OldIsGone, ReadOnce
    <3>2. ASSUME NEW i \in DOMAIN news, news[i] = Event(c, v)
          PROVE  FALSE
      BY <2>4, <3>2 DEF Order, LaterIsNew, Later, Holds, Event
    <3> QED
      BY <3>1, <3>2
  <2> QED
    BY <2>2, <2>5, CallsAreValues DEF Ahead, Ready
<1> QED
  BY <1>1, OrderInvariance, PTL DEF Spec, ReplacedForGood
=============================================================================
