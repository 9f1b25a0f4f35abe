-------------------------- MODULE JobScheduler_proofs --------------------------
(***************************************************************************)
(* Theorems about JobScheduler for every finite set of agents, assignment  *)
(* of roles, number of ETCD nodes and load balancers, and every budget of  *)
(* faults.                                                                 *)
(***************************************************************************)
EXTENDS JobScheduler, FiniteSetTheorems, TLAPS

USE RolesAssumption, AgentsAssumption, CountsAssumption, NoneAssumption,
    BudgetAssumption

-----------------------------------------------------------------------------
(* Types *)

Work == [pc : Points, flags : SUBSET Components,
         job : Components \cup {"none"}, addrs : SUBSET Agents]

\* The state of a main loop that asks nothing is well-typed.
LEMMA LoopType == Loop \in Work
  BY DEF Loop, Work, Points, Asking, Components

\* Spending a fault keeps the counters natural numbers.
LEMMA SpendType ==
    ASSUME spent \in [Faults -> Nat], NEW k \in Faults, Spend(k)
    PROVE  spent' \in [Faults -> Nat]
  BY DEF Spend

\* Moving to a point changes nothing else of the main loop.
LEMMA GotoType ==
    ASSUME work \in [Agents -> Work], NEW a \in Agents
    PROVE  \A p \in Points : Goto(a, p) =>
              /\ work' \in [Agents -> Work]
              /\ work'[a].pc = p
              /\ work'[a].flags = work[a].flags
              /\ work'[a].job = work[a].job
              /\ \A b \in Agents \ {a} : work'[b] = work[b]
  BY DEF Goto, Work

\* What the two answers of the chain do to the types.
LEMMA AnswerType ==
    ASSUME work \in [Agents -> Work], phase \in [Agents -> 0..2],
           spent \in [Faults -> Nat], NEW a \in Agents
    PROVE  /\ NotConfirmed(a) => /\ work' = [work EXCEPT ![a] = Loop]
                                 /\ work' \in [Agents -> Work]
                                 /\ phase' \in [Agents -> 0..2]
           /\ \A c \in Components, s \in SUBSET Agents : Confirmed(a, c, s) =>
                 /\ \/ work' = [work EXCEPT ![a] = Given(c, s)]
                    \/ work' = [work EXCEPT ![a] = Loop]
                 /\ work' \in [Agents -> Work]
                 /\ phase' \in [Agents -> 0..2]
                 /\ spent' \in [Faults -> Nat]
  <1>1. \A p \in {1, 2} : Advance(a, p) => phase' \in [Agents -> 0..2]
    BY DEF Advance
  <1>2. \A c \in Components, s \in SUBSET Agents : Given(c, s) \in Work
    BY DEF Given, Work, Points
  <1>3. Spend("answer") => spent' \in [Faults -> Nat]
    BY SpendType DEF Faults
  <1> QED
    BY <1>1, <1>2, <1>3, LoopType DEF NotConfirmed, Confirmed

\* The health checks speak of components performed on the agent.
LEMMA HealthyIsPerformed ==
    ASSUME NEW a \in Agents
    PROVE  /\ HealthySet(a) \subseteq Components
           /\ HealthySet(a) \subseteq files[a]
           /\ \A c : Healthy(a, c) => c \in files[a]
  BY DEF HealthySet, Healthy, Up

\* A cache that never lags is one of those that may.
LEMMA SpecMayLag == Spec => LaggingSpec
  <1>1. [Next]_vars => [LaggingNext]_vars
    BY DEF LaggingNext
  <1> QED
    BY <1>1, PTL DEF Spec, LaggingSpec

\* The type invariant holds of every reachable state, however the cache lags.
LEMMA LaggingTypeCorrect == LaggingSpec => []TypeOK
  <1>1. Init => TypeOK
    <2>1. Init => work \in [Agents -> Work]
      BY LoopType DEF Init
    <2> QED
      BY <2>1 DEF Init, TypeOK, Work, Loop, Resources
  <1>2. TypeOK /\ [LaggingNext]_vars => TypeOK'
    <2> SUFFICES ASSUME TypeOK, [LaggingNext]_vars PROVE TypeOK'
      OBVIOUS
    <2> USE DEF nodeVars
    <2>0. /\ work \in [Agents -> Work] /\ phase \in [Agents -> 0..2]
          /\ spent \in [Faults -> Nat]
      BY DEF TypeOK, Work
    <2>1. ASSUME NEW a \in Agents, Register(a) PROVE TypeOK'
      BY <2>1 DEF Register, TypeOK
    <2>2. ASSUME NEW a \in Agents, Report(a) PROVE TypeOK'
      BY <2>2, HealthyIsPerformed DEF Report, TypeOK
    <2>3. ASSUME NEW a \in Agents, GoOffline(a) PROVE TypeOK'
      <3>1. spent' \in [Faults -> Nat]
        BY <2>0, <2>3, SpendType DEF GoOffline, Faults
      <3> QED
        BY <2>3, <3>1 DEF GoOffline, TypeOK
    <2>4. ASSUME NEW a \in Agents, ContainerDies(a) PROVE TypeOK'
      <3>1. spent' \in [Faults -> Nat]
        BY <2>0, <2>4, SpendType DEF ContainerDies, Faults
      <3> QED
        BY <2>4, <3>1 DEF ContainerDies, TypeOK
    <2>5. ASSUME NEW a \in Agents, ContainerRestarts(a) PROVE TypeOK'
      BY <2>5 DEF ContainerRestarts, TypeOK
    <2>6. ASSUME NEW a \in Agents, Query(a) PROVE TypeOK'
      <3>0. SUFFICES
               /\ work' \in [Agents -> Work] /\ phase' \in [Agents -> 0..2]
               /\ spent' \in [Faults -> Nat] /\ installed' \in 0..Resources
               /\ work'[a].pc \in {"given", "waiting"} => work'[a].job \in Components
               /\ \A b \in Agents \ {a} : work'[b] = work[b]
               /\ Unmoved
        <4>1. \A b \in Agents : work'[b].pc \in {"given", "waiting"}
                                   => work'[b].job \in Components
          BY <3>0 DEF TypeOK
        <4> QED
          BY <3>0, <4>1 DEF TypeOK, Unmoved, Work
      <3>g. \A p \in Asking : Goto(a, p) =>
               /\ work' \in [Agents -> Work] /\ work'[a].pc = p
               /\ \A b \in Agents \ {a} : work'[b] = work[b]
        BY <2>0, GotoType DEF Points
      <3>n. NotConfirmed(a) =>
               /\ work' \in [Agents -> Work] /\ phase' \in [Agents -> 0..2]
               /\ work'[a] = Loop
               /\ \A b \in Agents \ {a} : work'[b] = work[b]
        BY <2>0, AnswerType
      <3>c. \A c \in Components, s \in SUBSET Agents : Confirmed(a, c, s) =>
               /\ work' \in [Agents -> Work] /\ phase' \in [Agents -> 0..2]
               /\ spent' \in [Faults -> Nat]
               /\ work'[a] = Loop \/ work'[a] = Given(c, s)
               /\ \A b \in Agents \ {a} : work'[b] = work[b]
        BY <2>0, AnswerType
      <3>p. Loop.pc = "idle" /\ \A c, s : Given(c, s).job = c
        BY DEF Loop, Given
      <3>1. CASE QueryBegin(a)
        <4>1. Asked(view[a]) \in Work
          BY <3>1 DEF QueryBegin, TypeOK, Asked, Work, Points, Asking
        <4>2. Asked(view[a]).pc = "etcdCount"
          BY DEF Asked
        <4> QED
          BY <2>0, <3>1, <4>1, <4>2 DEF QueryBegin, TypeOK
      <3>2. CASE EtcdCount(a)
        BY <2>0, <3>2, <3>g, <3>n, <3>p DEF EtcdCount, TypeOK, Asking
      <3>3. CASE EtcdTotal(a)
        BY <2>0, <3>3, <3>g, <3>n, <3>p DEF EtcdTotal, TypeOK, Asking
      <3>4. CASE EtcdAddrs(a)
        <4> DEFINE s == Cached("etcd")
        <4>1. s \in SUBSET Agents /\ "etcd" \in Components
          BY DEF Cached, Components
        <4>2. Confirmed(a, "etcd", s) /\ installed' = installed /\ Unmoved
          BY <3>4 DEF EtcdAddrs
        <4> HIDE DEF s
        <4>3. /\ work' \in [Agents -> Work] /\ phase' \in [Agents -> 0..2]
              /\ spent' \in [Faults -> Nat]
              /\ work'[a] = Loop \/ work'[a] = Given("etcd", s)
              /\ \A b \in Agents \ {a} : work'[b] = work[b]
          BY <3>c, <4>1, <4>2
        <4>4. work'[a].pc \in {"given", "waiting"} => work'[a].job \in Components
          BY <3>p, <4>1, <4>3
        <4>5. installed' \in 0..Resources
          BY <4>2 DEF TypeOK
        <4> QED
          BY <4>2, <4>3, <4>4, <4>5
      <3>5. CASE Master(a)
        BY <2>0, <3>5, <3>g, <3>n, <3>c, <3>p
        DEF Master, TypeOK, Asking, Components
      <3>6. CASE Ha(a)
        BY <2>0, <3>6, <3>g, <3>n, <3>p DEF Ha, TypeOK, Asking
      <3>7. CASE HaMasters(a)
        <4> DEFINE s == Cached("master")
        <4>1. s \in SUBSET Agents /\ "ha" \in Components
          BY DEF Cached, Components
        <4>2. Confirmed(a, "ha", s) /\ installed' = installed /\ Unmoved
          BY <3>7 DEF HaMasters
        <4> HIDE DEF s
        <4>3. /\ work' \in [Agents -> Work] /\ phase' \in [Agents -> 0..2]
              /\ spent' \in [Faults -> Nat]
              /\ work'[a] = Loop \/ work'[a] = Given("ha", s)
              /\ \A b \in Agents \ {a} : work'[b] = work[b]
          BY <3>c, <4>1, <4>2
        <4>4. work'[a].pc \in {"given", "waiting"} => work'[a].job \in Components
          BY <3>p, <4>1, <4>3
        <4>5. installed' \in 0..Resources
          BY <4>2 DEF TypeOK
        <4> QED
          BY <4>2, <4>3, <4>4, <4>5
      <3>8. CASE HaReady(a)
        BY <2>0, <3>8, <3>g, <3>n, <3>p DEF HaReady, TypeOK, Asking
      <3>9. CASE Minion(a)
        BY <2>0, <3>9, <3>g, <3>c, <3>p
        DEF Minion, TypeOK, Asking, Components, Provisioned, Cached
      <3>10. CASE Extras(a)
        <4>1. /\ phase' \in [Agents -> 0..2]
              /\ spent' \in [Faults -> Nat] /\ installed' \in 0..Resources
          <5>1. CASE installed' = Resources /\ Advance(a, 2) /\ UNCHANGED spent
            BY <2>0, <5>1 DEF Advance, Resources
          <5>2. CASE /\ installed' \in installed..Resources /\ Spend("install")
                     /\ UNCHANGED phase
            BY <2>0, <5>2, SpendType DEF TypeOK, Faults, Resources
          <5> QED
            BY <3>10, <5>1, <5>2 DEF Extras
        <4> QED
          BY <2>0, <3>10, <4>1, LoopType DEF Extras, Loop
      <3> QED
        BY <2>6, <3>1, <3>2, <3>3, <3>4, <3>5, <3>6, <3>7, <3>8, <3>9, <3>10
        DEF Query
    <2>7. ASSUME NEW a \in Agents, Job(a) \/ StartFails(a) PROVE TypeOK'
      <3>1. CASE JobSkipped(a) \/ JobHealthy(a)
        <4>1. work' = [work EXCEPT ![a] = Loop] /\ Loop.pc = "idle"
          BY <3>1 DEF JobSkipped, JobHealthy, Loop
        <4>2. /\ work' \in [Agents -> Work]
              /\ \A b \in Agents : work'[b].pc \in {"given", "waiting"}
                                     => work'[b].job \in Components
          BY <2>0, <4>1, LoopType DEF TypeOK
        <4>3. ready' \in [Agents -> SUBSET Components]
          BY <2>0, <3>1 DEF JobSkipped, JobHealthy, TypeOK
        <4> QED
          BY <3>1, <4>2, <4>3 DEF JobSkipped, JobHealthy, TypeOK, Work
      <3>2. CASE JobFails(a)
        <4>1. spent' \in [Faults -> Nat]
          BY <2>0, <3>2, SpendType DEF JobFails, GiveUp, Faults
        <4>2. /\ work' \in [Agents -> Work]
              /\ work'[a].pc \notin {"given", "waiting"}
              /\ \A b \in Agents \ {a} : work'[b] = work[b]
          <5>1. "crashed" \in Points /\ Loop.pc = "idle"
            BY DEF Points, Loop
          <5> QED
            BY <2>0, <3>2, <5>1, LoopType, GotoType DEF JobFails, GiveUp
        <4> QED
          BY <3>2, <4>1, <4>2 DEF JobFails, TypeOK, Work
      <3>3. CASE Perform(a)
        <4>1. /\ work' \in [Agents -> Work]
              /\ work'[a].job = work[a].job
              /\ \A b \in Agents \ {a} : work'[b] = work[b]
          <5>1. "waiting" \in Points
            BY DEF Points
          <5> QED
            BY <2>0, <3>3, <5>1, GotoType DEF Perform
        <4> QED
          BY ZenonT(60), <2>0, <3>3, <4>1 DEF Perform, TypeOK, Work
      <3>4. CASE StartFails(a)
        <4>1. spent' \in [Faults -> Nat]
          BY <2>0, <3>4, SpendType DEF StartFails, Faults
        <4> QED
          BY <2>0, <3>4, <4>1, LoopType DEF StartFails, TypeOK, Work, Loop
      <3> QED
        BY <2>7, <3>1, <3>2, <3>3, <3>4 DEF Job
    <2>8. ASSUME NEW a \in Agents, Lagging(a) PROVE TypeOK'
      <3>1. CASE RegisterUnseen(a)
        BY <3>1 DEF RegisterUnseen, TypeOK
      <3>2. CASE ReportUnseen(a)
        BY <3>2, HealthyIsPerformed DEF ReportUnseen, TypeOK
      <3>3. CASE CacheRefreshed(a)
        BY <3>3 DEF CacheRefreshed, TypeOK
      <3> QED
        BY <2>8, <3>1, <3>2, <3>3 DEF Lagging
    <2>9. CASE UNCHANGED vars
      BY <2>9 DEF vars, TypeOK
    <2> QED
      BY <2>1, <2>2, <2>3, <2>4, <2>5, <2>6, <2>7, <2>8, <2>9
      DEF LaggingNext, Next, MainLoop
  <1> QED
    BY <1>1, <1>2, PTL DEF LaggingSpec

\* The type invariant holds of every reachable state.
THEOREM SchedulerTypeCorrect == Spec => []TypeOK
  BY SpecMayLag, LaggingTypeCorrect, PTL

-----------------------------------------------------------------------------
(* Stages only advance *)

\* Registrations and health are never taken back.
Grows == /\ joined \subseteq joined' /\ joined' \subseteq Agents
         /\ \A b \in Agents : ready[b] \subseteq ready'[b]

\* Every step of the scheduler and the agents grows what has happened.
LEMMA StepGrows ==
    ASSUME TypeOK, TypeOK', [LaggingNext]_vars
    PROVE  Grows
  <1> USE DEF Grows
  <1>0. joined' \subseteq Agents
    BY DEF TypeOK
  <1>1. ASSUME NEW a \in Agents, Register(a) PROVE Grows
    BY <1>0, <1>1 DEF Register, TypeOK
  <1>2. ASSUME NEW a \in Agents, Report(a) PROVE Grows
    BY <1>0, <1>2 DEF Report, TypeOK
  <1>3. ASSUME NEW a \in Agents,
               GoOffline(a) \/ ContainerDies(a) \/ ContainerRestarts(a)
        PROVE  Grows
    BY <1>0, <1>3 DEF GoOffline, ContainerDies, ContainerRestarts
  <1>4. ASSUME NEW a \in Agents, Query(a) PROVE Grows
    <2>1. Unmoved
      BY <1>4 DEF Query, QueryBegin, EtcdCount, EtcdTotal, EtcdAddrs, Master, Ha,
                  HaMasters, HaReady, Minion, Extras
    <2> QED
      BY <1>0, <2>1 DEF Unmoved
  <1>5. ASSUME NEW a \in Agents, Job(a) \/ StartFails(a) PROVE Grows
    <2>1. UNCHANGED joined
      BY <1>5 DEF Job, JobSkipped, JobFails, Perform, JobHealthy, StartFails
    <2>2. UNCHANGED ready \/ \E c : ready' = [ready EXCEPT ![a] = @ \cup {c}]
      BY <1>5 DEF Job, JobSkipped, JobFails, Perform, JobHealthy, StartFails
    <2>3. CASE UNCHANGED ready
      BY <1>0, <2>1, <2>3
    <2>4. CASE \E c : ready' = [ready EXCEPT ![a] = @ \cup {c}]
      <3>1. PICK c : ready' = [ready EXCEPT ![a] = @ \cup {c}]
        BY <2>4
      <3>2. \A b \in Agents :
               ready'[b] = IF b = a THEN ready[b] \cup {c} ELSE ready[b]
        BY <3>1 DEF TypeOK
      <3> QED
        BY <1>0, <2>1, <3>2
    <2> QED
      BY <2>2, <2>3, <2>4
  <1>6. ASSUME NEW a \in Agents, Lagging(a) PROVE Grows
    <2>1. CASE RegisterUnseen(a)
      BY <1>0, <2>1 DEF RegisterUnseen
    <2>2. CASE ReportUnseen(a)
      BY <1>0, <2>2 DEF ReportUnseen, TypeOK
    <2>3. CASE CacheRefreshed(a)
      BY <1>0, <2>3 DEF CacheRefreshed
    <2> QED
      BY <1>6, <2>1, <2>2, <2>3 DEF Lagging
  <1>7. CASE UNCHANGED vars
    BY <1>0, <1>7 DEF vars
  <1> QED
    BY <1>1, <1>2, <1>3, <1>4, <1>5, <1>6, <1>7 DEF LaggingNext, Next, MainLoop

\* The abstract specification counts as this one does.
LEMMA SameCount == \A S : Staged!Cardinality(S) = Cardinality(S)
  BY DEF Staged!Cardinality, Cardinality

\* A stage that is ready stays ready, and what may start may start later too.
LEMMA StagesStay ==
    ASSUME Grows
    PROVE  /\ Staged!EtcdReady => Staged!EtcdReady'
           /\ Staged!MasterReady => Staged!MasterReady'
           /\ Staged!HaReady => Staged!HaReady'
           /\ \A c \in Components : Staged!MayStart(c) => Staged!MayStart(c)'
  <1>1. \A c : /\ Staged!ReadyNodes(c) \subseteq Staged!ReadyNodes(c)'
              /\ joined \cap Staged!WithRole(c)
                    \subseteq joined' \cap Staged!WithRole(c)
    BY DEF Grows, Staged!ReadyNodes, Staged!WithRole
  <1>2. \A c : /\ Staged!ReadyNodes(c)' \in SUBSET Agents
              /\ joined' \cap Staged!WithRole(c) \in SUBSET Agents
    BY DEF Grows, Staged!ReadyNodes, Staged!WithRole
  <1>3. ASSUME NEW S, NEW T, S \subseteq T, T \in SUBSET Agents
        PROVE  /\ Cardinality(S) <= Cardinality(T)
               /\ Cardinality(S) \in Nat /\ Cardinality(T) \in Nat
    BY <1>3, FS_Subset, FS_CardinalityType
  <1>4. \A c : /\ Cardinality(Staged!ReadyNodes(c))
                   <= Cardinality(Staged!ReadyNodes(c)')
              /\ Cardinality(Staged!ReadyNodes(c)) \in Nat
              /\ Cardinality(Staged!ReadyNodes(c)') \in Nat
    BY <1>1, <1>2, <1>3
  <1>5. \A c : /\ Cardinality(joined \cap Staged!WithRole(c))
                   <= Cardinality(joined' \cap Staged!WithRole(c))
              /\ Cardinality(joined \cap Staged!WithRole(c)) \in Nat
              /\ Cardinality(joined' \cap Staged!WithRole(c)) \in Nat
    BY <1>1, <1>2, <1>3
  <1>6. Staged!EtcdReady => Staged!EtcdReady'
    BY <1>4, SameCount DEF Staged!EtcdReady
  <1>7. Staged!MasterReady => Staged!MasterReady'
    BY <1>1, <1>6 DEF Staged!MasterReady
  <1>8. Staged!HaReady => Staged!HaReady'
    BY <1>1, <1>7 DEF Staged!HaReady
  <1>9. \A c \in Components : Staged!MayStart(c) => Staged!MayStart(c)'
    <2>1. \A c, n : n \in Nat /\ Staged!Cardinality(joined \cap Staged!WithRole(c)) >= n
             => Staged!Cardinality(joined' \cap Staged!WithRole(c)) >= n
      BY <1>5, SameCount
    <2>2. Staged!MayStart("etcd") => Staged!MayStart("etcd")'
      BY <2>1 DEF Staged!MayStart, Staged!WithRole
    <2>3. Staged!MayStart("master") => Staged!MayStart("master")'
      BY <1>6 DEF Staged!MayStart
    <2>4. Staged!MayStart("ha") => Staged!MayStart("ha")'
      BY <2>1, <1>7 DEF Staged!MayStart, Staged!WithRole
    <2>5. Staged!MayStart("minion") => Staged!MayStart("minion")'
      BY <1>8 DEF Staged!MayStart
    <2> QED
      BY <2>2, <2>3, <2>4, <2>5 DEF Components
  <1> QED
    BY <1>6, <1>7, <1>8, <1>9

\* What the cache counts has really happened.
LEMMA CacheCounts ==
    ASSUME TypeOK, ViewInv, NEW c \in Components
    PROVE  /\ Provisioned(c) \subseteq Staged!ReadyNodes(c)
           /\ Cardinality(Provisioned(c)) \in Nat
           /\ Cardinality(Cached(c)) \in Nat
           /\ Cardinality(Provisioned(c)) <= Cardinality(Staged!ReadyNodes(c))
           /\ Cardinality(Cached(c)) <= Cardinality(joined \cap Staged!WithRole(c))
           /\ Cardinality(Staged!ReadyNodes(c)) \in Nat
           /\ Cardinality(joined \cap Staged!WithRole(c)) \in Nat
  <1>1. /\ Provisioned(c) \subseteq Staged!ReadyNodes(c)
        /\ Cached(c) \subseteq joined \cap Staged!WithRole(c)
    BY DEF ViewInv, Provisioned, Cached, Staged!ReadyNodes, Staged!WithRole
  <1>2. /\ Staged!ReadyNodes(c) \in SUBSET Agents
        /\ joined \cap Staged!WithRole(c) \in SUBSET Agents
    BY DEF Staged!ReadyNodes, Staged!WithRole
  <1>3. ASSUME NEW S, NEW T, S \subseteq T, T \in SUBSET Agents
        PROVE  /\ Cardinality(S) <= Cardinality(T)
               /\ Cardinality(S) \in Nat /\ Cardinality(T) \in Nat
    BY <1>3, FS_Subset, FS_CardinalityType
  <1> QED
    BY <1>1, <1>2, <1>3

-----------------------------------------------------------------------------
(* The inductive invariant *)

\* An agent whose main loop did not move keeps what its query established.
LEMMA UnmovedKeeps ==
    ASSUME Grows, NEW b \in Agents, work'[b] = work[b], TypeOK,
           OfAgent(b), OfCluster(b)
    PROVE  OfAgent(b)' /\ OfCluster(b)'
  <1>1. OfAgent(b)'
    BY DEF OfAgent, Grows
  <1>2. "etcd" \in Components /\ "ha" \in Components
        /\ (work[b].pc = "given" => work[b].job \in Components)
    BY DEF TypeOK, Components
  <1>3. OfCluster(b)'
    BY <1>2, StagesStay DEF OfCluster
  <1> QED
    BY <1>1, <1>3

\* Nothing is asked of an agent outside a query.
LEMMA OutsideHolds ==
    ASSUME NEW b \in Agents, work'[b].pc \in {"idle", "waiting", "crashed"}
    PROVE  OfAgent(b)' /\ OfCluster(b)'
  BY DEF OfAgent, OfCluster, Asking

\* The cache keeps showing what registered agents have had healthy.
LEMMA ViewStays ==
    ASSUME TypeOK, TypeOK', ViewInv, [LaggingNext]_vars
    PROVE  ViewInv'
  <1>0. Grows
    BY StepGrows
  <1>1. ASSUME UNCHANGED view PROVE ViewInv'
    BY <1>0, <1>1 DEF ViewInv, Grows
  <1>2. ASSUME NEW a \in Agents, Register(a) PROVE ViewInv'
    BY <1>2 DEF Register, ViewInv, TypeOK
  <1>3. ASSUME NEW a \in Agents, Report(a) PROVE ViewInv'
    BY <1>3 DEF Report, ViewInv, TypeOK
  <1>4. ASSUME NEW a \in Agents, GoOffline(a) PROVE ViewInv'
    BY <1>4 DEF GoOffline, ViewInv, TypeOK
  <1>5. ASSUME NEW a \in Agents, Query(a) PROVE UNCHANGED view
    BY <1>5 DEF Query, QueryBegin, EtcdCount, EtcdTotal, EtcdAddrs, Master, Ha,
                HaMasters, HaReady, Minion, Extras, Unmoved
  <1>6. ASSUME NEW a \in Agents, Job(a) \/ StartFails(a) PROVE UNCHANGED view
    BY <1>6 DEF Job, JobSkipped, JobFails, Perform, JobHealthy, StartFails
  <1>7. ASSUME NEW a \in Agents, ContainerDies(a) \/ ContainerRestarts(a)
        PROVE  UNCHANGED view
    BY <1>7 DEF ContainerDies, ContainerRestarts
  <1>8. ASSUME NEW a \in Agents, RegisterUnseen(a) \/ ReportUnseen(a)
        PROVE  UNCHANGED view
    BY <1>8 DEF RegisterUnseen, ReportUnseen
  <1>9. ASSUME NEW a \in Agents, CacheRefreshed(a) PROVE ViewInv'
    BY <1>9 DEF CacheRefreshed, ViewInv, TypeOK
  <1> QED
    BY <1>1, <1>2, <1>3, <1>4, <1>5, <1>6, <1>7, <1>8, <1>9
    DEF LaggingNext, Lagging, Next, MainLoop, vars

\* Each step of a query establishes what its next point assumes.
LEMMA QueryEstablishes ==
    ASSUME TypeOK, TypeOK', ViewInv, QueryInv, Grows, NEW a \in Agents, Query(a)
    PROVE  OfAgent(a)' /\ OfCluster(a)'
  <1>0. /\ work \in [Agents -> Work] /\ phase \in [Agents -> 0..2]
        /\ spent \in [Faults -> Nat]
    BY DEF TypeOK, Work
  <1>a. OfAgent(a) /\ OfCluster(a)
    BY DEF QueryInv
  <1>g. \A p \in Asking : Goto(a, p) =>
           work'[a].pc = p /\ work'[a].flags = work[a].flags
    BY <1>0, GotoType DEF Points
  <1>n. NotConfirmed(a) => OfAgent(a)' /\ OfCluster(a)'
    <2>1. Loop.pc = "idle"
      BY DEF Loop
    <2> QED
      BY <1>0, <2>1, AnswerType, OutsideHolds
  <1>c. \A c \in Components, s \in SUBSET Agents :
           Confirmed(a, c, s) /\ c \in RolesOf[a] /\ Staged!MayStart(c) /\ a \in joined
             => OfAgent(a)' /\ OfCluster(a)'
    <2> SUFFICES ASSUME NEW c \in Components, NEW s \in SUBSET Agents,
                        Confirmed(a, c, s), c \in RolesOf[a], Staged!MayStart(c),
                        a \in joined
                 PROVE  OfAgent(a)' /\ OfCluster(a)'
      OBVIOUS
    <2>1. CASE work'[a] = Loop
      BY <2>1, OutsideHolds DEF Loop
    <2>2. CASE work'[a] = Given(c, s)
      <3>1. work'[a].pc = "given" /\ work'[a].job = c
        BY <2>2 DEF Given
      <3>2. Staged!MayStart(c)' /\ a \in joined'
        BY StagesStay DEF Grows
      <3>3. OfAgent(a)'
        BY <3>1, <3>2 DEF OfAgent, Asking
      <3>4. OfCluster(a)'
        BY <3>1, <3>2 DEF OfCluster
      <3> QED
        BY <3>3, <3>4
    <2> QED
      BY <1>0, <2>1, <2>2, AnswerType
  <1>r. /\ \A c \in Components : Provisioned(c) # {}
              => Staged!ReadyNodes(c) # {}
        /\ UNCHANGED <<joined, ready>>
    <2>1. UNCHANGED <<joined, ready>>
      BY DEF Query, QueryBegin, EtcdCount, EtcdTotal, EtcdAddrs, Master, Ha,
             HaMasters, HaReady, Minion, Extras, Unmoved
    <2> QED
      BY <2>1, CacheCounts
  <1>m. /\ Staged!EtcdReady => Staged!EtcdReady'
        /\ Staged!MasterReady => Staged!MasterReady'
        /\ Staged!HaReady => Staged!HaReady'
        /\ Staged!MayStart("etcd") => Staged!MayStart("etcd")'
        /\ Staged!MayStart("ha") => Staged!MayStart("ha")'
    BY StagesStay DEF Components
  <1>1. CASE QueryBegin(a)
    <2>1. work'[a].pc = "etcdCount" /\ work'[a].flags = view[a]
      BY <1>0, <1>1 DEF QueryBegin, Asked
    <2>2. a \in joined' /\ view[a] \subseteq ready'[a]
      BY <1>1, <1>r DEF QueryBegin, ViewInv
    <2> QED
      BY <2>1, <2>2 DEF OfAgent, OfCluster, Asking
  <1>2. CASE EtcdCount(a)
    <2>1. CASE NotConfirmed(a)
      BY <2>1, <1>n
    <2>2. CASE Goto(a, "etcdTotal") /\ Lacks(a, "etcd")
      BY <1>2, <1>a, <1>g, <1>r, <2>2
      DEF EtcdCount, OfAgent, OfCluster, Asking, Lacks
    <2>3. CASE Goto(a, "master") /\ Cardinality(Provisioned("etcd")) >= Expected
      <3>1. Staged!EtcdReady
        BY <2>3, CacheCounts, SameCount DEF Staged!EtcdReady, Components
      <3> QED
        BY <1>2, <1>a, <1>g, <1>m, <1>r, <2>3, <3>1
        DEF EtcdCount, OfAgent, OfCluster, Asking
    <2> QED
      BY <1>2, <2>1, <2>2, <2>3 DEF EtcdCount
  <1>3. CASE EtcdTotal(a)
    <2>1. CASE NotConfirmed(a)
      BY <2>1, <1>n
    <2>2. CASE Goto(a, "etcdAddrs") /\ ~(Cardinality(Cached("etcd")) < Expected)
      <3>1. Cardinality(joined \cap Staged!WithRole("etcd")) >= Expected
        BY <2>2, CacheCounts DEF Components
      <3>2. Staged!MayStart("etcd")
        BY <3>1, SameCount DEF Staged!MayStart
      <3> QED
        BY <1>3, <1>a, <1>g, <1>m, <1>r, <2>2, <3>2
        DEF EtcdTotal, OfAgent, OfCluster, Asking
    <2> QED
      BY <1>3, <2>1, <2>2 DEF EtcdTotal
  <1>4. CASE EtcdAddrs(a)
    BY SMTT(60), <1>4, <1>a, <1>c
    DEF EtcdAddrs, OfAgent, OfCluster, Components, Cached, Asking
  <1>5. CASE Master(a)
    <2>0. a \in joined /\ Staged!EtcdReady /\ work[a].flags \subseteq ready[a]
      BY <1>5, <1>a DEF Master, OfAgent, OfCluster, Asking
    <2>1. CASE NotConfirmed(a)
      BY <2>1, <1>n
    <2>2. CASE Lacks(a, "master") /\ Confirmed(a, "master", {})
      BY <1>c, <2>0, <2>2 DEF Lacks, Components, Staged!MayStart
    <2>3. CASE /\ ~Lacks(a, "master") /\ Provisioned("master") # {}
               /\ Goto(a, "ha")
      <3>1. Staged!MasterReady
        BY <2>0, <2>3, <1>r DEF Staged!MasterReady, Components
      <3> QED
        BY <1>g, <1>m, <1>r, <2>0, <2>3, <3>1 DEF OfAgent, OfCluster, Asking, Lacks
    <2> QED
      BY <1>5, <2>1, <2>2, <2>3 DEF Master
  <1>6. CASE Ha(a)
    <2>0. /\ a \in joined /\ Staged!MasterReady /\ work[a].flags \subseteq ready[a]
          /\ "master" \in RolesOf[a] => "master" \in ready[a]
      BY <1>6, <1>a DEF Ha, OfAgent, OfCluster, Asking
    <2>1. CASE NotConfirmed(a)
      BY <2>1, <1>n
    <2>2. CASE HaCount = 0 /\ Goto(a, "minion")
      <3>1. Staged!HaReady
        BY <2>0, <2>2 DEF Staged!HaReady
      <3> QED
        BY <1>g, <1>m, <1>r, <2>0, <2>2, <3>1 DEF OfAgent, OfCluster, Asking
    <2>3. CASE Lacks(a, "ha") /\ Goto(a, "haMasters")
               /\ ~(Cardinality(Cached("ha")) < HaCount)
      <3>1. Cardinality(joined \cap Staged!WithRole("ha")) >= HaCount
        BY <2>3, CacheCounts DEF Components
      <3>2. Staged!MayStart("ha")
        BY <2>0, <3>1, SameCount DEF Staged!MayStart
      <3> QED
        BY <1>g, <1>m, <1>r, <2>0, <2>3, <3>2
        DEF OfAgent, OfCluster, Asking, Lacks
    <2>4. CASE ~Lacks(a, "ha") /\ Goto(a, "haReady")
      BY <1>g, <1>m, <1>r, <2>0, <2>4 DEF OfAgent, OfCluster, Asking, Lacks
    <2> QED
      BY <1>6, <2>1, <2>2, <2>3, <2>4 DEF Ha
  <1>7. CASE HaMasters(a)
    BY SMTT(60), <1>7, <1>a, <1>c
    DEF HaMasters, OfAgent, OfCluster, Components, Cached, Asking
  <1>8. CASE HaReady(a)
    <2>0. /\ a \in joined /\ Staged!MasterReady /\ work[a].flags \subseteq ready[a]
          /\ "master" \in RolesOf[a] => "master" \in ready[a]
          /\ "ha" \in RolesOf[a] => "ha" \in ready[a]
      BY <1>8, <1>a DEF HaReady, OfAgent, OfCluster, Asking
    <2>1. CASE NotConfirmed(a)
      BY <2>1, <1>n
    <2>2. CASE Provisioned("ha") # {} /\ Goto(a, "minion")
      <3>1. Staged!HaReady
        BY <2>0, <2>2, <1>r DEF Staged!HaReady, Components
      <3> QED
        BY <1>g, <1>m, <1>r, <2>0, <2>2, <3>1 DEF OfAgent, OfCluster, Asking
    <2> QED
      BY <1>8, <2>1, <2>2 DEF HaReady
  <1>9. CASE Minion(a)
    <2>0. /\ a \in joined /\ Staged!HaReady /\ work[a].flags \subseteq ready[a]
          /\ "master" \in RolesOf[a] => "master" \in ready[a]
          /\ HaCount = 0 \/ ("ha" \in RolesOf[a] => "ha" \in ready[a])
      BY <1>9, <1>a DEF Minion, OfAgent, OfCluster, Asking
    <2>1. CASE /\ Lacks(a, "minion")
               /\ Confirmed(a, "minion", Provisioned("master"))
      BY <1>c, <2>0, <2>1
      DEF Lacks, Components, Staged!MayStart, Provisioned, Cached
    <2>2. CASE ~Lacks(a, "minion") /\ Goto(a, "extras")
      BY <1>g, <1>m, <1>r, <2>0, <2>2 DEF OfAgent, OfCluster, Asking, Lacks
    <2> QED
      BY <1>9, <2>1, <2>2 DEF Minion
  <1>10. CASE Extras(a)
    <2>1. work'[a].pc = "idle"
      BY <1>0, <1>10 DEF Extras, Loop
    <2> QED
      BY <2>1, OutsideHolds
  <1> QED
    BY <1>1, <1>2, <1>3, <1>4, <1>5, <1>6, <1>7, <1>8, <1>9, <1>10 DEF Query

\* A step keeps what the queries of all agents have established: it moves the
\* main loop of one agent at most.
LEMMA QueriesStay ==
    ASSUME TypeOK, TypeOK', ViewInv, QueryInv, [LaggingNext]_vars
    PROVE  QueryInv'
  <1>0. Grows
    BY StepGrows
  <1>1. ASSUME NEW a \in Agents,
               \A b \in Agents \ {a} : work'[b] = work[b],
               OfAgent(a)' /\ OfCluster(a)'
        PROVE  QueryInv'
    <2>1. ASSUME NEW b \in Agents \ {a} PROVE OfAgent(b)' /\ OfCluster(b)'
      BY <1>0, <1>1, UnmovedKeeps DEF QueryInv
    <2> QED
      BY <1>1, <2>1 DEF QueryInv
  <1>2. ASSUME UNCHANGED work PROVE QueryInv'
    BY <1>0, <1>2, UnmovedKeeps DEF QueryInv
  <1>3. ASSUME NEW a \in Agents, Register(a) \/ Report(a) \/ GoOffline(a)
                     \/ ContainerDies(a) \/ ContainerRestarts(a) \/ Lagging(a)
        PROVE  UNCHANGED work
    BY <1>3 DEF Register, Report, GoOffline, ContainerDies, ContainerRestarts,
                Lagging, RegisterUnseen, ReportUnseen, CacheRefreshed
  <1>4. work \in [Agents -> Work]
    BY DEF TypeOK, Work
  <1>5. ASSUME NEW a \in Agents, Query(a)
        PROVE  \A b \in Agents \ {a} : work'[b] = work[b]
    BY <1>5 DEF Query, QueryBegin, EtcdCount, EtcdTotal, EtcdAddrs, Master, Ha,
                HaMasters, HaReady, Minion, Extras, Goto, NotConfirmed, Confirmed,
                TypeOK
  <1>6. ASSUME NEW a \in Agents, Query(a) PROVE QueryInv'
    BY <1>0, <1>1, <1>5, <1>6, QueryEstablishes
  <1>7. ASSUME NEW a \in Agents, Job(a) \/ StartFails(a) PROVE QueryInv'
    <2>1. \/ work' = [work EXCEPT ![a] = Loop]
          \/ Goto(a, "crashed") \/ Goto(a, "waiting")
      BY <1>7 DEF Job, JobSkipped, JobFails, GiveUp, Perform, JobHealthy, StartFails
    <2>2. /\ work'[a].pc \in {"idle", "waiting", "crashed"}
          /\ \A b \in Agents \ {a} : work'[b] = work[b]
      BY <1>4, <2>1, GotoType DEF Loop, Points
    <2> QED
      BY <1>1, <2>2, OutsideHolds
  <1> QED
    BY <1>2, <1>3, <1>6, <1>7 DEF LaggingNext, Next, MainLoop, vars

\* A phase is saved as "deployed" only at the end of a chain that has seen
\* everything the phase stands for, and none of it is ever taken back.
LEMMA DeployedStays ==
    ASSUME TypeOK, TypeOK', QueryInv, DeployedIsReady, [LaggingNext]_vars
    PROVE  DeployedIsReady'
  <1>0. Grows
    BY StepGrows
  <1>1. ASSUME installed = Resources => installed' = Resources,
               \A b \in Agents : phase'[b] = 2 => phase[b] = 2
        PROVE  DeployedIsReady'
    BY <1>0, <1>1, StagesStay DEF DeployedIsReady, Needed, Grows
  <1>2. ASSUME UNCHANGED <<phase, installed>> PROVE DeployedIsReady'
    BY <1>1, <1>2
  <1>3. ASSUME NEW a \in Agents, Advance(a, 1), UNCHANGED installed
        PROVE  DeployedIsReady'
    BY <1>1, <1>3 DEF Advance, TypeOK
  <1>4. ASSUME NEW a \in Agents, Register(a) \/ Report(a) \/ GoOffline(a)
                     \/ ContainerDies(a) \/ ContainerRestarts(a)
                     \/ Job(a) \/ StartFails(a) \/ QueryBegin(a) \/ Lagging(a)
        PROVE  UNCHANGED <<phase, installed>>
    BY <1>4 DEF Register, Report, GoOffline, ContainerDies, ContainerRestarts,
                Job, JobSkipped, JobFails, Perform, JobHealthy, StartFails, QueryBegin,
                Lagging, RegisterUnseen, ReportUnseen, CacheRefreshed
  <1>5. ASSUME NEW a \in Agents,
               \/ EtcdCount(a) \/ EtcdTotal(a) \/ EtcdAddrs(a) \/ Master(a)
               \/ Ha(a) \/ HaMasters(a) \/ HaReady(a) \/ Minion(a)
        PROVE  UNCHANGED installed /\ (UNCHANGED phase \/ Advance(a, 1))
    BY <1>5 DEF EtcdCount, EtcdTotal, EtcdAddrs, Master, Ha, HaMasters, HaReady,
                Minion, NotConfirmed, Confirmed
  <1>6. ASSUME NEW a \in Agents, Extras(a) PROVE DeployedIsReady'
    <2>1. CASE installed' \in installed..Resources /\ UNCHANGED phase
      BY <1>1, <2>1 DEF TypeOK, Resources
    <2>2. CASE installed' = Resources /\ Advance(a, 2)
      <3>1. Needed(a) \subseteq ready[a] /\ Staged!HaReady
        BY <1>6 DEF Extras, QueryInv, OfAgent, OfCluster, Needed, Components
      <3>2. \A b \in Agents \ {a} : phase'[b] = phase[b]
        BY <2>2 DEF Advance, TypeOK
      <3>3. ASSUME NEW b \in Agents, phase'[b] = 2
            PROVE  Needed(b) \subseteq ready'[b] /\ Staged!HaReady'
        <4>1. Needed(b) \subseteq ready[b] /\ Staged!HaReady
          BY <3>1, <3>2, <3>3 DEF DeployedIsReady
        <4> QED
          BY <1>0, <4>1, StagesStay DEF Grows
      <3> QED
        BY <2>2, <3>3 DEF DeployedIsReady, Needed
    <2> QED
      BY <1>6, <2>1, <2>2 DEF Extras
  <1> QED
    BY <1>2, <1>3, <1>4, <1>5, <1>6 DEF LaggingNext, Next, MainLoop, Query, vars

\* The invariant holds initially: nothing is cached, asked or deployed.
LEMMA InvInit ==
    ASSUME Init
    PROVE  ViewInv /\ QueryInv /\ DeployedIsReady
  <1>1. Loop.pc = "idle"
    BY DEF Loop
  <1>2. \A a \in Agents : work[a].pc = "idle" /\ phase[a] = 0 /\ view[a] = None
    BY <1>1 DEF Init
  <1> QED
    BY <1>2 DEF ViewInv, QueryInv, OfAgent, OfCluster, Asking, DeployedIsReady

\* The strengthening of DeployedIsReady is an invariant.
LEMMA QueriesCorrect ==
    LaggingSpec => [](TypeOK /\ ViewInv /\ QueryInv /\ DeployedIsReady)
  <1>1. ViewInv /\ QueryInv /\ DeployedIsReady /\ TypeOK /\ TypeOK' /\ [LaggingNext]_vars
          => ViewInv' /\ QueryInv' /\ DeployedIsReady'
    BY ViewStays, QueriesStay, DeployedStays
  <1> QED
    BY <1>1, InvInit, LaggingTypeCorrect, PTL DEF LaggingSpec

\* An agent saved as "deployed" is ready even behind a cache that shows any
\* mixture of what was true of the agents at earlier moments: no barrier of
\* the chain counts on a cache that is up to date.
THEOREM DeployedBehindCache == LaggingSpec => []DeployedIsReady
  BY QueriesCorrect, PTL

\* Whatever agents come and go, lose leases, containers or answers between the
\* reads of a query, an agent saved as "deployed" has had every component it
\* needs healthy, behind an ETCD cluster, a master and the load balancers.
THEOREM DeployedCorrect == Spec => []DeployedIsReady
  BY SpecMayLag, DeployedBehindCache, PTL

-----------------------------------------------------------------------------
(* The scheduler implements the staged deployment *)

\* Each step registers an agent, starts one component whose stage has come, or
\* finds components healthy; all others are stutters of the abstract machine.
LEMMA StepIsStaged ==
    ASSUME TypeOK, TypeOK', QueryInv, [LaggingNext]_vars
    PROVE  [Staged!Next]_(Staged!vars)
  <1> USE DEF nodeVars, Staged!vars
  <1>1. ASSUME UNCHANGED <<joined, files, ready>> PROVE UNCHANGED Staged!vars
    BY <1>1
  <1>2. ASSUME NEW a \in Agents, Register(a) PROVE Staged!Next
    BY <1>2 DEF Register, Staged!Next, Staged!Join
  <1>3. ASSUME NEW a \in Agents, Report(a) PROVE Staged!Next
    <2>1. Staged!BecomeReady(a, HealthySet(a))
      BY <1>3, HealthyIsPerformed DEF Report, Staged!BecomeReady
    <2>2. HealthySet(a) \in SUBSET Staged!Components
      BY HealthyIsPerformed DEF Components, Staged!Components
    <2> QED
      BY <2>1, <2>2 DEF Staged!Next
  <1>4. ASSUME NEW a \in Agents,
               GoOffline(a) \/ ContainerDies(a) \/ ContainerRestarts(a)
        PROVE  UNCHANGED <<joined, files, ready>>
    BY <1>4 DEF GoOffline, ContainerDies, ContainerRestarts
  <1>5. ASSUME NEW a \in Agents, Query(a) PROVE UNCHANGED <<joined, files, ready>>
    BY <1>5 DEF Query, QueryBegin, EtcdCount, EtcdTotal, EtcdAddrs, Master, Ha,
                HaMasters, HaReady, Minion, Extras, Unmoved
  <1>6. ASSUME NEW a \in Agents, JobSkipped(a) \/ JobHealthy(a)
        PROVE  Staged!Next
    <2>1. /\ Healthy(a, work[a].job) /\ work[a].job \in Components
          /\ ready' = [ready EXCEPT ![a] = @ \cup {work[a].job}]
          /\ UNCHANGED <<joined, files>>
      BY <1>6 DEF JobSkipped, JobHealthy, TypeOK
    <2>2. Staged!BecomeReady(a, {work[a].job})
      BY <2>1, HealthyIsPerformed DEF Staged!BecomeReady
    <2>3. {work[a].job} \in SUBSET Staged!Components
      BY <2>1 DEF Components, Staged!Components
    <2> QED
      BY <2>2, <2>3 DEF Staged!Next
  <1>7. ASSUME NEW a \in Agents, JobFails(a)
        PROVE  UNCHANGED <<joined, files, ready>>
    BY <1>7 DEF JobFails
  <1>8. ASSUME NEW a \in Agents, Perform(a) \/ StartFails(a) PROVE Staged!Next
    <2>1. /\ work[a].pc = "given" /\ work[a].job \in Components
          /\ files' = [files EXCEPT ![a] = @ \cup {work[a].job}]
          /\ UNCHANGED <<joined, ready>>
      BY <1>8 DEF Perform, StartFails, TypeOK
    <2>2. /\ a \in joined /\ work[a].job \in RolesOf[a]
          /\ Staged!MayStart(work[a].job)
      BY <2>1 DEF QueryInv, OfAgent, OfCluster
    <2>3. Staged!Start(a, work[a].job)
      BY <2>1, <2>2 DEF Staged!Start
    <2> QED
      BY <2>1, <2>3 DEF Staged!Next, Components, Staged!Components
  <1>9. ASSUME NEW a \in Agents, RegisterUnseen(a) PROVE Staged!Next
    BY <1>9 DEF RegisterUnseen, Staged!Next, Staged!Join
  <1>10. ASSUME NEW a \in Agents, ReportUnseen(a) PROVE Staged!Next
    <2>1. Staged!BecomeReady(a, HealthySet(a))
      BY <1>10, HealthyIsPerformed DEF ReportUnseen, Staged!BecomeReady
    <2>2. HealthySet(a) \in SUBSET Staged!Components
      BY HealthyIsPerformed DEF Components, Staged!Components
    <2> QED
      BY <2>1, <2>2 DEF Staged!Next
  <1>11. ASSUME NEW a \in Agents, CacheRefreshed(a)
         PROVE  UNCHANGED <<joined, files, ready>>
    BY <1>11 DEF CacheRefreshed
  <1>12. CASE UNCHANGED vars
    BY <1>12 DEF vars
  <1> QED
    BY <1>1, <1>2, <1>3, <1>4, <1>5, <1>6, <1>7, <1>8, <1>9, <1>10, <1>11, <1>12
    DEF LaggingNext, Lagging, Next, MainLoop, Job

\* The scheduler and its agents implement the staged deployment, however the
\* cache lags behind: no component is performed on a node before its stage.
THEOREM LaggingIsStaged == LaggingSpec => StagedSpec
  <1>1. Init => Staged!Init
    BY DEF Init, Staged!Init
  <1>2. TypeOK /\ TypeOK' /\ QueryInv /\ [LaggingNext]_vars
          => [Staged!Next]_(Staged!vars)
    BY StepIsStaged
  <1> QED
    BY <1>1, <1>2, QueriesCorrect, PTL DEF LaggingSpec, StagedSpec, Staged!Spec

\* So they do with a cache that never lags.
THEOREM SchedulerIsStaged == Spec => StagedSpec
  BY SpecMayLag, LaggingIsStaged, PTL

=============================================================================
