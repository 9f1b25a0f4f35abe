-------------------------- MODULE Installer_proofs --------------------------
(***************************************************************************)
(* The order in which a cluster gets its objects and services, for every   *)
(* set of agents, masters and monitors, every choice of extensional        *)
(* deployments and every budget of faults.                                 *)
(***************************************************************************)
EXTENDS Installer, TLAPS

-----------------------------------------------------------------------------
(* The invariant *)

Probed(e, c) == Manifests[c].probe \in e[c]

\* What a query at its point of the chain may rely on, given the objects e
\* and the controllers k.
Sound(q, e, k) ==
    /\ \A d \in 1..(q.comp - 1) : d \in Components => Probed(e, d)
    /\ q.at \in {"client", "build", "address", "controller", "create",
                 "keep", "get"} => q.comp \in Owners
    /\ q.at = "idle" => q.comp = 1
    /\ q.at = "build" => q.addr \in Masters
    /\ q.at = "get" => k[q.comp] # None
    /\ q.at \in {"exists", "object"} =>
          /\ q.comp \in Components /\ q.obj >= 1
          /\ 1..(q.obj - 1) \subseteq e[q.comp]
    /\ q.at = "object" => q.obj <= Manifests[q.comp].size
    /\ q.at \in {"points", "routes"} => q.comp = Last + 1

QueriesSound == \A a \in Agents : Sound(query[a], exists, controller)

FlagsTrue == \A c \in Components : flag[c] => Probed(exists, c)

Inv == TypeOK /\ QueriesSound /\ FlagsTrue /\ ObjectsInOrder
       /\ ComponentsInOrder /\ ServedHasServices

-----------------------------------------------------------------------------
(* Manifests and queries *)

LEMMA ManifestType ==
    /\ Last \in Nat /\ Last >= 2
    /\ Network \in Components /\ Dns \in Components
    /\ \A c \in Components :
          /\ Manifests[c].size \in Nat /\ Manifests[c].probe \in Nat
          /\ 1 <= Manifests[c].probe /\ Manifests[c].probe <= Manifests[c].size
<1> DEFINE M == [size : Nat \ {0}, probe : Nat \ {0}]
<1>1. <<KubeRouter, CoreDNS>> \in Seq(M) /\ Len(<<KubeRouter, CoreDNS>>) = 2
      BY DEF KubeRouter, CoreDNS
<1>2. Requested \in Seq(M) /\ Len(Requested) \in Nat
      BY ManifestAssumption
<1>3. Manifests \in Seq(M) /\ Len(Manifests) = 2 + Len(Requested)
      BY <1>1, <1>2 DEF Manifests
<1>4. \A c \in 1..Len(Manifests) :
          Manifests[c] = IF c <= 2 THEN <<KubeRouter, CoreDNS>>[c]
                         ELSE Requested[c - 2]
      BY <1>1, <1>2, <1>3 DEF Manifests
<1>5. \A c \in 1..Len(Manifests) : Manifests[c] \in M
  <2> HIDE DEF M
  <2> QED
      BY <1>3
<1>6. \A c \in 1..Len(Manifests) : Manifests[c].probe <= Manifests[c].size
  <2> SUFFICES ASSUME NEW c \in 1..Len(Manifests)
               PROVE  Manifests[c].probe <= Manifests[c].size
      OBVIOUS
  <2>1. CASE c <= 2
        BY SMTT(60), <2>1, <1>3, <1>4 DEF KubeRouter, CoreDNS
  <2>2. CASE ~(c <= 2)
    <3>1. c - 2 \in 1..Len(Requested)
          BY <2>2, <1>2, <1>3
    <3>2. QED
          BY <3>1, <2>2, <1>4, ManifestAssumption
  <2>3. QED
        BY <2>1, <2>2
<1>7. QED
      BY <1>2, <1>3, <1>5, <1>6 DEF Last, Components, Network, Dns

LEMMA IdleType == Idle \in Query /\ \A e, k : Sound(Idle, e, k)
BY ManifestType DEF Idle, Query, Points, Addresses, Sound

LEMMA SpendType ==
    ASSUME TypeOK, NEW k \in Faults, Spend(k)
    PROVE  spent' \in [Faults -> Nat]
BY DEF TypeOK, Spend

\* A query that moves on disturbs no other, if nothing disappears.
LEMMA OneQuery ==
    ASSUME TypeOK, QueriesSound,
           NEW a \in Agents, NEW q \in Query,
           query' = [query EXCEPT ![a] = q],
           \A c \in Components : exists[c] \subseteq exists'[c],
           \A c \in Owners : controller[c] # None => controller'[c] # None,
           Sound(q, exists', controller')
    PROVE  query' \in [Agents -> Query] /\ QueriesSound'
<1>1. query' \in [Agents -> Query]
      BY DEF TypeOK
<1>2. ASSUME NEW b \in Agents PROVE Sound(query'[b], exists', controller')
  <2>1. CASE b = a
        BY <2>1 DEF TypeOK
  <2>2. CASE b # a
    <3>1. query'[b] = query[b] /\ query[b] \in Query
          BY <2>2 DEF TypeOK
    <3>2. Sound(query[b], exists, controller)
          BY DEF QueriesSound
    <3>3. QED
          BY <3>1, <3>2 DEF Sound, Probed
  <2>3. QED
        BY <2>1, <2>2
<1>3. QED
      BY <1>1, <1>2 DEF QueriesSound

\* A query moves on and nothing else changes but who is served and spent.
LEMMA MoveOn ==
    ASSUME Inv, NEW a \in Agents, NEW q \in Query,
           query' = [query EXCEPT ![a] = q],
           Sound(q, exists, controller),
           UNCHANGED <<cluster, lazy, flag>>,
           points' = points, monitoring' \in BOOLEAN,
           spent' \in [Faults -> Nat],
           \/ served' = served
           \/ /\ served' = served \cup {a}
              /\ \A c \in Components : Probed(exists, c)
    PROVE  Inv'
<1> USE DEF Inv, cluster, lazy
<1>1. query' \in [Agents -> Query] /\ QueriesSound'
      BY OneQuery
<1>2. TypeOK'
      BY <1>1 DEF TypeOK
<1>3. FlagsTrue' /\ ObjectsInOrder' /\ ComponentsInOrder'
      BY DEF FlagsTrue, ObjectsInOrder, ComponentsInOrder, Probed
<1>4. ServedHasServices'
      BY DEF ServedHasServices, Probed
<1>5. QED
      BY <1>1, <1>2, <1>3, <1>4

LEMMA GivesUp ==
    ASSUME Inv, NEW a \in Agents, GiveUp(a),
           UNCHANGED <<cluster, lazy, flag, watched, served>>,
           spent' \in [Faults -> Nat]
    PROVE  Inv'
<1>1. monitoring' \in BOOLEAN /\ points' = points
      BY DEF Inv, TypeOK, watched
<1>2. QED
      BY <1>1, IdleType, MoveOn DEF GiveUp

LEMMA InitInv == Init => Inv
<1> SUFFICES ASSUME Init PROVE Inv
    OBVIOUS
<1>1. TypeOK
      BY IdleType DEF Init, TypeOK, Addresses
<1>2. QueriesSound
      BY IdleType DEF Init, QueriesSound
<1>3. FlagsTrue /\ ObjectsInOrder /\ ComponentsInOrder /\ ServedHasServices
      BY DEF Init, FlagsTrue, ObjectsInOrder, ComponentsInOrder,
             ServedHasServices
<1>4. QED
      BY <1>1, <1>2, <1>3 DEF Inv

-----------------------------------------------------------------------------
(* The steps of a query *)

\* What is known of a's query.
LEMMA Known ==
    ASSUME Inv, NEW a \in Agents
    PROVE  /\ query[a] \in Query /\ Sound(query[a], exists, controller)
           /\ query[a].comp \in 1..(Last + 1) /\ query[a].obj \in Nat
           /\ query[a].addr \in Addresses /\ query[a].at \in Points
           /\ Idle \in Query
           /\ monitoring \in BOOLEAN /\ spent \in [Faults -> Nat]
BY IdleType DEF Inv, TypeOK, QueriesSound, Query


\* A query moves on and only what is spent may change with it.
LEMMA Moves ==
    ASSUME Inv, NEW a \in Agents, NEW p \in Points, NEW c \in 1..(Last + 1),
           NEW i \in Nat, NEW addr \in Addresses,
           Becomes(a, p, c, i, addr),
           Sound([at |-> p, comp |-> c, obj |-> i, addr |-> addr],
                 exists, controller),
           UNCHANGED <<cluster, lazy, flag, watched, served>>,
           spent' \in [Faults -> Nat]
    PROVE  Inv'
<1>1. [at |-> p, comp |-> c, obj |-> i, addr |-> addr] \in Query
      BY DEF Query
<1>2. monitoring' \in BOOLEAN /\ points' = points
      BY DEF Inv, TypeOK, watched
<1>3. QED
      BY <1>1, <1>2, MoveOn DEF Becomes

LEMMA ClientStep ==
    ASSUME Inv, NEW a \in Agents,
           Begin(a) \/ ClientReady(a) \/ ChooseMaster(a)
    PROVE  Inv'
<1>1. ASSUME Begin(a) PROVE Inv'
  <2>1. query[a].comp = 1 /\ 1 \in Owners
        BY <1>1, Known DEF Begin, At, Sound, Owners, FirstExt
  <2>2. Sound([at |-> "client", comp |-> query[a].comp,
               obj |-> query[a].obj, addr |-> query[a].addr],
              exists, controller)
        BY <2>1 DEF Sound
  <2>3. QED
        BY <1>1, <2>2, Known, Moves DEF Begin, Go, Learn, Points
<1>2. ASSUME ClientReady(a) PROVE Inv'
  <2>1. Sound([at |-> "controller", comp |-> query[a].comp,
               obj |-> query[a].obj, addr |-> query[a].addr],
              exists, controller)
        BY <1>2, Known DEF ClientReady, At, Sound
  <2>2. QED
        BY <1>2, <2>1, Known, Moves DEF ClientReady, Go, Learn, Points
<1>3. ASSUME ChooseMaster(a) PROVE Inv'
  <2>1. PICK m \in up : Learn(a, "build", m)
        BY <1>3 DEF ChooseMaster
  <2>2. m \in Masters /\ m \in Addresses
        BY DEF Inv, TypeOK, Addresses
  <2>3. Sound([at |-> "build", comp |-> query[a].comp,
               obj |-> query[a].obj, addr |-> m], exists, controller)
        BY <1>3, <2>2, Known DEF ChooseMaster, At, Sound
  <2>4. QED
        BY <1>3, <2>1, <2>2, <2>3, Known, Moves
        DEF ChooseMaster, Learn, Points
<1>4. QED
      BY <1>1, <1>2, <1>3

LEMMA CreateClientStep ==
    ASSUME Inv, NEW a \in Agents, CreateClient(a) \/ NoteAddress(a)
    PROVE  Inv'
<1> DEFINE point == IF CreateClient(a) THEN "address" ELSE "controller"
           q == [at |-> point, comp |-> query[a].comp, obj |-> query[a].obj,
                 addr |-> query[a].addr]
<1>1. query[a].at \in {"build", "address"} /\ query' = [query EXCEPT ![a] = q]
      BY DEF CreateClient, NoteAddress, At, Go, Learn, Becomes
<1>2. client' \in Masters \cup {None} /\ ip' \in Addresses
  <2>1. query[a].at = "build" => query[a].addr \in Masters
        BY Known DEF Sound
  <2>2. QED
        BY <2>1, Known DEF CreateClient, NoteAddress, At, Inv, TypeOK
<1>3. UNCHANGED <<cluster, controller, flag, watched, served, spent>>
      BY DEF CreateClient, NoteAddress
<1>4. q \in Query
      BY Known DEF Query, Points
<1>5. Sound(q, exists, controller)
      BY <1>1, Known DEF Sound
<1>6. query' \in [Agents -> Query] /\ QueriesSound'
  <2> HIDE DEF q
  <2> QED
      BY <1>1, <1>3, <1>4, <1>5, OneQuery DEF Inv, cluster
<1>7. TypeOK'
      BY <1>2, <1>3, <1>6 DEF Inv, TypeOK, cluster, watched
<1>8. FlagsTrue' /\ ObjectsInOrder' /\ ComponentsInOrder'
      BY <1>3 DEF Inv, cluster, FlagsTrue, ObjectsInOrder, ComponentsInOrder,
                  Probed
<1>9. ServedHasServices'
      BY <1>3 DEF Inv, cluster, ServedHasServices
<1>10. QED
      BY <1>6, <1>7, <1>8, <1>9 DEF Inv

LEMMA ControllerStep ==
    ASSUME Inv, NEW a \in Agents,
           HasController(a) \/ CreateController(a) \/ GetController(a)
    PROVE  Inv'
<1>1. ASSUME HasController(a) PROVE Inv'
  <2> DEFINE point == IF controller[query[a].comp] = None THEN "create"
                      ELSE "get"
  <2>1. Sound([at |-> point, comp |-> query[a].comp,
               obj |-> query[a].obj, addr |-> query[a].addr],
              exists, controller)
        BY <1>1, Known DEF HasController, At, Sound
  <2>2. point \in Points /\ Becomes(a, point, query[a].comp, query[a].obj,
                                    query[a].addr)
        BY <1>1 DEF HasController, Go, Learn, Points
  <2>3. QED
    <3> HIDE DEF point
    <3> QED
        BY <1>1, <2>1, <2>2, Known, Moves DEF HasController
<1>2. ASSUME CreateController(a) PROVE Inv'
  <2>1. Sound([at |-> "keep", comp |-> query[a].comp,
               obj |-> query[a].obj, addr |-> ip], exists, controller)
        BY <1>2, Known DEF CreateController, At, Sound
  <2>2. ip \in Addresses
        BY DEF Inv, TypeOK
  <2>3. QED
        BY <1>2, <2>1, <2>2, Known, Moves
        DEF CreateController, Learn, Points
<1>3. ASSUME GetController(a) PROVE Inv'
  <2> DEFINE point == IF query[a].comp <= Last THEN "check" ELSE "points"
  <2>0. query[a].comp > Last => query[a].comp = Last + 1
        BY <1>3, ManifestType, Known DEF GetController
  <2>1. Sound([at |-> point, comp |-> query[a].comp,
               obj |-> query[a].obj, addr |-> controller[query[a].comp]],
              exists, controller)
    <3>1. CASE query[a].comp <= Last
          BY <1>3, <3>1, Known DEF GetController, At, Sound
    <3>2. CASE query[a].comp > Last
          BY <1>3, <2>0, <3>2, Known DEF GetController, At, Sound
    <3>3. query[a].comp <= Last \/ query[a].comp > Last
          BY ManifestType, Known
    <3>4. QED
          BY <3>1, <3>2, <3>3
  <2>2. controller[query[a].comp] \in Addresses
        BY <1>3, Known DEF GetController, At, Sound, Inv, TypeOK
  <2>3. point \in Points /\ Becomes(a, point, query[a].comp, query[a].obj,
                                    controller[query[a].comp])
        BY <1>3 DEF GetController, Learn, Points
  <2>4. QED
    <3> HIDE DEF point
    <3> QED
        BY <1>3, <2>1, <2>2, <2>3, Known, Moves DEF GetController
<1>4. QED
      BY <1>1, <1>2, <1>3

LEMMA KeepControllerStep ==
    ASSUME Inv, NEW a \in Agents, KeepController(a)
    PROVE  Inv'
<1> DEFINE q == [at |-> "get", comp |-> query[a].comp,
                 obj |-> query[a].obj, addr |-> query[a].addr]
<1>1. query[a].comp \in Owners /\ query[a].addr \in Addresses
      BY Known DEF KeepController, At, Sound
<1>2. query[a].addr # None
      BY <1>1, NoneAssumption DEF Addresses
<1>3. query' = [query EXCEPT ![a] = q]
      BY DEF KeepController, Go, Learn, Becomes
<1>4. /\ controller' \in [Owners -> Addresses \cup {None}]
      /\ \A c \in Owners : controller[c] # None => controller'[c] # None
      /\ controller'[query[a].comp] # None
      BY <1>1, <1>2 DEF KeepController, Inv, TypeOK
<1>5. flag' \in [Components -> BOOLEAN]
      /\ \A c \in Components : flag'[c] => flag[c]
      BY DEF KeepController, Inv, TypeOK
<1>6. UNCHANGED <<cluster, client, ip, watched, served, spent>>
      BY DEF KeepController
<1>7. q \in Query
      BY Known DEF Query, Points
<1>8. Sound(q, exists, controller')
      BY <1>1, <1>4, Known DEF Sound
<1>9. query' \in [Agents -> Query] /\ QueriesSound'
  <2> HIDE DEF q
  <2> QED
      BY <1>3, <1>4, <1>6, <1>7, <1>8, OneQuery DEF Inv, cluster
<1>10. TypeOK'
      BY <1>4, <1>5, <1>6, <1>9 DEF Inv, TypeOK, cluster, watched
<1>11. FlagsTrue' /\ ObjectsInOrder' /\ ComponentsInOrder'
      BY <1>5, <1>6 DEF Inv, cluster, FlagsTrue, ObjectsInOrder,
                       ComponentsInOrder, Probed
<1>12. ServedHasServices'
      BY <1>6 DEF Inv, cluster, ServedHasServices
<1>13. QED
      BY <1>9, <1>10, <1>11, <1>12 DEF Inv

-----------------------------------------------------------------------------
(* Installing *)

\* Manifest c is passed once its probe is there.
LEMMA Passes ==
    ASSUME Inv, NEW a \in Agents, NEW c \in Components,
           query[a].comp = c, Probed(exists, c),
           NEW point \in {"check", "recheck"}, Onward(a, c, point),
           UNCHANGED <<exists, controller>>
    PROVE  /\ query' \in [Agents -> Query] /\ QueriesSound'
           /\ monitoring' \in BOOLEAN /\ points' = points
<1> DEFINE to == IF c < FirstExt THEN "client"
                 ELSE IF c < Last THEN point ELSE "points"
           q == [at |-> to, comp |-> c + 1, obj |-> 0, addr |-> query[a].addr]
<1>1. c + 1 \in 1..(Last + 1) /\ c \in 1..Last /\ Last \in Nat
      BY ManifestType DEF Components
<1>2. q \in Query
      BY <1>1, Known DEF Query, Points
<1>3. \A d \in 1..c : d \in Components => Probed(exists, d)
      BY <1>1, Known DEF Sound
<1>4. to = "client" => c + 1 \in Owners
      BY <1>1 DEF Owners, FirstExt
<1>5. to = "points" => c + 1 = Last + 1
      BY <1>1
<1>6. Sound(q, exists, controller)
      BY <1>1, <1>3, <1>4, <1>5 DEF Sound
<1>7. query' = [query EXCEPT ![a] = q]
      BY DEF Onward, GoTo, Becomes
<1>8. monitoring' \in BOOLEAN /\ points' = points
      BY Known DEF Onward
<1>9. QED
  <2> HIDE DEF q
  <2> QED
      BY <1>2, <1>6, <1>7, <1>8, OneQuery DEF Inv

LEMMA HasInstalledStep ==
    ASSUME Inv, NEW a \in Agents, HasInstalled(a)
    PROVE  Inv'
<1> DEFINE c == query[a].comp
<1>1. c \in Components
      BY ManifestType, Known DEF HasInstalled, Components
<1>2. Probed(exists, c)
      BY <1>1 DEF HasInstalled, SeemsInstalled, Inv, FlagsTrue, Probed
<1>3. UNCHANGED <<cluster, lazy, served, spent>>
      BY DEF HasInstalled
<1>4. /\ query' \in [Agents -> Query] /\ QueriesSound'
      /\ monitoring' \in BOOLEAN /\ points' = points
      BY <1>1, <1>2, <1>3, Passes DEF HasInstalled, cluster, lazy
<1>5. flag' \in [Components -> BOOLEAN]
      /\ \A d \in Components : flag'[d] => flag[d] \/ d = c
      BY <1>1 DEF HasInstalled, Inv, TypeOK
<1>6. TypeOK'
      BY <1>3, <1>4, <1>5 DEF Inv, TypeOK, cluster, lazy
<1>7. FlagsTrue'
      BY <1>2, <1>3, <1>5 DEF Inv, cluster, FlagsTrue, Probed
<1>8. ObjectsInOrder' /\ ComponentsInOrder' /\ ServedHasServices'
      BY <1>3 DEF Inv, cluster, ObjectsInOrder, ComponentsInOrder,
                  ServedHasServices
<1>9. QED
      BY <1>4, <1>6, <1>7, <1>8 DEF Inv

LEMMA InstallStep ==
    ASSUME Inv, NEW a \in Agents, Install(a)
    PROVE  Inv'
<1>1. query[a].comp \in Components /\ Last \in Nat
      BY ManifestType, Known DEF Install, Components
<1>2. UNCHANGED <<cluster, lazy, flag, watched, served, spent>>
      BY DEF Install
<1>3. CASE At(a, "check") /\ query[a].comp >= FirstExt
  <2>1. FirstExt \in 1..(Last + 1)
        BY <1>1, <1>3 DEF Components, FirstExt
  <2>2. Sound([at |-> "recheck", comp |-> FirstExt, obj |-> 0,
               addr |-> query[a].addr], exists, controller)
        BY <1>1, <1>3, Known DEF Sound, Components, FirstExt
  <2>3. Becomes(a, "recheck", FirstExt, 0, query[a].addr)
        BY <1>3 DEF Install, GoTo
  <2>4. QED
        BY <1>2, <2>1, <2>2, <2>3, Known, Moves DEF Points
<1>4. CASE ~(At(a, "check") /\ query[a].comp >= FirstExt)
  <2>1. Sound([at |-> "exists", comp |-> query[a].comp, obj |-> 1,
               addr |-> query[a].addr], exists, controller)
        BY <1>1, Known DEF Sound
  <2>2. Becomes(a, "exists", query[a].comp, 1, query[a].addr)
        BY <1>4 DEF Install, Seek
  <2>3. QED
        BY <1>2, <2>1, <2>2, Known, Moves DEF Points
<1>5. QED
      BY <1>3, <1>4

LEMMA ObjectExistsStep ==
    ASSUME Inv, NEW a \in Agents, ObjectExists(a)
    PROVE  Inv'
<1> DEFINE c == query[a].comp
           i == query[a].obj
<1>1. /\ c \in Components /\ i \in Nat /\ i >= 1
      /\ 1..(i - 1) \subseteq exists[c] /\ i <= Manifests[c].size
      BY Known DEF ObjectExists, At, Sound
<1>2. UNCHANGED <<cluster, lazy, flag, watched, served>>
      BY DEF ObjectExists
<1>3. spent' \in [Faults -> Nat]
      BY SpendType, Known DEF ObjectExists, Faults, Inv
<1>4. CASE i \in exists[c] /\ Seek(a, "exists", i + 1)
  <2>1. Sound([at |-> "exists", comp |-> c, obj |-> i + 1,
               addr |-> query[a].addr], exists, controller)
        BY <1>1, <1>4, Known DEF Sound
  <2>2. QED
        BY SMTT(60), <1>1, <1>2, <1>3, <1>4, <2>1, Known, Moves DEF Seek, Points
<1>5. CASE Go(a, "object")
  <2>1. Sound([at |-> "object", comp |-> c, obj |-> i,
               addr |-> query[a].addr], exists, controller)
        BY <1>1, Known DEF Sound
  <2>2. QED
        BY <1>2, <1>3, <1>5, <2>1, Known, Moves DEF Go, Learn, Points
<1>6. QED
      BY <1>4, <1>5 DEF ObjectExists

\* One more object of a manifest whose earlier objects are there.
LEMMA AppearsEffect ==
    ASSUME Inv, NEW a \in Agents, query[a].at = "object",
           Appears(query[a].comp, query[a].obj, query[a].addr)
    PROVE  /\ exists' \in [Components -> SUBSET Nat]
           /\ address' \in Addresses \cup {None}
           /\ \A c \in Components : exists[c] \subseteq exists'[c]
           /\ query[a].obj \in exists'[query[a].comp]
           /\ ObjectsInOrder' /\ ComponentsInOrder'
<1> DEFINE c == query[a].comp
           i == query[a].obj
<1>1. /\ c \in Components /\ i \in Nat /\ i >= 1
      /\ 1..(i - 1) \subseteq exists[c]
      /\ \A d \in 1..(c - 1) : d \in Components => Probed(exists, d)
      BY Known DEF Sound
<1>2. exists \in [Components -> SUBSET Nat]
      BY DEF Inv, TypeOK
<1>3. exists' = [exists EXCEPT ![c] = exists[c] \cup {i}]
      BY DEF Appears
<1>4. \A d \in Components :
          exists'[d] = IF d = c THEN exists[d] \cup {i} ELSE exists[d]
      BY <1>1, <1>2, <1>3
<1>5. exists' \in [Components -> SUBSET Nat]
      BY <1>1, <1>2, <1>3
<1>6. address' \in Addresses \cup {None}
      BY Known DEF Appears, Inv, TypeOK
<1>7. ASSUME NEW d \in Components, NEW j \in exists'[d]
      PROVE  1..j \subseteq exists'[d]
  <2>1. CASE j \in exists[d]
        BY <2>1, <1>4 DEF Inv, ObjectsInOrder
  <2>2. CASE d = c /\ j = i
    <3>1. \A x \in 1..j : x = i \/ x \in 1..(i - 1)
          BY <2>2, <1>1
    <3>2. \A x \in 1..j : x = i \/ x \in exists[c]
          BY <3>1, <1>1
    <3>3. exists'[d] = exists[c] \cup {i}
          BY <2>2, <1>4
    <3>4. QED
          BY <3>2, <3>3
  <2>3. QED
        BY <2>1, <2>2, <1>4
<1>8. ASSUME NEW d \in Components, exists'[d] # {}, NEW e \in 1..(d - 1)
      PROVE  Manifests[e].probe \in exists'[e]
  <2>1. e \in Components
        BY ManifestType DEF Components
  <2>2. Manifests[e].probe \in exists[e]
    <3>1. CASE d = c
          BY <3>1, <2>1, <1>1 DEF Probed
    <3>2. CASE d # c
          BY <3>2, <1>4, <1>8 DEF Inv, ComponentsInOrder
    <3>3. QED
          BY <3>1, <3>2
  <2>3. QED
        BY <2>1, <2>2, <1>4
<1>9. QED
      BY <1>1, <1>4, <1>5, <1>6, <1>7, <1>8
      DEF ObjectsInOrder, ComponentsInOrder

\* What holds after it, if the query that has created it moves to q.
LEMMA Created ==
    ASSUME Inv, NEW a \in Agents, query[a].at = "object",
           Appears(query[a].comp, query[a].obj, query[a].addr),
           NEW q \in Query, query' = [query EXCEPT ![a] = q],
           Sound(q, exists', controller),
           UNCHANGED <<healthy, up, lazy, flag, watched, served>>,
           spent' \in [Faults -> Nat]
    PROVE  Inv'
<1>1. /\ exists' \in [Components -> SUBSET Nat]
      /\ address' \in Addresses \cup {None}
      /\ \A c \in Components : exists[c] \subseteq exists'[c]
      /\ ObjectsInOrder' /\ ComponentsInOrder'
      BY AppearsEffect
<1>2. controller' = controller
      BY DEF lazy
<1>3. query' \in [Agents -> Query] /\ QueriesSound'
      BY <1>1, <1>2, OneQuery DEF Inv
<1>4. TypeOK'
      BY <1>1, <1>3 DEF Inv, TypeOK, lazy, watched
<1>5. FlagsTrue' /\ ServedHasServices'
      BY <1>1 DEF Inv, FlagsTrue, ServedHasServices, Probed
<1>6. QED
      BY <1>1, <1>3, <1>4, <1>5 DEF Inv

LEMMA CreateObjectStep ==
    ASSUME Inv, NEW a \in Agents, CreateObject(a) \/ AnswerLost(a)
    PROVE  Inv'
<1> DEFINE c == query[a].comp
           i == query[a].obj
<1>1. query[a].at = "object" /\ Appears(c, i, query[a].addr)
      BY DEF CreateObject, AnswerLost, At
<1>2. UNCHANGED <<healthy, up, lazy, flag, watched, served>>
      BY DEF CreateObject, AnswerLost
<1>3. spent' \in [Faults -> Nat]
      BY SpendType, Known DEF CreateObject, AnswerLost, Faults, Inv
<1>4. CASE CreateObject(a)
  <2> DEFINE q == [at |-> "exists", comp |-> c, obj |-> i + 1,
                   addr |-> query[a].addr]
  <2>1. /\ c \in Components /\ i >= 1 /\ 1..(i - 1) \subseteq exists[c]
        /\ \A d \in 1..(c - 1) : d \in Components => Probed(exists, d)
        BY <1>1, Known DEF Sound
  <2>2. \A d \in Components : exists[d] \subseteq exists'[d]
        BY <1>1, AppearsEffect
  <2>3. i \in exists'[c]
        BY <1>1, AppearsEffect
  <2>4. 1..((i + 1) - 1) \subseteq exists'[c]
        BY <2>1, <2>2, <2>3, Known
  <2>5. Sound(q, exists', controller)
        BY <2>1, <2>2, <2>4, Known DEF Sound, Probed
  <2>6. q \in Query
        BY Known DEF Query, Points
  <2>7. query' = [query EXCEPT ![a] = q]
        BY <1>4 DEF CreateObject, Seek, Becomes
  <2>8. QED
    <3> HIDE DEF q
    <3> QED
        BY <1>1, <1>2, <1>3, <2>5, <2>6, <2>7, Created
<1>5. CASE AnswerLost(a)
      BY <1>1, <1>2, <1>3, <1>5, IdleType, Created DEF AnswerLost, GiveUp
<1>6. QED
      BY <1>4, <1>5

LEMMA InstalledStep ==
    ASSUME Inv, NEW a \in Agents, Installed(a)
    PROVE  Inv'
<1> DEFINE c == query[a].comp
<1>1. /\ c \in Components /\ query[a].obj > Manifests[c].size
      /\ 1..(query[a].obj - 1) \subseteq exists[c]
      BY Known DEF Installed, At, Sound
<1>2. Probed(exists, c)
      BY <1>1, ManifestType, Known DEF Probed
<1>3. UNCHANGED <<cluster, lazy, flag, served, spent>>
      BY DEF Installed
<1>4. /\ query' \in [Agents -> Query] /\ QueriesSound'
      /\ monitoring' \in BOOLEAN /\ points' = points
      BY <1>1, <1>2, <1>3, Passes DEF Installed, cluster, lazy
<1>5. TypeOK'
      BY <1>3, <1>4 DEF Inv, TypeOK, cluster, lazy
<1>6. FlagsTrue' /\ ObjectsInOrder' /\ ComponentsInOrder'
      BY <1>3 DEF Inv, cluster, FlagsTrue, ObjectsInOrder,
                  ComponentsInOrder, Probed
<1>7. ServedHasServices'
      BY <1>3 DEF Inv, cluster, ServedHasServices
<1>8. QED
      BY <1>4, <1>5, <1>6, <1>7 DEF Inv

\* A query ends without an answer for its agent.
LEMMA FailStep ==
    ASSUME Inv, NEW a \in Agents,
           \/ NoMaster(a) \/ AlreadyExists(a) \/ RequestFails(a)
           \/ NoAnswer(a) \/ Unhealthy(a)
    PROVE  Inv'
<1>1. GiveUp(a) /\ UNCHANGED <<cluster, lazy, flag, watched, served>>
      BY DEF NoMaster, AlreadyExists, RequestFails, NoAnswer, Unhealthy
<1>2. spent' \in [Faults -> Nat]
      BY SpendType, Known
      DEF NoMaster, AlreadyExists, RequestFails, NoAnswer, Unhealthy,
          Faults, Inv
<1>3. QED
      BY <1>1, <1>2, GivesUp

-----------------------------------------------------------------------------
(* The end of the chain, the monitors and the environment *)

LEMMA RouteStep ==
    ASSUME Inv, NEW a \in Agents, NoRoutes(a) \/ Healthy(a) \/ SendRoutes(a)
    PROVE  Inv'
<1>1. query[a].comp = Last + 1
      BY Known DEF NoRoutes, Healthy, SendRoutes, At, Sound
<1>2. \A c \in Components : Probed(exists, c)
  <2>1. \A d \in 1..Last : Probed(exists, d)
        BY <1>1, ManifestType, Known DEF Sound, Components
  <2>2. QED
        BY <2>1 DEF Components
<1>3. CASE Healthy(a)
  <2>1. Sound([at |-> "routes", comp |-> query[a].comp,
               obj |-> query[a].obj, addr |-> query[a].addr],
              exists, controller)
        BY <1>1, Known DEF Sound
  <2>2. QED
        BY <1>3, <2>1, Known, Moves DEF Healthy, Go, Learn, Points
<1>4. CASE NoRoutes(a) \/ SendRoutes(a)
  <2>1. Deployed(a) /\ UNCHANGED <<cluster, lazy, flag, watched, spent>>
        BY <1>4 DEF NoRoutes, SendRoutes
  <2>2. /\ monitoring' \in BOOLEAN /\ points' = points
        /\ spent' \in [Faults -> Nat]
        BY <2>1, Known DEF watched, Inv, TypeOK
  <2>3. QED
        BY <1>2, <2>1, <2>2, IdleType, MoveOn DEF Deployed
<1>5. QED
      BY <1>3, <1>4

LEMMA MonitorStep ==
    ASSUME Inv, NEW m \in Monitors, MonitorLists(m) \/ MonitorFails(m)
    PROVE  Inv'
<1>1. points' \in [Monitors -> BOOLEAN \cup {None}]
  <2>1. (m = "deployment" /\ healthy) \in BOOLEAN
        BY DEF Inv, TypeOK
  <2>2. CASE MonitorLists(m)
        BY <2>1, <2>2 DEF MonitorLists, Inv, TypeOK
  <2>3. CASE MonitorFails(m)
        BY <2>3 DEF MonitorFails, Inv, TypeOK
  <2>4. QED
        BY <2>2, <2>3
<1>2. spent' \in [Faults -> Nat]
      BY SpendType DEF MonitorLists, MonitorFails, Faults, Inv, TypeOK
<1>3. UNCHANGED <<cluster, lazy, flag, monitoring, query, served>>
      BY DEF MonitorLists, MonitorFails
<1>4. TypeOK'
      BY <1>1, <1>2, <1>3 DEF Inv, TypeOK, cluster, lazy
<1>5. QED
      BY <1>3, <1>4 DEF Inv, cluster, lazy, QueriesSound, FlagsTrue,
         ObjectsInOrder, ComponentsInOrder, ServedHasServices, Probed, Sound

LEMMA EnvironmentStep ==
    ASSUME Inv, Environment
    PROVE  Inv'
<1>1. healthy' \in BOOLEAN /\ up' \in SUBSET Masters
      BY DEF Environment, MetricsServerStarts, MetricsServerFails,
             MasterLost, Inv, TypeOK
<1>2. spent' \in [Faults -> Nat]
      BY SpendType DEF Environment, MetricsServerStarts, MetricsServerFails,
                       MasterLost, Faults, Inv, TypeOK
<1>3. UNCHANGED <<exists, address, lazy, flag, watched, query, served>>
      BY DEF Environment, MetricsServerStarts, MetricsServerFails,
             MasterLost
<1>4. TypeOK'
      BY <1>1, <1>2, <1>3 DEF Inv, TypeOK, lazy, watched
<1>5. QED
      BY <1>3, <1>4 DEF Inv, lazy, QueriesSound, FlagsTrue,
         ObjectsInOrder, ComponentsInOrder, ServedHasServices, Probed, Sound

LEMMA RestartStep ==
    ASSUME Inv, Restart
    PROVE  Inv'
<1>1. UNCHANGED <<exists, address, healthy, up, served>>
      BY DEF Restart, cluster
<1>2. spent' \in [Faults -> Nat]
      BY SpendType DEF Restart, Faults, Inv
<1>3. /\ flag' \in [Components -> BOOLEAN]
      /\ \A c \in Components : ~flag'[c]
      BY DEF Restart
<1>4. query' \in [Agents -> Query] /\ QueriesSound'
      BY IdleType DEF Restart, QueriesSound
<1>5. TypeOK'
      BY <1>1, <1>2, <1>3, <1>4 DEF Restart, Inv, TypeOK, Addresses
<1>6. FlagsTrue' /\ ObjectsInOrder' /\ ComponentsInOrder'
      BY <1>1, <1>3 DEF Inv, FlagsTrue, ObjectsInOrder, ComponentsInOrder
<1>7. ServedHasServices'
      BY <1>1 DEF Inv, ServedHasServices
<1>8. QED
      BY <1>4, <1>5, <1>6, <1>7 DEF Inv

-----------------------------------------------------------------------------
(* The invariant holds *)

LEMMA StepInv == Inv /\ [Next]_vars => Inv'
<1> SUFFICES ASSUME Inv, [Next]_vars PROVE Inv'
    OBVIOUS
<1>1. ASSUME NEW a \in Agents,
             Begin(a) \/ Proceed(a) \/ NoMaster(a) \/ AnswerLost(a)
             \/ RequestFails(a)
      PROVE  Inv'
  <2>1. CASE Begin(a) \/ NoMaster(a) \/ AnswerLost(a) \/ RequestFails(a)
        BY <2>1, ClientStep, FailStep, CreateObjectStep
  <2>2. CASE InitializeClient(a)
        BY <2>2, ClientStep, CreateClientStep DEF InitializeClient
  <2>3. CASE Initialize(a)
        BY <2>3, ControllerStep, KeepControllerStep DEF Initialize
  <2>4. CASE Deploy(a)
        BY <2>4, HasInstalledStep, InstallStep, ObjectExistsStep,
           CreateObjectStep, InstalledStep, FailStep
        DEF Deploy
  <2>5. CASE Route(a)
        BY <2>5, RouteStep, FailStep DEF Route
  <2>6. QED
        BY <1>1, <2>1, <2>2, <2>3, <2>4, <2>5 DEF Proceed
<1>2. CASE UNCHANGED vars
  <2>1. UNCHANGED <<exists, address, healthy, up, client, ip, controller,
                    flag, monitoring, points, query, served, spent>>
        BY <1>2 DEF vars, cluster, lazy, watched
  <2>2. TypeOK'
        BY <2>1 DEF Inv, TypeOK
  <2>3. QED
        BY <2>1, <2>2 DEF Inv, QueriesSound, FlagsTrue, ObjectsInOrder,
           ComponentsInOrder, ServedHasServices, Probed, Sound
<1>3. QED
      BY <1>1, <1>2, MonitorStep, EnvironmentStep, RestartStep DEF Next

LEMMA Invariance == Spec => []Inv
BY InitInv, StepInv, PTL DEF Spec

\* Everything keeps its type: no query asks a controller that is not there.
THEOREM TypeCorrect == Spec => []TypeOK
<1>1. Inv => TypeOK
      BY DEF Inv
<1>2. QED
      BY <1>1, Invariance, PTL

\* The objects of a manifest appear in its order, whatever installations
\* overlap, fail or are cut off.
THEOREM ObjectsAppearInOrder == Spec => []ObjectsInOrder
<1>1. Inv => ObjectsInOrder
      BY DEF Inv
<1>2. QED
      BY <1>1, Invariance, PTL

\* Nothing of a manifest before the probes of the manifests before it.
THEOREM ComponentsAppearInOrder == Spec => []ComponentsInOrder
<1>1. Inv => ComponentsInOrder
      BY DEF Inv
<1>2. QED
      BY <1>1, Invariance, PTL

\* An agent is told that all is deployed only if the cluster has all its
\* services.
THEOREM ServedTruthfully == Spec => []ServedHasServices
<1>1. Inv => ServedHasServices
      BY DEF Inv
<1>2. QED
      BY <1>1, Invariance, PTL
-----------------------------------------------------------------------------
(* The installer implements the rollout in order *)

LEMMA Domain == DOMAIN Manifests = Components
<1> DEFINE M == [size : Nat \ {0}, probe : Nat \ {0}]
<1>1. <<KubeRouter, CoreDNS>> \in Seq(M)
      BY DEF KubeRouter, CoreDNS
<1>2. Manifests \in Seq(M)
      BY <1>1, ManifestAssumption DEF Manifests
<1>3. QED
  <2> HIDE DEF M
  <2> QED
      BY <1>2 DEF Components, Last

\* What a query adds to the cluster is the next object of its manifest, and
\* the services before it are there.
LEMMA AddStep ==
    ASSUME Inv, NEW a \in Agents, CreateObject(a) \/ AnswerLost(a)
    PROVE  Promised!Next
<1> DEFINE c == query[a].comp
           i == query[a].obj
<1>1. /\ c \in Components /\ i \in Nat /\ i >= 1
      /\ 1..(i - 1) \subseteq exists[c]
      /\ i <= Manifests[c].size
      /\ \A d \in 1..(c - 1) : d \in Components => Probed(exists, d)
      BY Known DEF CreateObject, AnswerLost, At, Sound
<1>2. i \in 1..Manifests[c].size
      BY <1>1, ManifestType
<1>3. \A d \in 1..(c - 1) : Promised!HasService(d)
  <2>1. \A d \in 1..(c - 1) : d \in Components
        BY <1>1, ManifestType DEF Components
  <2>2. QED
        BY <1>1, <2>1 DEF Probed, Promised!HasService
<1>4. /\ i \notin exists[c]
      /\ exists' = [exists EXCEPT ![c] = @ \cup {i}]
      /\ served' = served
      BY DEF CreateObject, AnswerLost, Appears
<1>5. Promised!Add(c, i)
      BY <1>1, <1>3, <1>4 DEF Promised!Add
<1>6. QED
      BY <1>1, <1>2, <1>5, Domain DEF Promised!Next

\* A query at the end of the chain has seen all services.
LEMMA TellStep ==
    ASSUME Inv, NEW a \in Agents, NoRoutes(a) \/ SendRoutes(a)
    PROVE  Promised!Next
<1>1. query[a].at \in {"points", "routes"} /\ Deployed(a)
      /\ exists' = exists
      BY DEF NoRoutes, SendRoutes, At, cluster
<1>2. query[a].comp = Last + 1
      /\ \A d \in 1..(query[a].comp - 1) : d \in Components => Probed(exists, d)
      BY <1>1, Known DEF Sound
<1>3. \A d \in Components : Promised!HasService(d)
      BY <1>2, ManifestType DEF Components, Probed, Promised!HasService
<1>4. Promised!Tell(a)
      BY <1>1, <1>3, Domain DEF Promised!Tell, Deployed
<1>5. QED
      BY <1>4 DEF Promised!Next

\* All other steps leave the objects and those who were told alone.
LEMMA StepIsPromised == Inv /\ [Next]_vars => [Promised!Next]_(Promised!vars)
<1> SUFFICES ASSUME Inv, [Next]_vars
             PROVE  [Promised!Next]_(Promised!vars)
    OBVIOUS
<1> USE DEF Promised!vars
<1>1. ASSUME NEW a \in Agents,
             Begin(a) \/ InitializeClient(a) \/ Initialize(a) \/ NoMaster(a)
             \/ RequestFails(a)
      PROVE  UNCHANGED <<exists, served>>
      BY <1>1 DEF Begin, InitializeClient, ClientReady, ChooseMaster,
         CreateClient, NoteAddress, Initialize, HasController,
         CreateController, KeepController, GetController, NoMaster,
         RequestFails, cluster
<1>2. ASSUME NEW a \in Agents, Deploy(a) \/ AnswerLost(a)
      PROVE  Promised!Next \/ UNCHANGED <<exists, served>>
  <2>1. CASE CreateObject(a) \/ AnswerLost(a)
        BY <2>1, AddStep
  <2>2. CASE HasInstalled(a) \/ Install(a) \/ ObjectExists(a)
             \/ AlreadyExists(a) \/ Installed(a) \/ NoAnswer(a)
        BY <2>2 DEF HasInstalled, Install, ObjectExists, AlreadyExists,
           Installed, NoAnswer, cluster
  <2>3. QED
        BY <1>2, <2>1, <2>2 DEF Deploy
<1>3. ASSUME NEW a \in Agents, Route(a)
      PROVE  Promised!Next \/ UNCHANGED <<exists, served>>
  <2>1. CASE NoRoutes(a) \/ SendRoutes(a)
        BY <2>1, TellStep
  <2>2. CASE Unhealthy(a) \/ Healthy(a)
        BY <2>2 DEF Unhealthy, Healthy, cluster
  <2>3. QED
        BY <1>3, <2>1, <2>2 DEF Route
<1>4. ASSUME NEW m \in Monitors, MonitorLists(m) \/ MonitorFails(m)
      PROVE  UNCHANGED <<exists, served>>
      BY <1>4 DEF MonitorLists, MonitorFails, cluster
<1>5. CASE Environment \/ Restart \/ UNCHANGED vars
      BY <1>5 DEF Environment, MetricsServerStarts, MetricsServerFails,
         MasterLost, Restart, cluster, vars
<1>6. QED
      BY <1>1, <1>2, <1>3, <1>4, <1>5 DEF Next, Proceed

\* However queries overlap, fail and are cut off: objects are only added, in
\* order, and agents are told the truth about them.
THEOREM InstallerIsRollout == Spec => RolloutSpec
<1>1. Init => Promised!Init
      BY Domain DEF Init, Promised!Init
<1>2. QED
      BY <1>1, StepIsPromised, Invariance, PTL
      DEF Spec, RolloutSpec, Promised!Spec
=============================================================================
