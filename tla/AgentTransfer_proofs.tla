------------------------- MODULE AgentTransfer_proofs -------------------------
(***************************************************************************)
(* Where an agent is registered, for every set of clusters, roles and ids  *)
(* and every budget of disturbances.                                       *)
(***************************************************************************)
EXTENDS AgentTransfer, TLAPS

-----------------------------------------------------------------------------
(* Types *)

\* What is there at which point of the main loop, a transfer and a change.
Present ==
    /\ main.pc # "boot" => rr # None
    /\ alias # {} => rr # None
    /\ tracer # "idle" => rr # None
    /\ main.pc = "sent" => main.cluster # None
    /\ main.pc = "answered" => main.id # None
    /\ transfer.pc # "none" => transfer.id # None /\ transfer.from # None /\ transfer.to # None
    /\ http.pc # "idle" => http.to # None

TypeInv == TypeOK /\ Present

LEMMA SpendType ==
    ASSUME spent \in [Kinds -> Nat], NEW k \in Kinds, Spend(k)
    PROVE  spent' \in [Kinds -> Nat]
BY DEF Spend

LEMMA ArgType ==
    ASSUME TypeInv
    PROVE  ClusterId \in Clusters /\ ArgRoles \in RoleSets
BY DEF TypeInv, TypeOK, Present, ClusterId, ArgRoles, Place, Record

LEMMA AtType ==
    ASSUME NEW pc \in {"boot", "recovering", "loop", "pool", "preparing"}
    PROVE  At(pc) \in Main /\ At(pc).pc = pc /\ At(pc).id = None
BY PlaceAssumption DEF At, Main

LEMMA InitType == Init => TypeInv
<1> SUFFICES ASSUME Init PROVE TypeInv
    OBVIOUS
<1>1. main \in Main /\ main.pc = "boot"
      BY AtType DEF Init
<1>2. spent \in [Kinds -> Nat] /\ queries = {} /\ revived = {} /\ settings \in [Clusters -> [Ids -> RoleSets \cup {None}]]
      BY DEF Init
<1>3. arg \in Place /\ alias \in SUBSET {"cluster", "roles"} /\ alias = {}
      BY PlaceAssumption DEF Init
<1>4. transfer = NoTransfer /\ http = Idle /\ tracer = "idle" /\ id = None /\ flag = 0
      BY DEF Init
<1>5. rr = None /\ file = None /\ deployed = FALSE /\ healthy = FALSE /\ acked = None
      BY DEF Init
<1>6. TypeOK
      BY <1>1, <1>2, <1>3, <1>4, <1>5 DEF TypeOK, NoTransfer, Idle, Files
<1>7. Present
      BY <1>1, <1>3, <1>4 DEF Present, NoTransfer, Idle
<1>8. QED
      BY <1>6, <1>7 DEF TypeInv

\* One registration at the server.
LEMMA ServerRegistersEffect ==
    ASSUME settings \in [Clusters -> [Ids -> RoleSets \cup {None}]],
           main.roles \in RoleSets, main.cluster \in Clusters,
           NEW i \in Ids, ServerRegisters(i)
    PROVE  /\ settings' \in [Clusters -> [Ids -> RoleSets \cup {None}]]
           /\ settings'[main.cluster][i] =
                 IF settings[main.cluster][i] = None THEN main.roles
                 ELSE settings[main.cluster][i]
           /\ \A c \in Clusters, j \in Ids :
                 (c # main.cluster \/ j # i) => settings'[c][j] = settings[c][j]
           /\ main.id = None => \A c \in Clusters : settings[c][i] = None
           /\ main.id # None => i = main.id
BY DEF ServerRegisters, Fresh, Unused

\* The removal of the keys.
LEMMA RemovesEffect ==
    ASSUME settings \in [Clusters -> [Ids -> RoleSets \cup {None}]],
           NEW d \in Clusters, NEW i \in Ids,
           settings' = [settings EXCEPT ![d][i] = None]
    PROVE  /\ settings' \in [Clusters -> [Ids -> RoleSets \cup {None}]]
           /\ settings'[d][i] = None
           /\ \A c \in Clusters, j \in Ids :
                 (c # d \/ j # i) => settings'[c][j] = settings[c][j]
OBVIOUS

\* What a step leaves of the settings when it removes nothing: an entry it
\* changes belongs to an id that a late query revived, and is there.
Kept ==
    /\ revived \subseteq revived'
    /\ \A c \in Clusters, j \in Ids :
          settings'[c][j] = settings[c][j] \/ (j \in revived' /\ settings'[c][j] # None)

\* The end of a query.
LEMMA QueryEffect ==
    ASSUME TypeOK, NEW q \in queries, QuerySaves(q) \/ QueryEnds(q)
    PROVE  /\ settings' \in [Clusters -> [Ids -> RoleSets \cup {None}]]
           /\ queries' \subseteq Query /\ revived' \subseteq Ids
           /\ Kept
<1>1. /\ q.cluster \in Clusters /\ q.id \in Ids /\ q.roles \in RoleSets /\ q.roles # None
      /\ settings \in [Clusters -> [Ids -> RoleSets \cup {None}]]
      BY NoneAssumption DEF TypeOK, Query
<1>2. queries' \subseteq Query
      BY DEF TypeOK, QuerySaves, QueryEnds
<1>3. CASE QueryEnds(q)
      BY <1>1, <1>2, <1>3 DEF QueryEnds, Kept, TypeOK
<1>4. CASE QuerySaves(q)
  <2>1. /\ settings' \in [Clusters -> [Ids -> RoleSets \cup {None}]]
        /\ settings'[q.cluster][q.id] = q.roles
        /\ \A c \in Clusters, j \in Ids :
              (c # q.cluster \/ j # q.id) => settings'[c][j] = settings[c][j]
        BY <1>1, <1>4 DEF QuerySaves
  <2>2. /\ revived \subseteq revived' /\ revived' \subseteq Ids
        /\ settings[q.cluster][q.id] = q.roles \/ q.id \in revived'
        BY <1>1, <1>4 DEF QuerySaves, TypeOK
  <2>3. Kept
        BY <1>1, <2>1, <2>2 DEF Kept
  <2>4. QED
        BY <1>2, <2>1, <2>2, <2>3
<1>5. QED
      BY <1>3, <1>4

LEMMA StepType == TypeInv /\ [Next]_vars => TypeInv'
<1> SUFFICES ASSUME TypeInv, [Next]_vars PROVE TypeInv'
    OBVIOUS
<1> USE PlaceAssumption, NoneAssumption DEF TypeInv, TypeOK, Present, queryVars
<1>1. ASSUME Boot PROVE TypeInv'
  <2>1. [cluster |-> ClusterId, roles |-> {}, installed |-> FALSE] \in Record
        BY ArgType DEF Record
  <2>2. rr' \in Record
        BY <1>1, <2>1 DEF Boot, Files
  <2>3. main' \in Main /\ main'.pc \in {"recovering", "loop"}
        BY <1>1, AtType DEF Boot
  <2>4. alias' \in SUBSET {"cluster", "roles"}
        BY <1>1 DEF Boot
  <2>5. rr' # None /\ tracer' = tracer /\ http' = http /\ transfer' = transfer
        BY <1>1, <2>2 DEF Boot
  <2>6. TypeOK'
        BY <1>1, <2>2, <2>3, <2>4, <2>5 DEF Boot, diskVars
  <2>7. QED
        BY <2>3, <2>5, <2>6
<1>2. ASSUME Recovered PROVE TypeInv'
  <2>1. main' \in Main /\ main'.pc = "loop"
        BY <1>2 DEF Recovered, At, Main
  <2>2. QED
        BY <1>2, <2>1 DEF Recovered, argVars, diskVars
<1>3. ASSUME Crash PROVE TypeInv'
  <2>1. main' \in Main /\ main'.pc = "boot"
        BY <1>3 DEF Crash, At, Main
  <2>2. spent' \in [Kinds -> Nat] /\ file' \in Files
        BY <1>3, SpendType DEF Crash, Kinds, Files
  <2>3. QED
        BY <1>3, <2>1, <2>2 DEF Crash, Idle, NoTransfer
<1>4. ASSUME RegisterReadsRoles \/ RegisterSends PROVE TypeInv'
  <2>1. /\ main' \in Main /\ main'.pc \in {"reading", "sent"} /\ main.pc # "boot"
        /\ main'.pc = "sent" => main'.cluster # None
        BY <1>4, ArgType DEF RegisterReadsRoles, RegisterSends, At, Main
  <2>2. QED
        BY <1>4, <2>1 DEF RegisterReadsRoles, RegisterSends, argVars, diskVars
<1>5. ASSUME NEW i \in Ids, RegisterAnswered(i) PROVE TypeInv'
  <2>1. main.pc = "sent" /\ main.roles \in RoleSets /\ main.cluster \in Clusters
        BY <1>5 DEF RegisterAnswered, Main
  <2>2. settings' \in [Clusters -> [Ids -> RoleSets \cup {None}]]
        BY <1>5, <2>1, ServerRegistersEffect DEF RegisterAnswered
  <2>3. main' \in Main /\ main'.pc = "answered" /\ main'.id = i
        BY <1>5, <2>1 DEF RegisterAnswered, Main
  <2>4. QED
        BY <1>5, <2>1, <2>2, <2>3 DEF RegisterAnswered, argVars, diskVars
<1>6. ASSUME RegisterFails PROVE TypeInv'
  <2>1. main.pc # "boot" /\ main' \in Main /\ main'.pc = "loop"
        BY <1>6 DEF RegisterFails, At, Main
  <2>2. settings' \in [Clusters -> [Ids -> RoleSets \cup {None}]]
    <3>1. CASE UNCHANGED settings
          BY <3>1
    <3>2. ASSUME main.pc = "sent", NEW i \in Ids, ServerRegisters(i)
          PROVE  settings' \in [Clusters -> [Ids -> RoleSets \cup {None}]]
          BY <3>2, ServerRegistersEffect DEF Main
    <3>3. QED
          BY <1>6, <3>1, <3>2 DEF RegisterFails
  <2>3. spent' \in [Kinds -> Nat]
        BY <1>6, SpendType DEF RegisterFails, Kinds
  <2>4. QED
        BY <1>6, <2>1, <2>2, <2>3 DEF RegisterFails, argVars, diskVars
<1>7. ASSUME RegisterReadsAnswer PROVE TypeInv'
  <2>1. /\ main.pc = "answered" /\ main' \in Main /\ main'.pc \in {"pool", "preparing"}
        /\ main.id \in Ids
        BY <1>7 DEF RegisterReadsAnswer, At, Main
  <2>2. QED
        BY <1>7, <2>1 DEF RegisterReadsAnswer, argVars, diskVars
<1>8. ASSUME EnterPool \/ RegisterSucceeds PROVE TypeInv'
  <2>1. main.pc # "boot" /\ main' \in Main /\ main'.pc = "loop"
        BY <1>8, AtType DEF EnterPool, RegisterSucceeds
  <2>2. flag' \in {-1, 0, 1}
        BY <1>8 DEF EnterPool, RegisterSucceeds
  <2>3. QED
        BY ZenonT(60), <1>8, <2>1, <2>2 DEF EnterPool, RegisterSucceeds, argVars, diskVars
<1>9. ASSUME Deploy PROVE TypeInv'
      BY <1>9 DEF Deploy, argVars
<1>10. ASSUME TraceStatus PROVE TypeInv'
  <2>1. CASE Unrecorded
    <3>1. rr \in Record /\ rr' = [rr EXCEPT !.installed = TRUE] /\ tracer' = "save"
          BY <1>10, <2>1 DEF TraceStatus, Unrecorded
    <3>2. rr' \in Record
          BY <3>1 DEF Record
    <3>3. /\ healthy' \in BOOLEAN /\ rr' # None
          /\ UNCHANGED <<settings, queryVars, transfer, arg, alias, id, flag, main, http, file,
                         deployed, acked, spent>>
          BY <1>10, <3>2 DEF TraceStatus, argVars, diskVars
    <3>4. TypeOK'
          BY <3>1, <3>2, <3>3
    <3>5. Present'
          BY <3>3
    <3>6. QED
          BY <3>4, <3>5
  <2>2. CASE ~Unrecorded
        BY <1>10, <2>2 DEF TraceStatus, argVars, diskVars
  <2>3. QED
        BY <2>1, <2>2
<1>11. ASSUME TracerRemovesFile \/ TracerWritesFile PROVE TypeInv'
  <2>1. /\ tracer' \in {"idle", "save", "write"} /\ file' \in Files
        /\ tracer' # "idle" => rr # None
        BY <1>11 DEF TracerRemovesFile, TracerWritesFile, Files
  <2>2. UNCHANGED <<settings, queryVars, transfer, arg, alias, id, flag, main, http, rr,
                    deployed, healthy, acked, spent>>
        BY <1>11 DEF TracerRemovesFile, TracerWritesFile, argVars
  <2>3. QED
        BY <2>1, <2>2
<1>12. ASSUME NEW i \in Ids, NEW c \in Clusters, NEW p \in Place, TransferAsked(i, c, p)
       PROVE  TypeInv'
  <2>1. spent' \in [Kinds -> Nat]
        BY <1>12, SpendType DEF TransferAsked, Kinds
  <2>2. UNCHANGED <<settings, queryVars, arg, alias, id, flag, main, http, tracer, rr, file,
                    deployed, healthy, acked>>
        BY <1>12 DEF TransferAsked, argVars, diskVars
  <2>3. /\ transfer' = [pc |-> "asked", id |-> i, from |-> c, to |-> p]
        /\ transfer' \in [pc : {"none", "asked", "removed", "called"},
                          id : Ids \cup {None}, from : Clusters \cup {None}, to : Place \cup {None}]
        BY <1>12 DEF TransferAsked
  <2>4. QED
        BY <2>1, <2>2, <2>3
<1>13. ASSUME TransferRemoves PROVE TypeInv'
  <2>1. transfer.from \in Clusters /\ transfer.id \in Ids
        BY <1>13 DEF TransferRemoves
  <2>2. settings' \in [Clusters -> [Ids -> RoleSets \cup {None}]]
        BY <1>13, <2>1, RemovesEffect DEF TransferRemoves
  <2>3. QED
        BY <1>13, <2>2 DEF TransferRemoves, argVars, diskVars
<1>14. ASSUME TransferCallFails PROVE TypeInv'
  <2>1. spent' \in [Kinds -> Nat]
        BY <1>14, SpendType DEF TransferCallFails, Kinds
  <2>2. QED
        BY <1>14, <2>1 DEF TransferCallFails, NoTransfer, argVars, diskVars
<1>15. ASSUME TransferCalls PROVE TypeInv'
       BY <1>15 DEF TransferCalls, argVars, diskVars
<1>16. ASSUME ChangeCluster \/ ChangeRoles PROVE TypeInv'
  <2>1. http.to \in Place /\ http'.to = http.to /\ http'.pc \in {"roles", "record"}
        BY <1>16 DEF ChangeCluster, ChangeRoles
  <2>2. arg' \in Place
        BY <1>16, <2>1 DEF ChangeCluster, ChangeRoles, Place
  <2>3. QED
        BY <1>16, <2>1, <2>2 DEF ChangeCluster, ChangeRoles, diskVars
<1>17. ASSUME ChangeRecord PROVE TypeInv'
  <2>1. http.to \in Place
        BY <1>17 DEF ChangeRecord
  <2>2. rr' \in Record \cup {None} /\ (rr # None => rr' # None)
        BY <1>17, <2>1 DEF ChangeRecord, Record, Place
  <2>3. QED
        BY <1>17, <2>2 DEF ChangeRecord, argVars, diskVars
<1>18. ASSUME ChangeRemovesFile \/ ChangeWritesFile PROVE TypeInv'
       BY <1>18 DEF ChangeRemovesFile, ChangeWritesFile, argVars, Files
<1>19. ASSUME ChangeOpensFlag PROVE TypeInv'
       BY <1>19 DEF ChangeOpensFlag, Idle, NoTransfer, argVars, diskVars
<1>20. CASE UNCHANGED vars
       BY <1>20 DEF vars, queryVars
<1>21. ASSUME QueryBegins PROVE TypeInv'
  <2>1. spent' \in [Kinds -> Nat]
        BY <1>21, SpendType DEF QueryBegins, Kinds
  <2>2. [cluster |-> ClusterId, id |-> id, roles |-> settings[ClusterId][id]] \in Query
    <3>1. ClusterId \in Clusters /\ id \in Ids /\ settings[ClusterId][id] \in RoleSets
          BY <1>21, ArgType DEF QueryBegins
    <3>2. QED
          BY <3>1 DEF Query
  <2>3. queries' \subseteq Query
        BY <1>21, <2>2 DEF QueryBegins
  <2>4. UNCHANGED <<settings, revived, transfer, arg, alias, id, flag, main, http,
                    tracer, rr, file, deployed, healthy, acked>>
        BY <1>21 DEF QueryBegins, argVars, diskVars
  <2>5. QED
        BY <2>1, <2>3, <2>4
<1>22. ASSUME NEW q \in queries, QuerySaves(q) \/ QueryEnds(q) PROVE TypeInv'
  <2>1. /\ settings' \in [Clusters -> [Ids -> RoleSets \cup {None}]]
        /\ queries' \subseteq Query /\ revived' \subseteq Ids
        BY <1>22, QueryEffect
  <2>2. UNCHANGED <<transfer, arg, alias, id, flag, main, http, tracer, rr, file,
                    deployed, healthy, acked, spent>>
        BY <1>22 DEF QuerySaves, QueryEnds, argVars, diskVars
  <2>3. QED
        BY <2>1, <2>2
<1>23. QED
       BY <1>1, <1>2, <1>3, <1>4, <1>5, <1>6, <1>7, <1>8, <1>9, <1>10, <1>11,
          <1>12, <1>13, <1>14, <1>15, <1>16, <1>17, <1>18, <1>19, <1>20, <1>21, <1>22
       DEF Next, MainLoop, StatusTracing, RegistrationDataChange, Queries,
           TransferAgentToCluster, Reports, RecoverFails

\* The type invariant: Start, Register, RegistrationDataChange, the recovery
\* file and TransferAgentToCluster never mix up their data.
THEOREM TransferTypeCorrect == Spec => []TypeOK
<1>1. TypeInv => TypeOK
      BY DEF TypeInv
<1>2. QED
      BY <1>1, InitType, StepType, PTL DEF Spec

-----------------------------------------------------------------------------
(* An agent at rest is known to its cluster *)

\* While docker restarts it the agent is nobody; while it registers its flag is
\* open and it is not transferred; a change runs while its caller waits.
Phases ==
    /\ main.pc # "loop" => flag = 0 /\ transfer.pc = "none"
    /\ main.pc \in {"boot", "recovering"} => id = None
    /\ http.pc = "idle" <=> transfer.pc # "called"

\* Nothing is left of i, unless a late query revived it.
Gone(i) == i \notin revived => \A c \in Clusters : settings[c][i] = None

\* A transfer meets an agent at rest, is for its id, and has removed that
\* id's keys when it calls.
UnderTransfer ==
    transfer.pc # "none" =>
        /\ transfer.id = id /\ id # None /\ flag # 0
        /\ transfer.pc = "asked" => id \in revived \/ transfer.from = ClusterId
        /\ transfer.pc \in {"removed", "called"} => Gone(id)

\* i is registered where the arguments point to, or nowhere, unless a late
\* query revived it.
OnlyHere(i) ==
    i \notin revived =>
        \A c \in Clusters : settings[c][i] # None =>
            c = ClusterId /\ settings[c][i] = ArgRoles

Known(i) == i # None /\ settings[ClusterId][i] # None /\ OnlyHere(i)

\* The call of a transfer was lost after its removal: the id is nowhere, and
\* the agent does not know.
Lost == spent["call"] > 0 /\ id # None /\ Gone(id)

\* How far the main loop got with arguments nobody has changed.
Registering ==
    /\ id # None /\ transfer.pc \in {"none", "asked"} => OnlyHere(id)
    /\ main.pc = "reading" => main.roles = ArgRoles
    /\ main.pc = "sent" => main.roles = ArgRoles /\ main.cluster = ClusterId /\ main.id = id
    /\ main.pc = "answered" => Known(main.id)
    /\ main.pc = "pool" => Known(id) /\ NotInitialized(Arg)
    /\ main.pc = "preparing" => Known(id) /\ ~NotInitialized(Arg)
    /\ flag # 0 /\ transfer.pc \in {"none", "asked"} =>
          \/ Known(id) /\ (flag = -1 <=> NotInitialized(Arg))
          \/ Lost

KnownInv == TypeInv /\ Phases /\ UnderTransfer /\ Registering

\* The main loop stands at pc and holds nothing.
LEMMA AtPc == ASSUME NEW pc PROVE At(pc).pc = pc /\ At(pc).id = None
BY DEF At

\* Steps that leave the arguments, and the place in the record they may point
\* to, alone.
LEMMA ArgFrame ==
    ASSUME UNCHANGED argVars,
           rr' = rr \/ (rr'.cluster = rr.cluster /\ rr'.roles = rr.roles)
    PROVE  /\ ClusterId' = ClusterId /\ ArgRoles' = ArgRoles
           /\ NotInitialized(Arg)' <=> NotInitialized(Arg)
BY DEF argVars, ClusterId, ArgRoles, NotInitialized, Arg

LEMMA KeptUnchanged == UNCHANGED <<settings, revived>> => Kept
BY DEF Kept

\* ... and that remove no settings and put back none but of revived ids.
LEMMA KnownFrame ==
    ASSUME TypeInv, UNCHANGED argVars, Kept,
           rr' = rr \/ (rr'.cluster = rr.cluster /\ rr'.roles = rr.roles), NEW i \in Ids
    PROVE  /\ OnlyHere(i) => OnlyHere(i)'
           /\ Known(i) => Known(i)'
           /\ Gone(i) => Gone(i)'
<1>1. ClusterId' = ClusterId /\ ArgRoles' = ArgRoles /\ ClusterId \in Clusters
      BY ArgFrame, ArgType
<1>2. OnlyHere(i) => OnlyHere(i)'
      BY <1>1 DEF Kept, OnlyHere
<1>3. settings[ClusterId][i] # None => settings'[ClusterId][i] # None
      BY <1>1 DEF Kept
<1>4. Known(i) => Known(i)'
      BY <1>1, <1>2, <1>3 DEF Known
<1>5. Gone(i) => Gone(i)'
      BY DEF Kept, Gone
<1>6. QED
      BY <1>2, <1>4, <1>5

\* Steps of the tracer, of the clock, of the component and of queries.
LEMMA KnownQuiet ==
    ASSUME KnownInv, UNCHANGED argVars, Kept,
           UNCHANGED <<transfer, id, flag, main>>, spent'["call"] = spent["call"],
           http'.pc = "idle" <=> http.pc = "idle",
           rr' = rr \/ (rr'.cluster = rr.cluster /\ rr'.roles = rr.roles)
    PROVE  Phases' /\ UnderTransfer' /\ Registering'
<1>1. Phases'
      BY DEF KnownInv, Phases
<1>2. /\ id # None => id \in Ids
      /\ main.id # None => main.id \in Ids
      BY DEF KnownInv, TypeInv, TypeOK, Main
<1>3. /\ ClusterId' = ClusterId /\ ArgRoles' = ArgRoles
      /\ NotInitialized(Arg)' <=> NotInitialized(Arg)
      BY ArgFrame
<1>4. UnderTransfer'
  <2>1. CASE transfer.pc = "none"
        BY <2>1 DEF UnderTransfer
  <2>2. CASE transfer.pc # "none"
    <3>1. transfer.id = id /\ id \in Ids /\ flag # 0
          BY <1>2, <2>2 DEF KnownInv, UnderTransfer
    <3>2. transfer.pc = "asked" => id \in revived' \/ transfer.from = ClusterId
          BY <2>2 DEF KnownInv, UnderTransfer, Kept
    <3>3. transfer.pc \in {"removed", "called"} => Gone(id)'
          BY <2>2, <3>1, KnownFrame DEF KnownInv, UnderTransfer
    <3>4. QED
          BY <1>3, <2>2, <3>1, <3>2, <3>3, NoneAssumption DEF UnderTransfer, Gone
  <2>3. QED
        BY <2>1, <2>2
<1>5. Registering'
  <2>1. /\ id # None /\ transfer.pc \in {"none", "asked"} => OnlyHere(id)'
        /\ main.pc = "answered" => Known(main.id)'
        /\ main.pc \in {"pool", "preparing"} => Known(id)'
        /\ Known(id) => Known(id)'
        /\ Lost => Lost'
        BY <1>2, KnownFrame DEF KnownInv, Registering, Lost, Known, Gone
  <2>2. QED
        BY <1>3, <2>1 DEF KnownInv, Registering, OnlyHere, Known
<1>6. QED
      BY <1>1, <1>4, <1>5

LEMMA InitKnown == Init => KnownInv
<1> SUFFICES ASSUME Init PROVE KnownInv
    OBVIOUS
<1>1. TypeInv
      BY InitType
<1>2. main.pc = "boot" /\ flag = 0 /\ transfer.pc = "none" /\ http.pc = "idle" /\ id = None
      BY AtPc DEF Init, NoTransfer, Idle
<1>3. QED
      BY <1>1, <1>2 DEF KnownInv, Phases, UnderTransfer, Registering

\* The agent (re)starts: it has no id and its flag is open.
LEMMA KnownStarting ==
    ASSUME KnownInv, Undisturbed, Boot \/ Recovered \/ Crash
    PROVE  Phases' /\ UnderTransfer' /\ Registering'
<1>1. id' = None /\ flag' = 0
      BY DEF KnownInv, Phases, Boot, Recovered, Crash
<1>2. main'.pc \in {"boot", "recovering", "loop"}
      BY AtPc DEF Boot, Recovered, Crash
<1>3. transfer'.pc = "none" /\ http'.pc = "idle"
      BY DEF KnownInv, Phases, Boot, Recovered, Crash, NoTransfer, Idle
<1>4. QED
      BY <1>1, <1>2, <1>3 DEF Phases, UnderTransfer, Registering

\* Register.
LEMMA KnownRegistering ==
    ASSUME KnownInv,
           \/ RegisterReadsRoles \/ RegisterSends \/ RegisterReadsAnswer
           \/ EnterPool \/ RegisterSucceeds
    PROVE  Phases' /\ UnderTransfer' /\ Registering'
<1>1. /\ transfer.pc = "none" /\ transfer' = transfer /\ http' = http
      /\ UNCHANGED argVars /\ rr' = rr /\ UNCHANGED <<settings, revived>>
      BY DEF KnownInv, Phases, UnderTransfer, RegisterReadsRoles, RegisterSends,
             RegisterReadsAnswer, EnterPool, RegisterSucceeds, queryVars
<1>2. UnderTransfer'
      BY <1>1 DEF UnderTransfer
<1>3. CASE RegisterReadsRoles
  <2>1. main'.pc = "reading" /\ main'.roles = ArgRoles /\ flag' = 0 /\ id' = id
        BY <1>3, AtPc DEF RegisterReadsRoles, At
  <2>2. main.pc = "loop"
        BY <1>3 DEF RegisterReadsRoles
  <2>3. Phases'
        BY <1>1, <2>1, <2>2 DEF KnownInv, Phases
  <2>4. id # None => OnlyHere(id)'
        BY <1>1, <2>1, KnownFrame, KeptUnchanged DEF KnownInv, Registering, TypeInv, TypeOK
  <2>5. Registering'
        BY <1>1, <2>1, <2>4, ArgFrame DEF Registering, OnlyHere
  <2>6. QED
        BY <1>2, <2>3, <2>5
<1>4. CASE RegisterSends
  <2>1. /\ main.pc = "reading" /\ main'.pc = "sent" /\ main'.roles = main.roles
        /\ main'.cluster = ClusterId /\ main'.id = id /\ id' = id /\ flag' = flag
        BY <1>4 DEF RegisterSends
  <2>2. flag = 0
        BY <2>1 DEF KnownInv, Phases
  <2>3. Phases'
        BY <1>1, <2>1, <2>2 DEF KnownInv, Phases
  <2>4. id # None => OnlyHere(id)'
        BY <1>1, <2>1, KnownFrame, KeptUnchanged DEF KnownInv, Registering, TypeInv, TypeOK
  <2>5. main.roles = ArgRoles
        BY <2>1 DEF KnownInv, Registering
  <2>6. Registering'
        BY <1>1, <2>1, <2>2, <2>4, <2>5, ArgFrame DEF Registering, OnlyHere
  <2>7. QED
        BY <1>2, <2>3, <2>6
<1>5. CASE RegisterReadsAnswer
  <2>1. /\ main.pc = "answered" /\ id' = main.id /\ flag' = flag
        /\ main'.pc = IF NotInitialized(Arg) THEN "pool" ELSE "preparing"
        BY <1>5, AtPc DEF RegisterReadsAnswer
  <2>2. flag = 0 /\ Known(main.id)
        BY <2>1 DEF KnownInv, Phases, Registering
  <2>3. Phases'
        BY <1>1, <2>1, <2>2 DEF KnownInv, Phases
  <2>4. /\ id' # None /\ settings'[ClusterId'][id'] # None
        /\ id' \notin revived' => \A c \in Clusters : settings'[c][id'] # None =>
              c = ClusterId' /\ settings'[c][id'] = ArgRoles'
        BY <1>1, <2>1, <2>2, ArgFrame DEF Known, OnlyHere
  <2>5. Registering'
        BY <1>1, <2>1, <2>2, <2>4, ArgFrame DEF Registering, Known, OnlyHere
  <2>6. QED
        BY <1>2, <2>3, <2>5
<1>6. CASE EnterPool \/ RegisterSucceeds
  <2>1. /\ main.pc \in {"pool", "preparing"} /\ main'.pc = "loop" /\ id' = id
        /\ flag' = IF main.pc = "pool" THEN -1 ELSE 1
        BY <1>6, AtPc DEF EnterPool, RegisterSucceeds, KnownInv, Phases
  <2>2. Known(id) /\ (main.pc = "pool" <=> NotInitialized(Arg))
        BY <2>1 DEF KnownInv, Registering
  <2>3. Phases'
        BY <1>1, <2>1 DEF KnownInv, Phases
  <2>4. /\ id' # None /\ settings'[ClusterId'][id'] # None
        /\ id' \notin revived' => \A c \in Clusters : settings'[c][id'] # None =>
              c = ClusterId' /\ settings'[c][id'] = ArgRoles'
        BY <1>1, <2>1, <2>2, ArgFrame DEF Known, OnlyHere
  <2>5. Registering'
        BY <1>1, <2>1, <2>2, <2>4, ArgFrame DEF Registering, Known, OnlyHere
  <2>6. QED
        BY <1>2, <2>3, <2>5
<1>7. QED
      BY <1>3, <1>4, <1>5, <1>6


\* The server handles the request of an agent whose keys, if it has any, are
\* those of the request.
LEMMA KnownAnswered ==
    ASSUME KnownInv, main.pc = "sent", NEW i \in Ids, ServerRegisters(i),
           UNCHANGED argVars, UNCHANGED rr, UNCHANGED revived
    PROVE  /\ OnlyHere(i)' /\ settings'[ClusterId'][i] # None
           /\ id # None => i = id
<1>1. /\ main.roles = ArgRoles /\ main.cluster = ClusterId /\ main.id = id
      /\ transfer.pc = "none"
      BY DEF KnownInv, Phases, Registering
<1>2. main.roles \in RoleSets /\ main.cluster \in Clusters /\ main.roles # None
      BY <1>1, ArgType, NoneAssumption DEF KnownInv
<1>3. /\ settings'[main.cluster][i] =
            IF settings[main.cluster][i] = None THEN main.roles
            ELSE settings[main.cluster][i]
      /\ \A c \in Clusters : c # main.cluster => settings'[c][i] = settings[c][i]
      /\ main.id = None => \A c \in Clusters : settings[c][i] = None
      /\ main.id # None => i = main.id
      BY <1>2, ServerRegistersEffect DEF KnownInv, TypeInv, TypeOK
<1>4. OnlyHere(i)
  <2>1. CASE main.id = None
        BY <2>1, <1>3 DEF OnlyHere
  <2>2. CASE main.id # None
        BY <2>2, <1>1, <1>3 DEF KnownInv, Registering
  <2>3. QED
        BY <2>1, <2>2
<1>5. settings'[ClusterId][i] # None /\ (i \notin revived => settings'[ClusterId][i] = ArgRoles)
      BY <1>1, <1>2, <1>3, <1>4 DEF OnlyHere
<1>6. ClusterId' = ClusterId /\ ArgRoles' = ArgRoles
      BY ArgFrame
<1>7. OnlyHere(i)'
      BY <1>1, <1>3, <1>4, <1>5, <1>6 DEF OnlyHere
<1>8. QED
      BY <1>1, <1>3, <1>5, <1>6, <1>7

LEMMA KnownServer ==
    ASSUME KnownInv,
           RegisterFails \/ \E i \in Ids : RegisterAnswered(i)
    PROVE  Phases' /\ UnderTransfer' /\ Registering'
<1>1. /\ main.pc # "loop" /\ transfer.pc = "none" /\ transfer' = transfer /\ http' = http
      /\ UNCHANGED argVars /\ rr' = rr /\ id' = id /\ flag' = 0 /\ UNCHANGED revived
      /\ main.pc \notin {"boot", "recovering"}
      BY DEF KnownInv, Phases, RegisterFails, RegisterAnswered, queryVars
<1>2. UnderTransfer'
      BY <1>1 DEF UnderTransfer
<1>3. ASSUME NEW i \in Ids, RegisterAnswered(i)
      PROVE  Phases' /\ UnderTransfer' /\ Registering'
  <2>1. main.pc = "sent" /\ main'.pc = "answered" /\ main'.id = i /\ i # None
        BY <1>3, NoneAssumption DEF RegisterAnswered
  <2>2. /\ OnlyHere(i)' /\ settings'[ClusterId'][i] # None
        /\ id # None => i = id
        BY <1>1, <1>3, <2>1, KnownAnswered DEF RegisterAnswered
  <2>3. Phases'
        BY <1>1, <2>1 DEF KnownInv, Phases
  <2>4. Registering'
        BY <1>1, <2>1, <2>2 DEF Registering, Known, OnlyHere
  <2>5. QED
        BY <1>2, <2>3, <2>4
<1>4. CASE RegisterFails
  <2>1. main'.pc = "loop"
        BY <1>4, AtPc DEF RegisterFails
  <2>2. id # None => OnlyHere(id)'
    <3>1. CASE UNCHANGED settings
          BY <1>1, <3>1, KnownFrame, KeptUnchanged DEF KnownInv, Registering, TypeInv, TypeOK
    <3>2. ASSUME main.pc = "sent", NEW i \in Ids, ServerRegisters(i)
          PROVE  id # None => OnlyHere(id)'
          BY <1>1, <3>2, KnownAnswered
    <3>3. QED
          BY <1>4, <3>1, <3>2 DEF RegisterFails
  <2>3. Phases'
        BY <1>1, <2>1 DEF KnownInv, Phases
  <2>4. Registering'
        BY <1>1, <2>1, <2>2 DEF Registering, OnlyHere
  <2>5. QED
        BY <1>2, <2>3, <2>4
<1>5. QED
      BY <1>3, <1>4

\* The API server's side of a transfer, with a call that arrives.
LEMMA KnownTransfer ==
    ASSUME KnownInv, Undisturbed,
           \/ TransferRemoves \/ TransferCalls
           \/ \E i \in Ids, c \in Clusters, p \in Place : TransferAsked(i, c, p)
    PROVE  Phases' /\ UnderTransfer' /\ Registering'
<1>1. UNCHANGED <<argVars, id, flag, main, rr, revived>>
      BY DEF TransferRemoves, TransferCalls, TransferAsked, queryVars
<1>2. /\ ClusterId' = ClusterId /\ ArgRoles' = ArgRoles
      /\ NotInitialized(Arg)' <=> NotInitialized(Arg)
      BY <1>1, ArgFrame
<1>3. main.pc = "loop" /\ flag # 0
      BY DEF KnownInv, Phases, UnderTransfer, TransferRemoves, TransferCalls, TransferAsked
<1>4. ASSUME NEW i \in Ids, NEW c \in Clusters, NEW p \in Place, TransferAsked(i, c, p)
      PROVE  Phases' /\ UnderTransfer' /\ Registering'
  <2>1. /\ transfer.pc = "none" /\ transfer'.pc = "asked" /\ transfer'.id = id /\ i = id
        /\ transfer'.from = c /\ settings[c][id] # None /\ settings' = settings /\ http' = http
        BY <1>4 DEF TransferAsked
  <2>2. /\ id # None /\ OnlyHere(id) /\ (id \in revived \/ c = ClusterId)
        /\ \/ Known(id) /\ (flag = -1 <=> NotInitialized(Arg))
           \/ Lost
        BY <1>3, <2>1 DEF KnownInv, Registering, Known, OnlyHere, Lost, Gone
  <2>3. /\ OnlyHere(id)' /\ (Known(id) => Known(id)')
        /\ (Lost => Lost')
    <3>1. spent'["call"] = spent["call"]
          BY <1>4 DEF TransferAsked, Spend, Kinds, KnownInv, TypeInv, TypeOK
    <3>2. QED
          BY <1>1, <1>2, <2>1, <2>2, <3>1 DEF OnlyHere, Known, Lost, Gone
  <2>4. Phases'
        BY <1>1, <1>3, <2>1 DEF KnownInv, Phases
  <2>5. UnderTransfer'
        BY <1>1, <1>2, <1>3, <2>1, <2>2 DEF UnderTransfer
  <2>6. Registering'
        BY <1>1, <1>2, <1>3, <2>1, <2>2, <2>3 DEF Registering, OnlyHere, Known
  <2>7. QED
        BY <2>4, <2>5, <2>6
<1>5. CASE TransferRemoves
  <2>1. /\ transfer.pc = "asked" /\ transfer'.pc = "removed" /\ transfer'.id = id
        /\ transfer.id = id /\ id # None /\ http' = http
        /\ id \in revived \/ transfer.from = ClusterId
        /\ settings' = [settings EXCEPT ![transfer.from][id] = None]
        BY <1>5 DEF TransferRemoves, KnownInv, UnderTransfer, TypeInv, TypeOK
  <2>2. ClusterId \in Clusters /\ id \in Ids /\ OnlyHere(id)
        BY <2>1, ArgType DEF KnownInv, TypeInv, TypeOK, Registering
  <2>3. Gone(id)'
        BY <1>1, <2>1, <2>2, RemovesEffect DEF Gone, OnlyHere, KnownInv, TypeInv, TypeOK
  <2>4. Phases'
        BY <1>1, <1>3, <2>1 DEF KnownInv, Phases
  <2>5. UnderTransfer'
        BY <1>1, <1>3, <2>1, <2>3 DEF UnderTransfer, Gone
  <2>6. Registering'
        BY <1>1, <1>3, <2>1 DEF Registering
  <2>7. QED
        BY <2>4, <2>5, <2>6
<1>6. CASE TransferCalls
  <2>1. /\ transfer.pc = "removed" /\ transfer'.pc = "called" /\ transfer'.id = transfer.id
        /\ settings' = settings /\ http'.pc = "cluster" /\ Gone(id)
        BY <1>6 DEF TransferCalls, TypeInv, TypeOK, KnownInv, UnderTransfer
  <2>2. Phases'
        BY <1>1, <1>3, <2>1 DEF KnownInv, Phases
  <2>3. UnderTransfer'
        BY <1>1, <1>3, <2>1 DEF KnownInv, UnderTransfer, Gone
  <2>4. Registering'
        BY <1>1, <1>3, <2>1 DEF Registering
  <2>5. QED
        BY <2>2, <2>3, <2>4
<1>7. QED
      BY <1>4, <1>5, <1>6

\* The call is lost.
LEMMA KnownLost ==
    ASSUME KnownInv, TransferCallFails
    PROVE  Phases' /\ UnderTransfer' /\ Registering'
<1>1. /\ transfer.pc = "removed" /\ transfer'.pc = "none"
      /\ UNCHANGED <<settings, revived, id, flag, main, http>>
      BY DEF TransferCallFails, NoTransfer, queryVars
<1>2. /\ main.pc = "loop" /\ id # None /\ Gone(id)
      /\ http.pc = "idle"
      BY <1>1 DEF KnownInv, Phases, UnderTransfer
<1>3. spent'["call"] > 0
  <2>1. spent'["call"] = spent["call"] + 1 /\ spent["call"] \in Nat
        BY DEF TransferCallFails, Spend, KnownInv, TypeInv, TypeOK, Kinds
  <2>2. QED
        BY <2>1
<1>4. Lost'
      BY <1>1, <1>2, <1>3 DEF Lost, Gone
<1>5. Registering'
      BY <1>1, <1>2, <1>4 DEF Registering, OnlyHere, Gone
<1>6. QED
      BY <1>1, <1>2, <1>5 DEF Phases, UnderTransfer

\* The handler at the agent: the id is nowhere while the arguments change.
LEMMA KnownChange ==
    ASSUME KnownInv, RegistrationDataChange
    PROVE  Phases' /\ UnderTransfer' /\ Registering'
<1>1. /\ http.pc # "idle" /\ UNCHANGED <<settings, revived, id, main>>
      BY DEF RegistrationDataChange, ChangeCluster, ChangeRoles, ChangeRecord,
             ChangeRemovesFile, ChangeWritesFile, ChangeOpensFlag, queryVars
<1>2. /\ transfer.pc = "called" /\ main.pc = "loop" /\ transfer.id = id /\ id # None
      /\ flag # 0 /\ Gone(id)
      BY <1>1 DEF KnownInv, Phases, UnderTransfer
<1>3. CASE ChangeOpensFlag
  <2>1. flag' = 0 /\ transfer'.pc = "none" /\ http'.pc = "idle"
        BY <1>3 DEF ChangeOpensFlag, NoTransfer, Idle
  <2>2. QED
        BY <1>1, <1>2, <2>1 DEF Phases, UnderTransfer, Registering, OnlyHere, Gone
<1>4. CASE ~ChangeOpensFlag
  <2>1. transfer' = transfer /\ flag' = flag /\ http'.pc # "idle"
        BY <1>4 DEF RegistrationDataChange, ChangeCluster, ChangeRoles, ChangeRecord,
             ChangeRemovesFile, ChangeWritesFile, TypeInv, TypeOK, KnownInv
  <2>2. QED
        BY <1>1, <1>2, <2>1 DEF Phases, UnderTransfer, Registering, Gone
<1>5. QED
      BY <1>3, <1>4

\* What is spent of the budget is not given back.
LEMMA SpentMonotone ==
    ASSUME TypeInv, [Next]_vars, NEW k \in Kinds, spent'[k] = 0
    PROVE  spent[k] = 0
<1>1. spent \in [Kinds -> Nat]
      BY DEF TypeInv, TypeOK
<1>2. spent' = spent \/ \E j \in Kinds : Spend(j)
      BY DEF Next, MainLoop, StatusTracing, RegistrationDataChange, TransferAgentToCluster,
         Boot, Recovered, Crash, RegisterReadsRoles, RegisterSends, RegisterAnswered,
         RegisterReadsAnswer, EnterPool, RegisterSucceeds, RegisterFails, Deploy, Reports,
         RecoverFails, TraceStatus, TracerRemovesFile, TracerWritesFile, ChangeCluster,
         ChangeRoles, ChangeRecord, ChangeRemovesFile, ChangeWritesFile, ChangeOpensFlag,
         TransferRemoves, TransferCalls, TransferCallFails, TransferAsked, Queries,
         QueryBegins, QuerySaves, QueryEnds, Kinds, vars
<1>3. QED
      BY <1>1, <1>2 DEF Spend

LEMMA StepKnown ==
    ASSUME Undisturbed, KnownInv, [Next]_vars
    PROVE  KnownInv'
<1>1. TypeInv'
      BY StepType DEF KnownInv
<1>2. CASE TransferCallFails
      BY <1>1, <1>2, KnownLost DEF KnownInv
<1>3. CASE Boot \/ Recovered \/ Crash
      BY <1>1, <1>3, KnownStarting DEF KnownInv
<1>4. CASE \/ RegisterReadsRoles \/ RegisterSends \/ RegisterReadsAnswer
           \/ EnterPool \/ RegisterSucceeds
      BY <1>1, <1>4, KnownRegistering DEF KnownInv
<1>5. CASE RegisterFails \/ \E i \in Ids : RegisterAnswered(i)
      BY <1>1, <1>5, KnownServer DEF KnownInv
<1>6. CASE \/ TransferRemoves \/ TransferCalls
           \/ \E i \in Ids, c \in Clusters, p \in Place : TransferAsked(i, c, p)
      BY <1>1, <1>6, KnownTransfer DEF KnownInv
<1>7. CASE RegistrationDataChange
      BY <1>1, <1>7, KnownChange DEF KnownInv
<1>8. CASE Deploy \/ StatusTracing \/ UNCHANGED vars
  <2>1. /\ UNCHANGED argVars /\ Kept
        /\ UNCHANGED <<transfer, id, flag, main, http, spent>>
        BY <1>8, KeptUnchanged DEF Deploy, StatusTracing, TraceStatus, TracerRemovesFile,
             TracerWritesFile, vars, argVars, queryVars
  <2>2. rr' = rr \/ (rr'.cluster = rr.cluster /\ rr'.roles = rr.roles)
    <3>1. CASE rr' = [rr EXCEPT !.installed = TRUE] /\ Unrecorded
      <4>1. rr \in Record
            BY <3>1 DEF KnownInv, TypeInv, TypeOK, Unrecorded
      <4>2. QED
            BY <3>1, <4>1 DEF Record
    <3>2. QED
          BY <1>8, <3>1 DEF Deploy, StatusTracing, TraceStatus, TracerRemovesFile,
             TracerWritesFile, vars
  <2>3. QED
        BY <1>1, <2>1, <2>2, KnownQuiet DEF KnownInv
<1>9. CASE Queries
  <2>1. /\ UNCHANGED argVars /\ Kept
        /\ UNCHANGED <<transfer, id, flag, main, http, rr>>
    <3>1. CASE QueryBegins
          BY <3>1, KeptUnchanged DEF QueryBegins
    <3>2. ASSUME NEW q \in queries, QuerySaves(q) \/ QueryEnds(q) PROVE Kept
          BY <3>2, QueryEffect DEF KnownInv, TypeInv
    <3>3. QED
          BY <1>9, <3>1, <3>2 DEF Queries, QuerySaves, QueryEnds
  <2>2. spent'["call"] = spent["call"]
    <3>1. CASE QueryBegins
          BY <3>1 DEF QueryBegins, Spend, Kinds, KnownInv, TypeInv, TypeOK
    <3>2. QED
          BY <1>9, <3>1 DEF Queries, QuerySaves, QueryEnds
  <2>3. QED
        BY <1>1, <2>1, <2>2, KnownQuiet DEF KnownInv
<1>10. QED
      BY <1>2, <1>3, <1>4, <1>5, <1>6, <1>7, <1>8, <1>9
      DEF Next, MainLoop, TransferAgentToCluster, Reports, RecoverFails

LEMMA KnownCorrect ==
    ASSUME Undisturbed
    PROVE  Spec => []KnownInv
<1>1. KnownInv /\ [Next]_vars => KnownInv'
      BY StepKnown
<1>2. QED
      BY <1>1, InitKnown, PTL DEF Spec

\* RegistrationDataChange and Register: when transfers meet an agent at rest
\* and no call of one gets lost, an agent whose flag is not open is known,
\* under its id, to the cluster its requests name, across restarts and whatever
\* queries save; and with its roles, unless a query that was under way at a
\* removal put older ones back.
THEOREM AgentIsKnown ==
    ASSUME Undisturbed
    PROVE  Spec => []KnownToItsCluster
<1>1. KnownInv => KnownToItsCluster
      BY ArgType DEF KnownInv, Registering, Known, OnlyHere, KnownToItsCluster, AtRest, Lost
<1>2. QED
      BY <1>1, KnownCorrect, PTL

\* What a step does to the settings: a registration that the server handles, a
\* removal, the end of a query, or nothing.
LEMMA SettingsChange ==
    ASSUME [Next]_vars
    PROVE  \/ UNCHANGED <<settings, revived>>
           \/ TransferRemoves
           \/ \E q \in queries : QuerySaves(q) \/ QueryEnds(q)
           \/ /\ main.pc = "sent" /\ UNCHANGED argVars /\ UNCHANGED <<rr, revived>>
              /\ \E i \in Ids : ServerRegisters(i)
<1> USE DEF queryVars
<1>1. ASSUME UNCHANGED vars \/ QueryBegins PROVE UNCHANGED <<settings, revived>>
      BY <1>1 DEF vars, QueryBegins
<1>2. ASSUME \/ Boot \/ Recovered \/ Crash \/ RegisterReadsRoles \/ RegisterSends
             \/ RegisterReadsAnswer \/ EnterPool \/ RegisterSucceeds \/ Deploy
      PROVE  UNCHANGED <<settings, revived>>
      BY <1>2 DEF Boot, Recovered, Crash, RegisterReadsRoles, RegisterSends,
         RegisterReadsAnswer, EnterPool, RegisterSucceeds, Deploy
<1>3. ASSUME StatusTracing \/ RegistrationDataChange
      PROVE  UNCHANGED <<settings, revived>>
      BY <1>3 DEF StatusTracing, TraceStatus, TracerRemovesFile, TracerWritesFile,
         RegistrationDataChange, ChangeCluster, ChangeRoles, ChangeRecord,
         ChangeRemovesFile, ChangeWritesFile, ChangeOpensFlag
<1>4. ASSUME \/ TransferCalls \/ TransferCallFails
             \/ \E i \in Ids, c \in Clusters, p \in Place : TransferAsked(i, c, p)
      PROVE  UNCHANGED <<settings, revived>>
      BY <1>4 DEF TransferCalls, TransferCallFails, TransferAsked
<1>5. ASSUME NEW i \in Ids, RegisterAnswered(i)
      PROVE  /\ main.pc = "sent" /\ UNCHANGED argVars /\ UNCHANGED <<rr, revived>>
             /\ ServerRegisters(i)
      BY <1>5 DEF RegisterAnswered
<1>6. ASSUME RegisterFails
      PROVE  \/ UNCHANGED <<settings, revived>>
             \/ /\ main.pc = "sent" /\ UNCHANGED argVars /\ UNCHANGED <<rr, revived>>
                /\ \E i \in Ids : ServerRegisters(i)
      BY <1>6 DEF RegisterFails
<1>7. QED
      BY <1>1, <1>2, <1>3, <1>4, <1>5, <1>6
      DEF Next, MainLoop, Queries, TransferAgentToCluster, Reports, RecoverFails

\* A removal only takes away, a query puts back what makes the id revived, and
\* a registration is handled for an id that is registered nowhere but where the
\* request goes, or revived.
LEMMA StepOnce ==
    ASSUME KnownInv, ListedOnce, [Next]_vars
    PROVE  ListedOnce'
<1>1. settings \in [Clusters -> [Ids -> RoleSets \cup {None}]]
      BY DEF KnownInv, TypeInv, TypeOK
<1>2. CASE \/ UNCHANGED <<settings, revived>>
           \/ \E q \in queries : QuerySaves(q) \/ QueryEnds(q)
  <2>1. Kept
        BY <1>2, KeptUnchanged, QueryEffect DEF KnownInv, TypeInv
  <2>2. QED
        BY <2>1 DEF ListedOnce, Kept
<1>3. CASE TransferRemoves
  <2>1. PICK d \in Clusters, i \in Ids : settings' = [settings EXCEPT ![d][i] = None]
        BY <1>3 DEF TransferRemoves, KnownInv, TypeInv, TypeOK, Present
  <2>2. \A c \in Clusters, j \in Ids : settings'[c][j] # None => settings[c][j] # None
        BY <1>1, <2>1, RemovesEffect
  <2>3. revived' = revived
        BY <1>3 DEF TransferRemoves, queryVars
  <2>4. QED
        BY <2>2, <2>3 DEF ListedOnce
<1>4. ASSUME main.pc = "sent", UNCHANGED argVars, UNCHANGED <<rr, revived>>,
             NEW i \in Ids, ServerRegisters(i)
      PROVE  ListedOnce'
  <2>1. i \notin revived' => \A c \in Clusters : settings'[c][i] # None => c = ClusterId'
        BY <1>4, KnownAnswered DEF OnlyHere
  <2>2. main.roles \in RoleSets /\ main.cluster \in Clusters
        BY <1>4, ArgType DEF KnownInv, Registering
  <2>3. \A c \in Clusters, j \in Ids : j # i => settings'[c][j] = settings[c][j]
        BY <1>1, <1>4, <2>2, ServerRegistersEffect
  <2>4. QED
        BY <1>4, <2>1, <2>3 DEF ListedOnce
<1>5. QED
      BY <1>2, <1>3, <1>4, SettingsChange

\* RegisterAgent, RemoveAgentFromETCD and QueryAgentNextWorkItem: when transfers
\* meet an agent at rest, an id is registered in two clusters only when a query
\* that was under way at a removal put settings back, whatever requests,
\* answers and calls are lost and however often the agent restarts.
THEOREM AgentIsListedOnce ==
    ASSUME Undisturbed
    PROVE  Spec => []ListedOnce
<1>1. Init => ListedOnce
      BY DEF Init, ListedOnce
<1>2. KnownInv /\ ListedOnce /\ [Next]_vars => ListedOnce'
      BY StepOnce
<1>3. QED
      BY <1>1, <1>2, KnownCorrect, PTL DEF Spec

-----------------------------------------------------------------------------
(* A change survives restarts *)

\* A record is made when the agent starts; an agent under transfer is not
\* registering.
Alive ==
    /\ main.pc = "boot" => rr = None
    /\ transfer.pc # "none" => flag # 0

Matches(r, p) == r \in Record /\ r.cluster = p.cluster /\ r.roles = p.roles

\* How far a change got.
Changing ==
    /\ http.pc \in {"roles", "record", "save", "write", "open"} =>
          "cluster" \notin alias /\ arg.cluster = http.to.cluster
    /\ http.pc \in {"record", "save", "write", "open"} =>
          "roles" \notin alias /\ arg.roles = http.to.roles
    /\ http.pc \in {"save", "write", "open"} => Matches(rr, http.to)
    /\ http.pc = "open" /\ tracer # "write" => Matches(file, http.to)
    /\ ~(http.pc = "write" /\ tracer = "write")

\* The record, and the file unless it is being written, show the last answered
\* change, and so do the arguments once the agent has started.
Remembered ==
    acked # None /\ transfer.pc # "called" =>
        /\ tracer # "write" => Matches(file, acked)
        /\ rr # None => Matches(rr, acked)
        /\ main.pc \notin {"boot", "recovering"} =>
              ClusterId = acked.cluster /\ ArgRoles = acked.roles

AliveInv == TypeInv /\ Phases /\ Alive
ChangeInv == AliveInv /\ (spent["tornSave"] = 0 => Changing /\ Remembered)

LEMMA InitChange == Init => ChangeInv
<1> SUFFICES ASSUME Init PROVE ChangeInv
    OBVIOUS
<1>1. TypeInv
      BY InitType
<1>2. /\ main.pc = "boot" /\ flag = 0 /\ transfer.pc = "none" /\ http.pc = "idle"
      /\ id = None /\ rr = None /\ acked = None
      BY AtPc DEF Init, NoTransfer, Idle
<1>3. QED
      BY <1>1, <1>2 DEF ChangeInv, AliveInv, Phases, Alive, Changing, Remembered

LEMMA StepAlive ==
    ASSUME Undisturbed, AliveInv, [Next]_vars
    PROVE  AliveInv'
<1> USE DEF AliveInv, Phases, Alive
<1>1. TypeInv'
      BY StepType
<1>2. CASE Boot \/ Recovered \/ Crash
  <2>1. id' = None /\ flag' = 0 /\ transfer'.pc = "none" /\ http'.pc = "idle"
        BY <1>2 DEF Boot, Recovered, Crash, NoTransfer, Idle
  <2>2. main'.pc \in {"boot", "recovering", "loop"} /\ (main'.pc = "boot" => rr' = None)
        BY <1>2, AtPc DEF Boot, Recovered, Crash
  <2>3. QED
        BY <1>1, <2>1, <2>2
<1>3. CASE \/ RegisterReadsRoles \/ RegisterSends \/ RegisterReadsAnswer
           \/ EnterPool \/ RegisterSucceeds \/ RegisterFails
           \/ \E i \in Ids : RegisterAnswered(i)
  <2>1. /\ transfer.pc = "none" /\ transfer' = transfer /\ http' = http /\ rr' = rr
        /\ main'.pc \notin {"boot", "recovering"}
        /\ main'.pc # "loop" => flag' = 0
        BY <1>3, AtPc DEF RegisterReadsRoles, RegisterSends, RegisterReadsAnswer, EnterPool,
           RegisterSucceeds, RegisterFails, RegisterAnswered, At
  <2>2. QED
        BY <1>1, <2>1
<1>4. CASE TransferCallFails \/ TransferRemoves \/ TransferCalls
  <2>1. /\ UNCHANGED <<flag, main, id, rr>> /\ flag # 0 /\ main.pc = "loop"
        /\ http'.pc = "idle" <=> transfer'.pc # "called"
        BY <1>4 DEF TransferCallFails, TransferRemoves, TransferCalls, NoTransfer,
           TypeInv, TypeOK
  <2>2. QED
        BY <1>1, <2>1
<1>5. ASSUME NEW i \in Ids, NEW c \in Clusters, NEW p \in Place, TransferAsked(i, c, p)
      PROVE  AliveInv'
      BY <1>1, <1>5 DEF TransferAsked
<1>6. CASE RegistrationDataChange
  <2>1. /\ transfer.pc = "called" /\ main.pc = "loop" /\ flag # 0
        /\ UNCHANGED <<main, id>>
        /\ \/ transfer' = transfer /\ http'.pc # "idle" /\ flag' = flag
           \/ transfer'.pc = "none" /\ http'.pc = "idle"
        BY <1>6 DEF RegistrationDataChange, ChangeCluster, ChangeRoles, ChangeRecord,
             ChangeRemovesFile, ChangeWritesFile, ChangeOpensFlag, NoTransfer, Idle,
             TypeInv, TypeOK
  <2>2. QED
        BY <1>1, <2>1
<1>7. CASE Deploy \/ StatusTracing \/ Queries \/ UNCHANGED vars
  <2>1. UNCHANGED <<transfer, http, flag, main, id>> /\ (rr = None => rr' = rr)
        BY <1>7 DEF Deploy, StatusTracing, TraceStatus, TracerRemovesFile,
             TracerWritesFile, Unrecorded, vars, Queries, QueryBegins, QuerySaves, QueryEnds
  <2>2. QED
        BY <1>1, <2>1
<1>8. QED
      BY <1>2, <1>3, <1>4, <1>5, <1>6, <1>7
      DEF Next, MainLoop, TransferAgentToCluster, Reports, RecoverFails

\* Steps of the main loop and of the server before it calls leave the
\* arguments, the record and the file alone.
LEMMA ChangeQuiet ==
    ASSUME Changing, Remembered, UNCHANGED <<argVars, rr, file, tracer, http, acked>>,
           transfer'.pc # "called" => transfer.pc # "called",
           main.pc \notin {"boot", "recovering"} \/ main' = main
    PROVE  Changing' /\ Remembered'
<1>1. Changing'
      BY DEF Changing, Matches, argVars
<1>2. Remembered'
      BY ArgFrame DEF Remembered, Matches
<1>3. QED
      BY <1>1, <1>2

LEMMA ChangeStarting ==
    ASSUME Undisturbed, AliveInv, Changing, Remembered, spent'["tornSave"] = 0,
           Boot \/ Recovered \/ Crash
    PROVE  Changing' /\ Remembered'
<1>1. transfer.pc = "none" /\ http.pc = "idle"
      BY DEF AliveInv, Phases, Boot, Recovered, Crash
<1>2. http'.pc = "idle" /\ acked' = acked
      BY <1>1 DEF Boot, Recovered, Crash, Idle
<1>3. Changing'
      BY <1>2 DEF Changing
<1>4. CASE Boot
  <2>1. rr = None /\ tracer = "idle" /\ tracer' = tracer /\ file' = file
        BY <1>4 DEF Boot, AliveInv, Alive, TypeInv, Present, diskVars
  <2>2. ASSUME acked # None PROVE Matches(file, acked) /\ file # None
        BY <1>1, <2>1, <2>2, NoneAssumption DEF Remembered, Matches
  <2>3. acked # None => rr' = file /\ main'.pc = "recovering"
        BY <1>4, <2>2, AtPc DEF Boot
  <2>4. QED
        BY <1>2, <1>3, <2>1, <2>2, <2>3 DEF Remembered, Matches
<1>5. CASE Recovered
  <2>1. UNCHANGED <<rr, tracer, file>> /\ alias' = {"cluster", "roles"} /\ rr # None
        BY <1>5 DEF Recovered, diskVars, AliveInv, TypeInv, Present
  <2>2. acked # None => Matches(rr, acked) /\ (tracer # "write" => Matches(file, acked))
        BY <1>1, <2>1 DEF Remembered
  <2>3. ClusterId' = rr.cluster /\ ArgRoles' = rr.roles
        BY <2>1 DEF ClusterId, ArgRoles
  <2>4. QED
        BY <1>2, <1>3, <2>1, <2>2, <2>3 DEF Remembered, Matches
<1>6. CASE Crash
  <2>1. tracer # "write" /\ file' = file
        BY <1>6 DEF Crash, Spend, Kinds, AliveInv, TypeInv, TypeOK
  <2>2. rr' = None /\ main'.pc = "boot"
        BY <1>6, AtPc DEF Crash
  <2>3. QED
        BY <1>1, <1>2, <1>3, <2>1, <2>2 DEF Remembered, Matches
<1>7. QED
      BY <1>4, <1>5, <1>6

\* The tracer records a component and saves the file.
LEMMA ChangeTracing ==
    ASSUME AliveInv, Changing, Remembered, StatusTracing
    PROVE  Changing' /\ Remembered'
<1>1. UNCHANGED <<arg, alias, transfer, http, main, acked>>
      BY DEF StatusTracing, TraceStatus, TracerRemovesFile, TracerWritesFile, argVars
<1>2. CASE TraceStatus
  <2>1. /\ file' = file /\ tracer = "idle" /\ tracer' # "write"
        /\ rr' = rr \/ (rr \in Record /\ rr' \in Record
                          /\ rr'.cluster = rr.cluster /\ rr'.roles = rr.roles)
    <3>1. CASE Unrecorded
      <4>1. rr \in Record /\ rr' = [rr EXCEPT !.installed = TRUE] /\ tracer' = "save"
            BY <1>2, <3>1 DEF TraceStatus, Unrecorded, AliveInv, TypeInv, TypeOK
      <4>2. rr' \in Record /\ rr'.cluster = rr.cluster /\ rr'.roles = rr.roles
            BY <4>1 DEF Record
      <4>3. QED
            BY <1>2, <4>1, <4>2 DEF TraceStatus, diskVars
    <3>2. CASE ~Unrecorded
          BY <1>2, <3>2 DEF TraceStatus, diskVars
    <3>3. QED
          BY <3>1, <3>2
  <2>2. ClusterId' = ClusterId /\ ArgRoles' = ArgRoles
        BY <1>1, <2>1, ArgFrame DEF argVars
  <2>3. Changing'
        BY <1>1, <2>1 DEF Changing, Matches
  <2>4. (rr' # None <=> rr # None) /\ (Matches(rr, acked) => Matches(rr', acked))
        BY <2>1, NoneAssumption DEF Matches
  <2>5. Remembered'
        BY <1>1, <2>1, <2>2, <2>4 DEF Remembered, Matches
  <2>6. QED
        BY <2>3, <2>5
<1>3. CASE TracerRemovesFile
  <2>1. tracer' = "write" /\ rr' = rr /\ http.pc # "write"
        BY <1>3 DEF TracerRemovesFile
  <2>2. ClusterId' = ClusterId /\ ArgRoles' = ArgRoles
        BY <1>1, <2>1, ArgFrame DEF argVars
  <2>3. Changing'
        BY <1>1, <2>1 DEF Changing, Matches
  <2>4. Remembered'
        BY <1>1, <2>1, <2>2 DEF Remembered, Matches
  <2>5. QED
        BY <2>3, <2>4
<1>4. CASE TracerWritesFile
  <2>1. /\ tracer = "write" /\ tracer' = "idle" /\ file' = rr /\ rr' = rr /\ rr # None
        BY <1>4 DEF TracerWritesFile, AliveInv, TypeInv, Present
  <2>2. ClusterId' = ClusterId /\ ArgRoles' = ArgRoles
        BY <1>1, <2>1, ArgFrame DEF argVars
  <2>3. Changing'
        BY <1>1, <2>1 DEF Changing, Matches
  <2>4. Remembered'
        BY <1>1, <2>1, <2>2 DEF Remembered, Matches
  <2>5. QED
        BY <2>3, <2>4
<1>5. QED
      BY <1>2, <1>3, <1>4 DEF StatusTracing

\* The handler replaces the arguments, the record and the file, in this order.
LEMMA ChangeChanging ==
    ASSUME AliveInv, Changing, Remembered, RegistrationDataChange
    PROVE  Changing' /\ Remembered'
<1> USE DEF AliveInv
<1>1. /\ transfer.pc = "called" /\ main.pc = "loop" /\ http.to \in Place /\ rr # None
      /\ UNCHANGED <<main, tracer>>
      BY DEF RegistrationDataChange, ChangeCluster, ChangeRoles, ChangeRecord,
           ChangeRemovesFile, ChangeWritesFile, ChangeOpensFlag, Phases, TypeInv,
           TypeOK, Present
<1>2. CASE ChangeCluster \/ ChangeRoles
  <2>1. /\ transfer' = transfer /\ http'.to = http.to /\ http'.pc \in {"roles", "record"}
        /\ http'.pc = "record" => http.pc = "roles" /\ arg'.roles = http.to.roles
                                    /\ "roles" \notin alias' /\ arg'.cluster = arg.cluster
                                    /\ ("cluster" \notin alias => "cluster" \notin alias')
        /\ http'.pc = "roles" => arg'.cluster = http.to.cluster /\ "cluster" \notin alias'
        BY <1>1, <1>2 DEF ChangeCluster, ChangeRoles, TypeInv, TypeOK, Place
  <2>2. Changing'
        BY <2>1 DEF Changing
  <2>3. Remembered'
        BY <1>1, <2>1 DEF Remembered
  <2>4. QED
        BY <2>2, <2>3
<1>3. CASE ChangeRecord
  <2>1. /\ transfer' = transfer /\ http.pc = "record" /\ http'.to = http.to /\ http'.pc = "save"
        /\ UNCHANGED argVars
        /\ rr' = [cluster |-> http.to.cluster, roles |-> http.to.roles,
                   installed |-> rr.installed]
        BY <1>1, <1>3 DEF ChangeRecord, TypeInv, TypeOK
  <2>2. Matches(rr', http.to)
        BY <1>1, <2>1 DEF Matches, Record, Place, TypeInv, TypeOK
  <2>3. Changing'
        BY <2>1, <2>2 DEF Changing, Matches, argVars
  <2>4. Remembered'
        BY <1>1, <2>1 DEF Remembered
  <2>5. QED
        BY <2>3, <2>4
<1>4. CASE ChangeRemovesFile \/ ChangeWritesFile
  <2>1. /\ transfer' = transfer /\ http'.to = http.to /\ UNCHANGED argVars /\ rr' = rr
        /\ http.pc \in {"save", "write"}
        /\ \/ http'.pc = "write" /\ tracer # "write"
           \/ http'.pc = "open" /\ file' = rr
        BY <1>1, <1>4 DEF ChangeRemovesFile, ChangeWritesFile, TypeInv, TypeOK
  <2>2. Changing'
        BY <1>1, <2>1 DEF Changing, Matches, argVars
  <2>3. Remembered'
        BY <1>1, <2>1 DEF Remembered
  <2>4. QED
        BY <2>2, <2>3
<1>5. CASE ChangeOpensFlag
  <2>1. /\ http.pc = "open" /\ http'.pc = "idle" /\ acked' = http.to
        /\ UNCHANGED argVars /\ UNCHANGED <<rr, file>>
        BY <1>5 DEF ChangeOpensFlag, Idle, diskVars
  <2>2. /\ ClusterId = http.to.cluster /\ ArgRoles = http.to.roles
        /\ Matches(rr, http.to) /\ (tracer # "write" => Matches(file, http.to))
        BY <2>1 DEF Changing, ClusterId, ArgRoles
  <2>3. ClusterId' = ClusterId /\ ArgRoles' = ArgRoles
        BY <2>1, ArgFrame
  <2>4. Changing'
        BY <2>1 DEF Changing
  <2>5. Remembered'
        BY <1>1, <2>1, <2>2, <2>3 DEF Remembered, Matches
  <2>6. QED
        BY <2>4, <2>5
<1>6. QED
      BY <1>2, <1>3, <1>4, <1>5 DEF RegistrationDataChange

LEMMA StepChange ==
    ASSUME Undisturbed
    PROVE  ChangeInv /\ [Next]_vars => ChangeInv'
<1> SUFFICES ASSUME ChangeInv, [Next]_vars PROVE ChangeInv'
    OBVIOUS
<1>1. AliveInv /\ AliveInv'
      BY StepAlive DEF ChangeInv
<1>2. SUFFICES ASSUME spent'["tornSave"] = 0 PROVE Changing' /\ Remembered'
      BY <1>1 DEF ChangeInv
<1>3. Changing /\ Remembered
      BY <1>1, <1>2, SpentMonotone DEF ChangeInv, AliveInv, Kinds
<1>4. CASE Boot \/ Recovered \/ Crash
      BY <1>1, <1>2, <1>3, <1>4, ChangeStarting
<1>5. CASE RegistrationDataChange
      BY <1>1, <1>3, <1>5, ChangeChanging
<1>6. CASE StatusTracing
      BY <1>1, <1>3, <1>6, ChangeTracing
<1>7. CASE TransferCalls
  <2>1. /\ transfer'.pc = "called" /\ http'.pc = "cluster"
        BY <1>1, <1>7 DEF TransferCalls, AliveInv, TypeInv, TypeOK
  <2>2. QED
        BY <2>1 DEF Changing, Remembered
<1>8. CASE \/ RegisterReadsRoles \/ RegisterSends \/ RegisterReadsAnswer
           \/ EnterPool \/ RegisterSucceeds \/ RegisterFails
           \/ \E i \in Ids : RegisterAnswered(i)
  <2>1. /\ UNCHANGED <<argVars, rr, file, tracer, http, acked, transfer>>
        /\ main.pc \notin {"boot", "recovering"}
        BY <1>8 DEF RegisterReadsRoles, RegisterSends, RegisterReadsAnswer, EnterPool,
           RegisterSucceeds, RegisterFails, RegisterAnswered, diskVars
  <2>2. QED
        BY <1>3, <2>1, ChangeQuiet
<1>9. CASE \/ Deploy \/ Queries \/ UNCHANGED vars \/ TransferCallFails \/ TransferRemoves
           \/ \E i \in Ids, c \in Clusters, p \in Place : TransferAsked(i, c, p)
  <2>1. /\ UNCHANGED <<argVars, rr, file, tracer, http, acked, main>>
        /\ transfer'.pc # "called" => transfer.pc # "called"
        BY <1>9 DEF Deploy, vars, TransferCallFails, TransferRemoves, TransferAsked,
           Queries, QueryBegins, QuerySaves, QueryEnds, argVars, diskVars
  <2>2. QED
        BY <1>3, <2>1, ChangeQuiet
<1>10. QED
       BY <1>4, <1>5, <1>6, <1>7, <1>8, <1>9
       DEF Next, MainLoop, TransferAgentToCluster, Reports, RecoverFails

\* RegistrationDataChange, saveRecoveryFile and recover: while no restart has
\* cut a save short and transfers meet an agent at rest, the last answered
\* change decides where the agent belongs, across restarts.
THEOREM ChangeIsKept ==
    ASSUME Undisturbed
    PROVE  Spec => []ChangeSurvivesRestart
<1>1. ASSUME ChangeInv PROVE ChangeSurvivesRestart
  <2>1. acked # None => acked \in Place
        BY <1>1 DEF ChangeInv, AliveInv, TypeInv, TypeOK
  <2>2. AtRest /\ acked # None /\ spent["tornSave"] = 0 =>
           ClusterId = acked.cluster /\ ArgRoles = acked.roles
        BY <1>1 DEF ChangeInv, Remembered, AtRest
  <2>3. QED
        BY <2>1, <2>2 DEF ChangeSurvivesRestart, Arg, Place
<1>2. ChangeInv /\ [Next]_vars => ChangeInv'
      BY StepChange
<1>3. QED
      BY <1>1, <1>2, InitChange, PTL DEF Spec
=============================================================================
