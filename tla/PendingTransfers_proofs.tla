----------------------- MODULE PendingTransfers_proofs -----------------------
(***************************************************************************)
(* The list of pending tasks keeps its promises for any number of agents,  *)
(* clusters, requests and cancellations.                                   *)
(***************************************************************************)
EXTENDS PendingTransfers, TLAPS

\* A task knows whom it is for from the request on, and is cancelled only
\* after it was listed.
Addressed ==
    \A t \in Tasks :
        /\ task[t].pc # "free" => task[t].agent \in Agents /\ task[t].cluster \in Clusters
        /\ task[t].pc \in {"free", "asked"} => ~task[t].isCancelled

PendingInv ==
    /\ TypeOK
    /\ Addressed
    /\ ListedIsPending
    /\ CancelledNeverWorks

LEMMA InitPending == Init => PendingInv
BY NoneAssumption
   DEF Init, PendingInv, TypeOK, Addressed, ListedIsPending, CancelledNeverWorks,
       Unused, Task, Places

\* One entry of the list changes.
LEMMA ListUpdate ==
    ASSUME pendingTasks \in [Clusters -> [Agents -> Tasks \cup {None}]],
           NEW c \in Clusters, NEW a \in Agents, NEW v \in Tasks \cup {None},
           pendingTasks' = [pendingTasks EXCEPT ![c][a] = v]
    PROVE  /\ pendingTasks' \in [Clusters -> [Agents -> Tasks \cup {None}]]
           /\ pendingTasks'[c][a] = v
           /\ \A d \in Clusters, b \in Agents :
                 (d # c \/ b # a) => pendingTasks'[d][b] = pendingTasks[d][b]
OBVIOUS

\* A goroutine moves on without touching the flags of its task.
LEMMA MovesEffect ==
    ASSUME task \in [Tasks -> Task], NEW t \in Tasks, NEW pc \in Places, Moves(t, pc)
    PROVE  /\ task' \in [Tasks -> Task]
           /\ task'[t].pc = pc
           /\ task'[t].agent = task[t].agent /\ task'[t].cluster = task[t].cluster
           /\ task'[t].isCancelled = task[t].isCancelled
           /\ \A u \in Tasks \ {t} : task'[u] = task[u]
BY SMTT(60) DEF Moves, Task

LEMMA StepPending == PendingInv /\ [Next]_vars => PendingInv'
<1> SUFFICES ASSUME PendingInv, [Next]_vars PROVE PendingInv'
    OBVIOUS
<1> USE NoneAssumption DEF PendingInv, TypeOK, Addressed, ListedIsPending, CancelledNeverWorks
<1>1. ASSUME NEW t \in Tasks, NEW a \in Agents, NEW c \in Clusters,
             ChangeAgentClusterAndRoles(t, a, c)
      PROVE  PendingInv'
  <2>1. Asked(a, c) \in Task
        BY DEF Asked, Task, Places
  <2>2. /\ task' \in [Tasks -> Task]
        /\ task'[t] = Asked(a, c)
        /\ \A u \in Tasks \ {t} : task'[u] = task[u]
        /\ task[t].pc = "free"
        /\ pendingTasks' = pendingTasks
        BY <1>1, <2>1 DEF ChangeAgentClusterAndRoles
  <2>3. /\ task'[t].agent = a /\ task'[t].cluster = c
        /\ task'[t].pc = "asked" /\ ~task'[t].isCancelled
        BY <2>2 DEF Asked
  <2>4. TypeOK' /\ Addressed' /\ CancelledNeverWorks'
        BY SMTT(60), <2>2, <2>3
  <2>5. ListedIsPending'
        BY <2>2, <2>3
  <2>6. QED
        BY <2>4, <2>5
<1>2. ASSUME NEW t \in Tasks, AddPendingTask(t)
      PROVE  PendingInv'
  <2> DEFINE a == task[t].agent
             c == task[t].cluster
  <2>1. task[t].pc = "asked" /\ a \in Agents /\ c \in Clusters /\ ~task[t].isCancelled
        BY <1>2 DEF AddPendingTask
  <2>2. CASE pendingTasks[c][a] # None
    <3>1. Moves(t, "refused") /\ UNCHANGED pendingTasks
          BY <1>2, <2>2 DEF AddPendingTask
    <3>2. QED
          BY <2>1, <3>1, MovesEffect DEF Places
  <2>3. CASE pendingTasks[c][a] = None
    <3>1. /\ Moves(t, "listed")
          /\ pendingTasks' = [pendingTasks EXCEPT ![c][a] = t]
          BY <1>2, <2>3 DEF AddPendingTask
    <3>2. /\ task' \in [Tasks -> Task]
          /\ task'[t].pc = "listed"
          /\ task'[t].agent = a /\ task'[t].cluster = c /\ ~task'[t].isCancelled
          /\ \A u \in Tasks \ {t} : task'[u] = task[u]
          BY <2>1, <3>1, MovesEffect DEF Places
    <3>3. /\ pendingTasks' \in [Clusters -> [Agents -> Tasks \cup {None}]]
          /\ pendingTasks'[c][a] = t
          /\ \A d \in Clusters, b \in Agents :
                (d # c \/ b # a) => pendingTasks'[d][b] = pendingTasks[d][b]
          BY <2>1, <3>1, ListUpdate
    <3>4. ASSUME NEW d \in Clusters, NEW b \in Agents, pendingTasks'[d][b] # None
          PROVE  LET u == pendingTasks'[d][b] IN
                 /\ task'[u].pc = "listed" /\ ~task'[u].isCancelled
                 /\ task'[u].agent = b /\ task'[u].cluster = d
      <4>1. CASE d = c /\ b = a
            BY <4>1, <3>2, <3>3
      <4>2. CASE d # c \/ b # a
        <5>1. /\ pendingTasks'[d][b] = pendingTasks[d][b]
              /\ pendingTasks[d][b] \in Tasks \ {t}
              BY <4>2, <3>3, <3>4, <2>1
        <5>2. QED
              BY <5>1, <3>2, <3>4
      <4>3. QED
            BY <4>1, <4>2
    <3>5. TypeOK'
          BY <3>2, <3>3
    <3>6. Addressed' /\ CancelledNeverWorks'
      <4>1. ASSUME NEW u \in Tasks
            PROVE  /\ task'[u].pc # "free"
                      => task'[u].agent \in Agents /\ task'[u].cluster \in Clusters
                   /\ task'[u].pc \in {"free", "asked"} => ~task'[u].isCancelled
                   /\ task'[u].isCancelled => task'[u].pc \notin {"working", "done"}
        <5>1. CASE u = t
              BY <5>1, <2>1, <3>2
        <5>2. CASE u # t
              BY <5>2, <3>2
        <5>3. QED
              BY <5>1, <5>2
      <4>2. QED
            BY <4>1
    <3>7. QED
          BY <3>4, <3>5, <3>6
  <2>4. QED
        BY <2>2, <2>3
<1>3. ASSUME NEW a \in Agents, NEW c \in Clusters, Cancel(a, c)
      PROVE  PendingInv'
  <2> DEFINE t == pendingTasks[c][a]
  <2>1. /\ t \in Tasks /\ t # None
        /\ task[t].pc = "listed" /\ task[t].agent = a /\ task[t].cluster = c
        BY <1>3 DEF Cancel
  <2>2. /\ task' \in [Tasks -> Task]
        /\ task'[t].pc = "listed" /\ task'[t].agent = a /\ task'[t].cluster = c
        /\ \A u \in Tasks \ {t} : task'[u] = task[u]
        BY <1>3, <2>1 DEF Cancel, ContextDone, Task
  <2>3. /\ pendingTasks' \in [Clusters -> [Agents -> Tasks \cup {None}]]
        /\ pendingTasks'[c][a] = None
        /\ \A d \in Clusters, b \in Agents :
              (d # c \/ b # a) => pendingTasks'[d][b] = pendingTasks[d][b]
        BY <1>3, ListUpdate DEF Cancel
  <2>4. TypeOK'
        BY <2>2, <2>3
  <2>5. Addressed'
        BY <2>1, <2>2
  <2>6. CancelledNeverWorks'
        BY <2>2
  <2>7. ASSUME NEW d \in Clusters, NEW b \in Agents, pendingTasks'[d][b] # None
        PROVE  LET u == pendingTasks'[d][b] IN
               /\ task'[u].pc = "listed" /\ ~task'[u].isCancelled
               /\ task'[u].agent = b /\ task'[u].cluster = d
    <3>1. d # c \/ b # a
          BY <2>3, <2>7
    <3>2. /\ pendingTasks'[d][b] = pendingTasks[d][b]
          /\ pendingTasks[d][b] \in Tasks \ {t}
          BY <3>1, <2>3, <2>7, <2>1
    <3>3. QED
          BY <3>2, <2>2, <2>7
  <2>8. QED
        BY <2>4, <2>5, <2>6, <2>7
<1>4. ASSUME NEW t \in Tasks, TimeoutPasses(t)
      PROVE  PendingInv'
  <2>1. /\ task' \in [Tasks -> Task]
        /\ task'[t].pc = task[t].pc
        /\ task'[t].agent = task[t].agent /\ task'[t].cluster = task[t].cluster
        /\ task'[t].isCancelled = task[t].isCancelled
        /\ \A u \in Tasks \ {t} : task'[u] = task[u]
        /\ pendingTasks' = pendingTasks
        BY <1>4 DEF TimeoutPasses, ContextDone, Task
  <2>2. QED
        BY SMTT(60), <2>1
<1>5. ASSUME NEW t \in Tasks, Wake(t)
      PROVE  PendingInv'
  <2> DEFINE a == task[t].agent
             c == task[t].cluster
  <2>1. /\ task[t].pc = "listed" /\ a \in Agents /\ c \in Clusters
        /\ Moves(t, "awake")
        /\ pendingTasks' = [pendingTasks EXCEPT ![c][a] = None]
        BY <1>5 DEF Wake
  <2>2. /\ task' \in [Tasks -> Task]
        /\ task'[t].pc = "awake"
        /\ task'[t].agent = a /\ task'[t].cluster = c
        /\ task'[t].isCancelled = task[t].isCancelled
        /\ \A u \in Tasks \ {t} : task'[u] = task[u]
        BY <2>1, MovesEffect DEF Places
  <2>3. /\ pendingTasks' \in [Clusters -> [Agents -> Tasks \cup {None}]]
        /\ pendingTasks'[c][a] = None
        /\ \A d \in Clusters, b \in Agents :
              (d # c \/ b # a) => pendingTasks'[d][b] = pendingTasks[d][b]
        BY <2>1, ListUpdate
  <2>4. ASSUME NEW d \in Clusters, NEW b \in Agents, pendingTasks'[d][b] # None
        PROVE  LET u == pendingTasks'[d][b] IN
               /\ task'[u].pc = "listed" /\ ~task'[u].isCancelled
               /\ task'[u].agent = b /\ task'[u].cluster = d
    <3>1. d # c \/ b # a
          BY <2>3, <2>4
    <3>2. /\ pendingTasks'[d][b] = pendingTasks[d][b]
          /\ pendingTasks[d][b] \in Tasks \ {t}
          BY <3>1, <2>3, <2>4, <2>1
    <3>3. QED
          BY <3>2, <2>2, <2>4
  <2>5. TypeOK'
        BY <2>2, <2>3
  <2>6. Addressed'
        BY SMTT(60), <2>1, <2>2
  <2>7. CancelledNeverWorks'
        BY <2>2
  <2>8. QED
        BY <2>4, <2>5, <2>6, <2>7
<1>6. ASSUME NEW t \in Tasks, Decide(t) \/ WorkProcReturns(t)
      PROVE  PendingInv'
  <2>1. PICK pc \in {"dropped", "working", "done"} :
           /\ Moves(t, pc)
           /\ task[t].isCancelled => pc = "dropped"
           /\ task[t].pc \in {"awake", "working"}
           /\ UNCHANGED pendingTasks
        BY <1>6 DEF Decide, WorkProcReturns
  <2>2. /\ task' \in [Tasks -> Task]
        /\ task'[t].pc = pc
        /\ task'[t].agent = task[t].agent /\ task'[t].cluster = task[t].cluster
        /\ task'[t].isCancelled = task[t].isCancelled
        /\ \A u \in Tasks \ {t} : task'[u] = task[u]
        BY <2>1, MovesEffect DEF Places
  <2>3. QED
        BY SMTT(60), <2>1, <2>2
<1>7. CASE UNCHANGED vars
      BY <1>7 DEF vars
<1>8. QED
      BY <1>1, <1>2, <1>3, <1>4, <1>5, <1>6, <1>7 DEF Next, AllEnded

THEOREM PendingInvariant == Spec => []PendingInv
<1>1. QED
      BY InitPending, StepPending, PTL DEF Spec

\* A cancelled task never transfers its agent: addPendingTask, the handler of
\* the cancellation and DoAsync, for any number of requests.
THEOREM CancelIsFinal == Spec => []CancelledNeverWorks
<1>1. PendingInv => CancelledNeverWorks
      BY DEF PendingInv
<1>2. QED
      BY <1>1, PendingInvariant, PTL

\* Every listed task is waiting, uncancelled and listed where it belongs.
THEOREM ListIsTrue == Spec => [](TypeOK /\ ListedIsPending)
<1>1. PendingInv => TypeOK /\ ListedIsPending
      BY DEF PendingInv
<1>2. QED
      BY <1>1, PendingInvariant, PTL

-----------------------------------------------------------------------------
(* PendingTransfers implements Appointment *)

\* A step that changes one task at most takes its fate one step on, or leaves
\* it as it is.
LEMMA FateMoves ==
    ASSUME NEW t \in Tasks, task \in [Tasks -> Task], task' \in [Tasks -> Task],
           \A u \in Tasks \ {t} : task'[u] = task[u],
           NEW old, NEW new,
           old = FateOf(task[t]), new = FateOf(task'[t]),
           \/ old = new
           \/ old = "none" /\ new = "pending"
           \/ old = "pending" /\ new \in {"cancelled", "begun"}
           \/ old = "begun" /\ new = "over"
    PROVE  Promised!Next \/ UNCHANGED Fate
<1>1. /\ Fate' = [u \in Tasks |-> FateOf(task'[u])]
      /\ Fate[t] = old
      BY DEF Fate
<1>2. \A u \in Tasks \ {t} : FateOf(task'[u]) = FateOf(task[u])
      OBVIOUS
<1>3. Fate' = [Fate EXCEPT ![t] = new]
      BY <1>1, <1>2 DEF Fate
<1>4. CASE old = new
      BY <1>1, <1>3, <1>4 DEF Fate
<1>5. CASE old = "none" /\ new = "pending"
      BY <1>1, <1>3, <1>5 DEF Promised!Next, Promised!Accept, Promised!Become
<1>6. CASE old = "pending" /\ new \in {"cancelled", "begun"}
      BY <1>1, <1>3, <1>6
      DEF Promised!Next, Promised!Cancel, Promised!Begin, Promised!Become
<1>7. CASE old = "begun" /\ new = "over"
      BY <1>1, <1>3, <1>7 DEF Promised!Next, Promised!End, Promised!Become
<1>8. QED
      BY <1>4, <1>5, <1>6, <1>7

\* The fate of a task whose goroutine goes from one place to another.
LEMMA FateWhere ==
    ASSUME NEW o \in Task
    PROVE  /\ o.pc \in {"free", "asked", "refused"} => FateOf(o) = "none"
           /\ o.pc \in {"listed", "awake"} /\ o.isCancelled => FateOf(o) = "cancelled"
           /\ o.pc = "listed" /\ ~o.isCancelled => FateOf(o) = "pending"
           /\ o.pc = "awake" /\ ~o.isCancelled => FateOf(o) = "begun"
           /\ o.pc = "dropped" => FateOf(o) = "cancelled"
           /\ o.pc = "working" => FateOf(o) = "begun"
           /\ o.pc = "done" => FateOf(o) = "over"
BY DEF FateOf

LEMMA StepIsPromised == PendingInv /\ [Next]_vars => [Promised!Next]_Fate
<1> SUFFICES ASSUME PendingInv, [Next]_vars
             PROVE  Promised!Next \/ UNCHANGED Fate
    OBVIOUS
<1> USE DEF PendingInv, TypeOK
<1>t. TypeOK'
      BY StepPending
<1>1. ASSUME NEW t \in Tasks, NEW a \in Agents, NEW c \in Clusters,
             ChangeAgentClusterAndRoles(t, a, c)
      PROVE  Promised!Next \/ UNCHANGED Fate
  <2>1. /\ task[t].pc = "free" /\ task'[t].pc = "asked"
        /\ \A u \in Tasks \ {t} : task'[u] = task[u]
        BY <1>1 DEF ChangeAgentClusterAndRoles, Asked
  <2>2. FateOf(task[t]) = "none" /\ FateOf(task'[t]) = "none"
        BY <2>1, <1>t, FateWhere
  <2>3. QED
        BY <2>1, <2>2, <1>t, FateMoves
<1>2. ASSUME NEW t \in Tasks, AddPendingTask(t)
      PROVE  Promised!Next \/ UNCHANGED Fate
  <2>1. PICK pc \in {"refused", "listed"} : Moves(t, pc)
        BY <1>2 DEF AddPendingTask
  <2>2. /\ task'[t].pc = pc /\ task'[t].isCancelled = task[t].isCancelled
        /\ \A u \in Tasks \ {t} : task'[u] = task[u]
        BY <2>1, MovesEffect DEF Places
  <2>3. task[t].pc = "asked" /\ ~task[t].isCancelled
        BY <1>2 DEF AddPendingTask, Addressed
  <2>4. FateOf(task[t]) = "none" /\ FateOf(task'[t]) \in {"none", "pending"}
        BY <2>1, <2>2, <2>3, <1>t, FateWhere
  <2>5. QED
        BY <2>2, <2>4, <1>t, FateMoves
<1>3. ASSUME NEW a \in Agents, NEW c \in Clusters, Cancel(a, c)
      PROVE  Promised!Next \/ UNCHANGED Fate
  <2> DEFINE t == pendingTasks[c][a]
  <2>1. t \in Tasks /\ task[t].pc = "listed" /\ ~task[t].isCancelled
        BY <1>3, NoneAssumption DEF Cancel, ListedIsPending
  <2>2. /\ task'[t].pc = "listed" /\ task'[t].isCancelled
        /\ \A u \in Tasks \ {t} : task'[u] = task[u]
        BY <1>3, <2>1 DEF Cancel, ContextDone
  <2>3. FateOf(task[t]) = "pending" /\ FateOf(task'[t]) = "cancelled"
        BY <2>1, <2>2, <1>t, FateWhere
  <2>4. QED
        BY <2>1, <2>2, <2>3, <1>t, FateMoves
<1>4. ASSUME NEW t \in Tasks, TimeoutPasses(t)
      PROVE  Promised!Next \/ UNCHANGED Fate
  <2>1. /\ task'[t].pc = task[t].pc /\ task[t].pc = "listed"
        /\ task'[t].isCancelled = task[t].isCancelled
        /\ \A u \in Tasks \ {t} : task'[u] = task[u]
        BY <1>4 DEF TimeoutPasses, ContextDone
  <2>2. FateOf(task'[t]) = FateOf(task[t])
        BY <2>1, <1>t, FateWhere
  <2>3. QED
        BY <2>1, <2>2, <1>t, FateMoves
<1>5. ASSUME NEW t \in Tasks, Wake(t)
      PROVE  Promised!Next \/ UNCHANGED Fate
  <2>1. task[t].pc = "listed" /\ Moves(t, "awake")
        BY <1>5 DEF Wake
  <2>2. /\ task'[t].pc = "awake" /\ task'[t].isCancelled = task[t].isCancelled
        /\ \A u \in Tasks \ {t} : task'[u] = task[u]
        BY <2>1, MovesEffect DEF Places
  <2>3. \/ FateOf(task[t]) = "cancelled" /\ FateOf(task'[t]) = "cancelled"
        \/ FateOf(task[t]) = "pending" /\ FateOf(task'[t]) = "begun"
        BY <2>1, <2>2, <1>t, FateWhere
  <2>4. QED
        BY <2>2, <2>3, <1>t, FateMoves
<1>6. ASSUME NEW t \in Tasks, Decide(t)
      PROVE  Promised!Next \/ UNCHANGED Fate
  <2>1. /\ task[t].pc = "awake"
        /\ Moves(t, IF task[t].isCancelled THEN "dropped" ELSE "working")
        BY <1>6 DEF Decide
  <2>2. /\ task'[t].pc = IF task[t].isCancelled THEN "dropped" ELSE "working"
        /\ \A u \in Tasks \ {t} : task'[u] = task[u]
        BY <2>1, MovesEffect DEF Places
  <2>3. FateOf(task'[t]) = FateOf(task[t])
        BY <2>1, <2>2, <1>t, FateWhere
  <2>4. QED
        BY <2>2, <2>3, <1>t, FateMoves
<1>7. ASSUME NEW t \in Tasks, WorkProcReturns(t)
      PROVE  Promised!Next \/ UNCHANGED Fate
  <2>1. task[t].pc = "working" /\ Moves(t, "done")
        BY <1>7 DEF WorkProcReturns
  <2>2. task'[t].pc = "done" /\ \A u \in Tasks \ {t} : task'[u] = task[u]
        BY <2>1, MovesEffect DEF Places
  <2>3. FateOf(task[t]) = "begun" /\ FateOf(task'[t]) = "over"
        BY <2>1, <2>2, <1>t, FateWhere
  <2>4. QED
        BY <2>2, <2>3, <1>t, FateMoves
<1>8. CASE UNCHANGED vars
      BY <1>8 DEF vars, Fate
<1>9. QED
      BY <1>1, <1>2, <1>3, <1>4, <1>5, <1>6, <1>7, <1>8 DEF Next, AllEnded

\* addPendingTask, the cancellation and DoAsync: the critical section decides
\* every request one way or the other, for any number of requests, agents and
\* clusters.
THEOREM TaskIsAppointment == Spec => AppointmentSpec
<1>1. Init => Promised!Init
      BY DEF Init, Promised!Init, Fate, FateOf, Unused
<1>2. QED
      BY <1>1, StepIsPromised, PendingInvariant, PTL
      DEF Spec, AppointmentSpec, Promised!Spec
=============================================================================
