-------------------------- MODULE PendingTransfers --------------------------
(***************************************************************************)
(* The background tasks of PUT /apis/v1/agent/change?wait=n: each waits    *)
(* for a context to be done, by its timeout or by DELETE of the same path, *)
(* takes the lock, clears the place it was listed in, lets go of the lock  *)
(* and only then looks whether it was cancelled.                           *)
(*                                                                         *)
(* pendingTasks lists at most one task per new cluster and agent.  Tasks   *)
(* is a finite pool of task objects, each used once; it bounds the number  *)
(* of requests.  What a task does in the end (TransferAgentToCluster) is   *)
(* the subject of AgentTransfer.                                           *)
(***************************************************************************)

CONSTANTS Agents, Clusters, Tasks, None

ASSUME NoneAssumption == None \notin Tasks

VARIABLES
    pendingTasks,  \* pendingTasks[c][a]: the task that will move a to c
    task           \* task[t]: the task object and its goroutine

vars == <<pendingTasks, task>>

\* free:    not requested yet          listed: the goroutine waits
\* asked:   the handler found the agent, and will lock the tasks next
\* refused: a duplicate                awake:  the goroutine is past its lock
\* working: transferring the agent     done:   transferred
\* dropped: the goroutine returned, its task having been cancelled
Places == {"free", "asked", "refused", "listed", "awake", "working", "done",
           "dropped"}

Task == [pc : Places, agent : Agents \cup {None}, cluster : Clusters \cup {None},
         isCancelled : BOOLEAN, contextDone : BOOLEAN]

Unused == [pc |-> "free", agent |-> None, cluster |-> None,
           isCancelled |-> FALSE, contextDone |-> FALSE]

\* Mutant: the two strings of NewPendingTask are swapped.
AskedSwapped(a, c) == [pc |-> "asked", agent |-> c, cluster |-> a,
                       isCancelled |-> FALSE, contextDone |-> FALSE]

Asked(a, c) == [pc |-> "asked", agent |-> a, cluster |-> c,
                isCancelled |-> FALSE, contextDone |-> FALSE]

\* The task's context is done, and isCancelled as given.
ContextDone(o, cancelled) ==
    [pc |-> o.pc, agent |-> o.agent, cluster |-> o.cluster,
     isCancelled |-> cancelled, contextDone |-> TRUE]

Init ==
    /\ pendingTasks = [c \in Clusters |-> [a \in Agents |-> None]]
    /\ task = [t \in Tasks |-> Unused]

Moves(t, pc) == task' = [task EXCEPT ![t].pc = pc]

\* ChangeAgentClusterAndRoles with wait > 0: the agent is looked up in the
\* cache of its old cluster, before the lock is taken.
ChangeAgentClusterAndRoles(t, a, c) ==
    /\ task[t].pc = "free"
    /\ task' = [task EXCEPT ![t] = Asked(a, c)]
    /\ UNCHANGED pendingTasks

\* addPendingTask and DoAsync, under the lock.
AddPendingTask(t) ==
    LET a == task[t].agent
        c == task[t].cluster
    IN  /\ task[t].pc = "asked"
        /\ IF pendingTasks[c][a] # None
           THEN Moves(t, "refused") /\ UNCHANGED pendingTasks
           ELSE /\ Moves(t, "listed")
                /\ pendingTasks' = [pendingTasks EXCEPT ![c][a] = t]

\* Mutant: the task stays listed.
CancelStillListed(a, c) ==
    LET t == pendingTasks[c][a] IN
    /\ t # None /\ ~task[t].isCancelled
    /\ task' = [task EXCEPT ![t] = ContextDone(@, TRUE)]
    /\ UNCHANGED pendingTasks

\* CancelChangeAgentClusterAndRoles, under the lock.  It answers Succeed when
\* nothing is listed, too, and then changes nothing.
Cancel(a, c) ==
    LET t == pendingTasks[c][a] IN
    /\ t # None
    /\ pendingTasks' = [pendingTasks EXCEPT ![c][a] = None]
    /\ task' = [task EXCEPT ![t] = ContextDone(@, TRUE)]

\* The timeout of the context.
TimeoutPasses(t) ==
    /\ task[t].pc = "listed" /\ ~task[t].contextDone
    /\ task' = [task EXCEPT ![t] = ContextDone(@, @.isCancelled)]
    /\ UNCHANGED pendingTasks

\* Mutant: the goroutine leaves its place in the list to others.
WakeStillListed(t) ==
    /\ task[t].pc = "listed" /\ task[t].contextDone
    /\ Moves(t, "awake")
    /\ UNCHANGED pendingTasks

\* DoAsync, under the lock: whatever task is listed for the agent goes.
Wake(t) ==
    /\ task[t].pc = "listed" /\ task[t].contextDone
    /\ Moves(t, "awake")
    /\ pendingTasks' = [pendingTasks EXCEPT ![task[t].cluster][task[t].agent] = None]

\* Mutant: the flag is not looked at again after the wait.
DecideUnchecked(t) ==
    /\ task[t].pc = "awake"
    /\ Moves(t, "working")
    /\ UNCHANGED pendingTasks

\* DoAsync after the lock.
Decide(t) ==
    /\ task[t].pc = "awake"
    /\ Moves(t, IF task[t].isCancelled THEN "dropped" ELSE "working")
    /\ UNCHANGED pendingTasks

\* workProc returns, with or without an error.
WorkProcReturns(t) ==
    /\ task[t].pc = "working"
    /\ Moves(t, "done")
    /\ UNCHANGED pendingTasks

AllEnded ==
    /\ \A t \in Tasks : task[t].pc \in {"refused", "done", "dropped"}
    /\ UNCHANGED vars

Next ==
    \/ \E t \in Tasks :
          \/ \E a \in Agents, c \in Clusters : ChangeAgentClusterAndRoles(t, a, c)
          \/ AddPendingTask(t) \/ TimeoutPasses(t) \/ Wake(t) \/ Decide(t)
          \/ WorkProcReturns(t)
    \/ \E a \in Agents, c \in Clusters : Cancel(a, c)
    \/ AllEnded

\* Handlers and goroutines run, and clocks advance.
Fairness ==
    \A t \in Tasks : WF_vars(AddPendingTask(t) \/ TimeoutPasses(t) \/ Wake(t)
                             \/ Decide(t) \/ WorkProcReturns(t))

Spec == Init /\ [][Next]_vars
FairSpec == Spec /\ Fairness

-----------------------------------------------------------------------------
(* Properties *)

TypeOK ==
    /\ pendingTasks \in [Clusters -> [Agents -> Tasks \cup {None}]]
    /\ task \in [Tasks -> Task]

\* A task that was cancelled never transfers the agent, however late the
\* cancellation came: it is only accepted while the goroutine has not been in
\* its critical section.
CancelledNeverWorks ==
    \A t \in Tasks : task[t].isCancelled => task[t].pc \notin {"working", "done"}

\* What the API lists as pending can still be cancelled, and it is listed
\* under the agent and cluster it is for.
ListedIsPending ==
    \A c \in Clusters, a \in Agents :
        LET t == pendingTasks[c][a] IN
        t # None => /\ task[t].pc = "listed" /\ ~task[t].isCancelled
                    /\ task[t].agent = a /\ task[t].cluster = c

\* The critical section of the goroutine decides between the timeout and a
\* cancellation, although isCancelled is read after it: what was not cancelled
\* by then is as good as begun.
FateOf(o) ==
    CASE o.pc \in {"free", "asked", "refused"} -> "none"
      [] o.pc = "listed" -> IF o.isCancelled THEN "cancelled" ELSE "pending"
      [] o.pc = "awake" -> IF o.isCancelled THEN "cancelled" ELSE "begun"
      [] o.pc = "dropped" -> "cancelled"
      [] o.pc = "working" -> "begun"
      [] o.pc = "done" -> "over"

Fate == [t \in Tasks |-> FateOf(task[t])]

Promised == INSTANCE Appointment WITH fate <- Fate

\* Every request ends in one of the two ways that Appointment has: a cancelled
\* task is never begun, and one that has begun, or is about to, is never marked
\* as cancelled, whatever tasks replace each other in the list.
AppointmentSpec == Promised!Spec

\* A listed task leaves the list, so that another one can be requested for
\* the agent, and its goroutine ends.
PendingIsTemporary ==
    \A t \in Tasks :
        /\ \A c \in Clusters, a \in Agents :
              (pendingTasks[c][a] = t) ~> (pendingTasks[c][a] # t)
        /\ (task[t].pc = "listed") ~> (task[t].pc \in {"done", "dropped"})

\* Claim: "remove itself from the background task list".  A goroutine that
\* wakes up unlists no task but its own.
RemovesItself ==
    [][\A t \in Tasks : Wake(t) =>
          \A c \in Clusters, a \in Agents :
              pendingTasks'[c][a] # pendingTasks[c][a] => pendingTasks[c][a] = t]_vars
=============================================================================
