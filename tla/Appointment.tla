----------------------------- MODULE Appointment -----------------------------
(***************************************************************************)
(* What a request for a later transfer promises, without lists, contexts,  *)
(* locks and flags: once it is accepted, either a cancellation is in time  *)
(* and nothing happens, or the transfer begins, once, and no cancellation  *)
(* reaches it any more.  PendingTransfers implements it.                   *)
(***************************************************************************)
CONSTANT Tasks

VARIABLE fate  \* fate[t]: what has become of request t

Become(t, f) == fate' = [fate EXCEPT ![t] = f]

Init == fate = [t \in Tasks |-> "none"]

Accept(t) == fate[t] = "none" /\ Become(t, "pending")

Cancel(t) == fate[t] = "pending" /\ Become(t, "cancelled")

Begin(t) == fate[t] = "pending" /\ Become(t, "begun")

End(t) == fate[t] = "begun" /\ Become(t, "over")

Next == \E t \in Tasks : Accept(t) \/ Cancel(t) \/ Begin(t) \/ End(t)

Spec == Init /\ [][Next]_fate
=============================================================================
