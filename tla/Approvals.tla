----------------------------- MODULE Approvals -----------------------------
(***************************************************************************)
(* The desktop's approval state machine (apps/desktop/src/lib/approvals.ts): *)
(* what every control action, tool call and assistant proposal waits in.   *)
(* An approval is its state; "none" stands for one that was not created.   *)
(***************************************************************************)

ApprovalStates ==
  {"none", "pending", "approved", "denied", "expired", "canceled", "executing", "executed", "failed"}

Ended == {"denied", "expired", "canceled", "executed", "failed"}

Allowed(state) ==
  CASE state = "pending"   -> {"approved", "denied", "expired", "canceled"}
    [] state = "approved"  -> {"executing", "failed", "canceled"}
    [] state = "executing" -> {"executed", "failed", "canceled"}
    [] OTHER               -> {}

(* transitionApprovalState: a step that is not allowed leaves the approval. *)
Transition(state, next) == IF next \in Allowed(state) THEN next ELSE state

(* approve(id) followed by markExecuting(id), in one event handler. *)
ApproveAndExecute(state) == Transition(Transition(state, "approved"), "executing")

(* cancelAllPending and expireDueApprovals only touch pending approvals. *)
EndPending(items, next) ==
  [i \in DOMAIN items |-> IF items[i] = "pending" THEN Transition(items[i], next) ELSE items[i]]
=============================================================================
