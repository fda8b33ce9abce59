----------------------------- MODULE MCRecords ------------------------------
(* What outlives a process: browser sessions, device tokens, subscriptions, *)
(* and the files of the desktop's local model runtime. The four share no    *)
(* state, so that they are checked side by side: a behaviour belongs to the *)
(* component that "focus" names, the others do not move.                    *)
EXTENDS BrowserSessions, DeviceAccess, Billing, LocalAi, TLC

VARIABLE focus

recordsVars == <<focus, sessionVars, accessVars, billingVars, localVars>>

RecordsInit ==
  /\ focus \in {"sessions", "access", "billing", "local"}
  /\ SessionInit /\ AccessInit /\ BillingInit /\ LocalInit
  /\ focus # "local" => port = 0

RecordsNext ==
  /\ UNCHANGED focus
  /\ \/ focus = "sessions" /\ SessionNext /\ UNCHANGED <<accessVars, billingVars, localVars>>
     \/ focus = "access" /\ AccessNext /\ UNCHANGED <<sessionVars, billingVars, localVars>>
     \/ focus = "billing" /\ BillingNext /\ UNCHANGED <<sessionVars, accessVars, localVars>>
     \/ focus = "local" /\ LocalNext /\ UNCHANGED <<sessionVars, accessVars, billingVars>>

RecordsSpec == RecordsInit /\ [][RecordsNext]_recordsVars

(* Types of the four components, with what their states say of each other:  *)
(* a user row names a Stripe customer that was made for that user, only a   *)
(* process that runs serves the port, and what the metadata file records    *)
(* was installed with a runtime binary that is whole.                       *)
RecordsTypeOK == SessionTypeOK /\ AccessTypeOK /\ BillingTypeOK /\ LocalTypeOK

(* The webhook's requests, and those of the checkout, are interchangeable.   *)
RequestSymmetry == Permutations(Handlers) \cup Permutations(Checkouts)

(* Claims that overlapped are followed no further: nothing is promised then. *)
NoOverlap == ~overlap
=============================================================================
