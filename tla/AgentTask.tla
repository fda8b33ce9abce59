------------------------------- MODULE AgentTask -------------------------------
(***************************************************************************)
(* The Rust task runner of the desktop (src-tauri/src/agent/mod.rs) behind *)
(* its Tauri commands: every task has a loop of its own that plans, looks  *)
(* at the screen, asks the model for an operation and asks the user for    *)
(* each one that touches the machine.  A loop's steps are its awaits; a    *)
(* command goes to the agent stored last.  The window (assistantEngine.ts) *)
(* hears of a task through events.                                         *)
(***************************************************************************)
EXTENDS Naturals

CONSTANTS MaxTasks,     \* bound: tasks started
          MaxSteps      \* steps of the longest plan

ASSUME AgentBoundsAssumption == MaxTasks \in Nat /\ MaxSteps \in Nat

VARIABLES loop,         \* per task: what its loop awaits
          step, steps,  \* per task: the step reached, the steps of the plan
          taskStatus,   \* per task: current_task.status
          pending,      \* per task: the interaction a command can take
          decision,     \* per task: what was sent on its channel
          cancelled,    \* per task: the flag
          cancelling,   \* per task: a cancel that has set the flag only
          current,      \* the task of state.agent (0: none)
          starting,     \* tasks spawned and not stored yet
          granted,      \* history: operations approved before a cancel
          ran,          \* history: operations executed
          shown         \* the task whose proposal the window shows (0: none)

agentVars == <<loop, step, steps, taskStatus, pending, decision, cancelled, cancelling,
               current, starting, granted, ran, shown>>

Tasks == 1..MaxTasks
Final == {"Completed", "Failed", "Cancelled"}
Loops == {"none", "plan", "next", "ask", "observe", "propose", "auto", "request",
          "approval", "input", "execute", "sum", "end"}
Goes(t, to) == loop' = [loop EXCEPT ![t] = to]
Says(t, st) == taskStatus' = [taskStatus EXCEPT ![t] = st]

AgentInit ==
  /\ loop = [t \in Tasks |-> "none"] /\ step = [t \in Tasks |-> 0] /\ steps = [t \in Tasks |-> 0]
  /\ taskStatus = [t \in Tasks |-> "Planning"]
  /\ pending = [t \in Tasks |-> "none"] /\ decision = [t \in Tasks |-> "none"]
  /\ cancelled = [t \in Tasks |-> FALSE] /\ cancelling = [t \in Tasks |-> FALSE]
  /\ current = 0 /\ starting = {} /\ granted = {} /\ ran = {} /\ shown = 0

----------------------------------------------------------------------------
(* Events: AgentEvent is serialised with its kind under "event_type"; the   *)
(* window reads "eventType".                                                *)
Wire(kind) == [event_type |-> kind]
KindRead(event) == IF "eventType" \in DOMAIN event THEN event["eventType"] ELSE "undefined"

(* onAgentEvent's callback, of which proposal_ready matters here.           *)
WindowHears(t, kind) ==
  shown' = IF KindRead(Wire(kind)) = "proposal_ready" THEN t ELSE shown

----------------------------------------------------------------------------
(* The commands.  start_agent_task: the loop is spawned, and then the agent *)
(* takes the place of the one stored before.                                *)
StartTask(t) ==
  /\ loop[t] = "none" /\ \A u \in Tasks : u < t => loop[u] # "none"
  /\ Goes(t, "plan") /\ starting' = starting \cup {t}
  /\ UNCHANGED <<step, steps, taskStatus, pending, decision, cancelled, cancelling, current, granted, ran, shown>>

StoreAgent(t) ==
  /\ t \in starting
  /\ starting' = starting \ {t} /\ current' = t
  /\ UNCHANGED <<loop, step, steps, taskStatus, pending, decision, cancelled, cancelling, granted, ran, shown>>

(* approve_proposal, deny_proposal and submit_user_response take an         *)
(* interaction of their kind, whichever proposal it is for.                 *)
Take(kind, sent) ==
  /\ current # 0 /\ pending[current] = kind
  /\ pending' = [pending EXCEPT ![current] = "none"]
  /\ decision' = [decision EXCEPT ![current] = sent]
  /\ granted' = IF sent = "approved" /\ ~cancelled[current] THEN granted \cup {<<current, step[current]>>} ELSE granted
  /\ UNCHANGED <<loop, step, steps, taskStatus, cancelled, cancelling, current, starting, ran, shown>>
ApproveProposal == Take("approval", "approved")
DenyProposal == Take("approval", "denied")
SubmitResponse == Take("input", "answered")

(* cancel: the flag; then, with the locks, the interaction and the status.  *)
CancelFlag ==
  /\ current # 0 /\ ~cancelling[current]
  /\ loop[current] # "end" \/ ~cancelled[current]
  /\ cancelled' = [cancelled EXCEPT ![current] = TRUE]
  /\ cancelling' = [cancelling EXCEPT ![current] = TRUE]
  /\ UNCHANGED <<loop, step, steps, taskStatus, pending, decision, current, starting, granted, ran, shown>>

(* Mutant: cancelling leaves the interaction where it is. *)
CancelRestLeaves(t) ==
  /\ cancelling[t]
  /\ cancelling' = [cancelling EXCEPT ![t] = FALSE]
  /\ Says(t, "Cancelled")
  /\ UNCHANGED <<loop, step, steps, pending, decision, cancelled, current, starting, granted, ran, shown>>

CancelRest(t) ==
  /\ cancelling[t]
  /\ cancelling' = [cancelling EXCEPT ![t] = FALSE]
  /\ pending' = [pending EXCEPT ![t] = "none"]
  /\ decision' = [decision EXCEPT ![t] = CASE pending[t] = "approval" -> "denied"
                                           [] pending[t] = "input" -> "answered"
                                           [] OTHER -> @]
  /\ Says(t, "Cancelled")
  /\ UNCHANGED <<loop, step, steps, cancelled, current, starting, granted, ran, shown>>

----------------------------------------------------------------------------
(* The loop's end with an error (start_task).                               *)
Ends(t) ==
  /\ Goes(t, "end")
  /\ Says(t, IF cancelled[t] THEN "Cancelled" ELSE "Failed")
  /\ UNCHANGED <<step, steps, pending, ran, shown>>

(* run_task_loop: a plan of the model, or a plan of one step; no plan       *)
(* without a provider.                                                      *)
PlanTask(t, n) ==
  /\ loop[t] = "plan"
  /\ \/ n > 0 /\ Goes(t, "next") /\ steps' = [steps EXCEPT ![t] = n] /\ UNCHANGED <<step, taskStatus, pending, ran, shown>>
     \/ n = 0 /\ Ends(t)
  /\ UNCHANGED decision

NextStep(t, at) ==
  /\ loop[t] = "next"
  /\ \/ cancelled[t] /\ Ends(t)
     \/ /\ ~cancelled[t] /\ step[t] < steps[t] /\ at \in {"ask", "observe", "propose"}
        /\ Goes(t, at) /\ step' = [step EXCEPT ![t] = @ + 1] /\ Says(t, "Executing")
        /\ UNCHANGED <<steps, pending, ran, shown>>
     \/ /\ ~cancelled[t] /\ step[t] = steps[t]
        /\ Goes(t, "sum") /\ UNCHANGED <<step, steps, taskStatus, pending, ran, shown>>
  /\ UNCHANGED decision

(* execute_step's awaits that may fail go on to one of the next ones.       *)
GoesOn(t, nexts) ==
  /\ \/ Ends(t)
     \/ \E to \in nexts : Goes(t, to) /\ UNCHANGED <<step, steps, taskStatus, pending, ran, shown>>
  /\ UNCHANGED decision

ObserveScreen(t) == loop[t] = "observe" /\ GoesOn(t, {"propose"})

(* propose_next_operation and parse_next_operation: an operation that needs *)
(* no approval, one that does, a question, or the end of the task.          *)
ProposeNextOperation(t) ==
  loop[t] = "propose" /\ GoesOn(t, {"auto", "request", "ask", "sum"})

(* The operation that needs no approval.                                    *)
ExecuteAtOnce(t) == loop[t] = "auto" /\ GoesOn(t, {"next"})

(* The interaction, the status and the event; then the wait for the channel. *)
Request(t, kind, st) ==
  /\ Goes(t, kind)
  /\ pending' = [pending EXCEPT ![t] = kind]
  /\ Says(t, st)
  /\ decision' = [decision EXCEPT ![t] = "none"]
  /\ WindowHears(t, "proposal_ready")
  /\ UNCHANGED <<step, steps, ran>>

RequestApproval(t) ==
  loop[t] = "request" /\ Request(t, "approval", "AwaitingApproval")
RequestUserInput(t) ==
  loop[t] = "ask" /\ Request(t, "input", "AwaitingUserInput")

(* Mutant: the flag is not looked at after the wait. *)
AnsweredAnyway(t) ==
  /\ loop[t] \in {"approval", "input"} /\ decision[t] # "none"
  /\ \/ decision[t] = "denied" /\ Ends(t)
     \/ decision[t] # "denied" /\ Goes(t, IF decision[t] = "approved" THEN "execute" ELSE "next")
                               /\ UNCHANGED <<step, steps, taskStatus, pending, ran, shown>>
  /\ decision' = [decision EXCEPT ![t] = "none"]

(* The answer, unless the task was cancelled meanwhile; a denial ends the   *)
(* task.                                                                    *)
Answered(t) ==
  /\ loop[t] \in {"approval", "input"} /\ decision[t] # "none"
  /\ \/ (cancelled[t] \/ decision[t] = "denied") /\ Ends(t)
     \/ /\ ~cancelled[t] /\ decision[t] # "denied"
        /\ Goes(t, IF decision[t] = "approved" THEN "execute" ELSE "next")
        /\ UNCHANGED <<step, steps, taskStatus, pending, ran, shown>>
  /\ decision' = [decision EXCEPT ![t] = "none"]

(* execute_pending.                                                         *)
ExecutePending(t, ok) ==
  /\ loop[t] = "execute"
  /\ ran' = ran \cup {<<t, step[t]>>}
  /\ Goes(t, IF ok THEN "next" ELSE "end")
  /\ IF ok THEN UNCHANGED taskStatus ELSE Says(t, IF cancelled[t] THEN "Cancelled" ELSE "Failed")
  /\ UNCHANGED <<step, steps, pending, decision, shown>>

(* complete_task, which does not look at the flag.                          *)
CompleteTask(t) ==
  /\ loop[t] = "sum"
  /\ Goes(t, "end") /\ Says(t, "Completed")
  /\ UNCHANGED <<step, steps, pending, decision, ran, shown>>

LoopStep(t) ==
  /\ \/ \E n \in 0..MaxSteps : PlanTask(t, n)
     \/ \E to \in {"ask", "observe", "propose"} : NextStep(t, to)
     \/ ObserveScreen(t) \/ ProposeNextOperation(t) \/ ExecuteAtOnce(t)
     \/ RequestApproval(t) \/ RequestUserInput(t) \/ Answered(t) \/ CompleteTask(t)
     \/ \E ok \in BOOLEAN : ExecutePending(t, ok)
  /\ UNCHANGED <<cancelled, cancelling, current, starting, granted>>

AgentNext ==
  \/ \E t \in Tasks : StartTask(t) \/ StoreAgent(t) \/ CancelRest(t) \/ LoopStep(t)
  \/ ApproveProposal \/ DenyProposal \/ SubmitResponse \/ CancelFlag

(* The runtime polls its tasks; models, sleeps and locks come back.         *)
AgentFairness ==
  \A t \in Tasks : WF_agentVars(LoopStep(t)) /\ WF_agentVars(CancelRest(t))

AgentSpec == AgentInit /\ [][AgentNext]_agentVars /\ AgentFairness

----------------------------------------------------------------------------

(* Types; an interaction is pending only while its loop waits for it; a     *)
(* loop that has ended left a final status.                                 *)
AgentTypeOK ==
  /\ current \in 0..MaxTasks /\ starting \subseteq Tasks /\ shown \in 0..MaxTasks
  /\ \A t \in Tasks : /\ loop[t] \in Loops /\ step[t] <= steps[t] /\ steps[t] <= MaxSteps
                      /\ pending[t] \in {"none", loop[t]}
                      /\ loop[t] = "end" => taskStatus[t] \in Final

(* What touches the machine was approved, in its own step, before the task  *)
(* was cancelled.                                                           *)
RunsWhatWasApproved == ran \subseteq granted

(* A task cancelled while it waits for the user ends.                       *)
CancelWhileWaitingEnds ==
  \A t \in Tasks : cancelling[t] /\ pending[t] # "none" ~> loop[t] = "end"

(* What a task waits for is shown in the window (docs/ADVANCED_AGENT.md:158).*)
ProposalIsShown == \A t \in Tasks : loop[t] = "approval" ~> shown = t \/ loop[t] # "approval"
=============================================================================
